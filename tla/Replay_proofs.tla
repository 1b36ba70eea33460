---------------------------- MODULE Replay_proofs ----------------------------
(***************************************************************************)
(* What replay reads of a trace is what the session wrote: a trace, cut    *)
(* after any record or whole, is read back as each event with its records, *)
(* its counts and its line of the timeline (crates/heapify-cli/src/app.rs, *)
(* replay.rs).                                                             *)
(*                                                                         *)
(* The invariant is Booked: the trace is a list of pages, the first of the *)
(* session and one for each event, which starts with the event; the pages  *)
(* after the first each tell a summary and, right after it, the difference *)
(* from the one before, or none does.  The rest is what Replay's operators *)
(* make of such a list.                                                    *)
(***************************************************************************)
EXTENDS HeapEvidence_proofs

-----------------------------------------------------------------------------
(* Records picked from others                                              *)

\* The numbers of I up to k.
UpTo(I, k) == {i \in 1 .. k : i \in I}

\* What is picked, place by place.
PickNext(w, seq, I, k) == IF k \in I THEN Append(w, seq[k]) ELSE w

Picking(f, seq, I) ==
  f[0] = <<>> /\ \A k \in 1 .. Len(seq) : f[k] = PickNext(f[k - 1], seq, I, k)

\* The loop runs over any sequence, and what is picked is what it has in the end.
LEMMA PickingRuns ==
  ASSUME NEW seq, Len(seq) \in Nat, NEW I
  PROVE  \E f : Picking(f, seq, I) /\ Picked(seq, I) = f[Len(seq)]
<1> DEFINE N == Len(seq)
           b == <<>>
           Value(f, k) == IF k = 0 THEN b ELSE PickNext(f[k - 1], seq, I, k)
           Upto(f, m) == f = [k \in 0 .. m |-> Value(f, k)]
           S == {m \in 0 .. N : \E f : Upto(f, m)}
           g == CHOOSE f : Upto(f, N)
<1>1. Picked(seq, I) = g[N]
  BY DEF Picked, PickNext
<1> HIDE DEF N, b
<1>2. N \in Nat
  BY DEF N
<1>3. 0 \in S
  <2>1. Upto([k \in 0 .. 0 |-> b], 0)
    OBVIOUS
  <2> HIDE DEF Upto
  <2> QED BY <1>2, <2>1
<1>4. ASSUME NEW m \in 0 .. N - 1, m \in S PROVE m + 1 \in S
  <2>1. PICK f : Upto(f, m)
    BY <1>4
  <2>2. m \in Nat /\ DOMAIN f = 0 .. m
    BY <1>2, <2>1
  <2> DEFINE last == PickNext(f[m], seq, I, m + 1)
             h == [k \in 0 .. m + 1 |-> IF k = m + 1 THEN last ELSE f[k]]
  <2>3. \A k \in 0 .. m : h[k] = f[k]
    BY <2>2
  <2>4. h[m + 1] = last
    BY <2>2
  <2>5. ASSUME NEW k \in 0 .. m + 1 PROVE h[k] = Value(h, k)
    <3>1. CASE k = 0
      <4>1. f[0] = b
        BY <2>1, <2>2
      <4> QED BY <2>2, <2>3, <3>1, <4>1
    <3>2. CASE k \in 1 .. m
      <4>1. h[k] = f[k] /\ h[k - 1] = f[k - 1]
        BY <2>2, <2>3, <3>2
      <4>2. f[k] = PickNext(f[k - 1], seq, I, k)
        BY <2>1, <2>2, <3>2
      <4> HIDE DEF h
      <4> QED BY <2>2, <3>2, <4>1, <4>2
    <3>3. CASE k = m + 1
      <4>1. h[m] = f[m] /\ k - 1 = m /\ k # 0
        BY <2>2, <2>3, <3>3
      <4> HIDE DEF h
      <4> QED BY <2>4, <3>3, <4>1
    <3> QED BY <2>2, <3>1, <3>2, <3>3
  <2>6. Upto(h, m + 1)
    <3>1. h = [k \in 0 .. m + 1 |-> h[k]]
      OBVIOUS
    <3> HIDE DEF h, Value
    <3> QED BY <2>5, <3>1
  <2> HIDE DEF Upto, h
  <2> QED BY <1>2, <2>2, <2>6
<1>5. N \in S
  <2> HIDE DEF S
  <2>1. \A m \in 0 .. N : m \in S
    BY <1>2, <1>3, <1>4, Induct
  <2> QED BY <1>2, <2>1
<1>6. Upto(g, N)
  <2> HIDE DEF Upto
  <2> QED BY <1>5
<1>7. g[0] = b /\ \A k \in 1 .. N : g[k] = PickNext(g[k - 1], seq, I, k)
  <2> HIDE DEF g
  <2> QED BY <1>2, <1>6
<1> HIDE DEF g
<1> QED BY <1>1, <1>7 DEF Picking, N, b

\* One element more.
LEMMA Appended ==
  ASSUME NEW S, NEW w \in Seq(S), NEW x \in S
  PROVE  /\ Append(w, x) \in Seq(S) /\ Len(Append(w, x)) = Len(w) + 1 /\ Len(w) \in Nat
         /\ \A i \in 1 .. Len(w) : Append(w, x)[i] = w[i]
         /\ Append(w, x)[Len(w) + 1] = x
OBVIOUS

\* w has what seq has at the numbers e lists.
Picks(w, seq, e, m) == Len(w) = m /\ \A r \in 1 .. m : w[r] = seq[e[r]]

\* The elements picked are those at the numbers of I, in their order.
LEMMA PickedIs ==
  ASSUME NEW S, NEW seq \in Seq(S), NEW I
  PROVE  /\ Picked(seq, I) \in Seq(S)
         /\ \E m, e : Enumerates(e, m, UpTo(I, Len(seq))) /\ Picks(Picked(seq, I), seq, e, m)
<1> DEFINE N == Len(seq)
<1>1. PICK f : Picking(f, seq, I) /\ Picked(seq, I) = f[N]
  BY PickingRuns
<1> DEFINE Q(k) == \E m, e : Enumerates(e, m, UpTo(I, k)) /\ Picks(f[k], seq, e, m)
           T == {k \in 0 .. N : f[k] \in Seq(S) /\ Q(k)}
<1>2. N \in Nat /\ \A k \in 1 .. N : seq[k] \in S
  OBVIOUS
<1>3. 0 \in T
  <2>1. f[0] = <<>> /\ f[0] \in Seq(S) /\ Len(f[0]) = 0
    BY <1>1 DEF Picking
  <2>2. UpTo(I, 0) = {}
    BY DEF UpTo
  <2>3. Enumerates([i \in {} |-> 0], 0, UpTo(I, 0))
    BY <2>2 DEF Enumerates
  <2>4. Picks(f[0], seq, [i \in {} |-> 0], 0)
    BY <2>1 DEF Picks
  <2>5. Q(0)
    BY <2>3, <2>4
  <2>6. 0 \in 0 .. N
    BY <1>2
  <2> HIDE DEF Q, N
  <2> QED BY <2>1, <2>5, <2>6, Zenon
<1>4. ASSUME NEW k \in 0 .. N - 1, k \in T PROVE k + 1 \in T
  <2>1. PICK m, e : Enumerates(e, m, UpTo(I, k)) /\ Picks(f[k], seq, e, m)
    BY <1>4
  <2>2. f[k] \in Seq(S) /\ k \in Nat /\ k + 1 \in 1 .. N
    BY <1>2, <1>4
  <2>3. f[k + 1] = IF k + 1 \in I THEN Append(f[k], seq[k + 1]) ELSE f[k]
    <3>1. k + 1 - 1 = k
      BY <2>2
    <3>2. f[k + 1] = PickNext(f[k], seq, I, k + 1)
      BY <1>1, <2>2, <3>1 DEF Picking
    <3> QED BY <3>2 DEF PickNext
  <2>4. CASE k + 1 \in I
    <3> DEFINE d == [i \in 1 .. m + 1 |-> IF i = m + 1 THEN k + 1 ELSE e[i]]
    <3>1. UpTo(I, k) \in SUBSET (1 .. k) /\ UpTo(I, k + 1) = UpTo(I, k) \cup {k + 1}
      BY <2>2, <2>4 DEF UpTo
    <3>2. Enumerates(d, m + 1, UpTo(I, k + 1))
      BY <2>1, <2>2, <3>1, EnumeratesMore
    <3>3. PICK w \in Seq(S) : w = f[k]
      BY <2>2
    <3>4. PICK x \in S : x = seq[k + 1]
      BY <1>2, <2>2
    <3>5. /\ Append(w, x) \in Seq(S) /\ Len(Append(w, x)) = Len(w) + 1 /\ Len(w) \in Nat
          /\ \A i \in 1 .. Len(w) : Append(w, x)[i] = w[i]
          /\ Append(w, x)[Len(w) + 1] = x
      BY Appended
    <3>6. f[k + 1] = Append(w, x) /\ Len(w) = m /\ m \in Nat /\ \A r \in 1 .. m : w[r] = seq[e[r]]
      BY <2>1, <2>3, <2>4, <3>3, <3>4, <3>5 DEF Picks
    <3>7. Picks(f[k + 1], seq, d, m + 1)
      <4>1. d[m + 1] = k + 1 /\ \A r \in 1 .. m : d[r] = e[r]
        BY <3>6
      <4> HIDE DEF d
      <4>2. \A r \in 1 .. m + 1 : r \in 1 .. m \/ r = m + 1
        BY <3>6
      <4> QED BY <3>4, <3>5, <3>6, <4>1, <4>2 DEF Picks
    <3>8. f[k + 1] \in Seq(S)
      BY <3>5, <3>6
    <3> HIDE DEF d
    <3> QED BY <1>2, <2>2, <3>2, <3>7, <3>8
  <2>5. CASE k + 1 \notin I
    <3>1. UpTo(I, k + 1) = UpTo(I, k)
      BY <2>2, <2>5 DEF UpTo
    <3> QED BY <1>2, <2>1, <2>2, <2>3, <2>5, <3>1
  <2> QED BY <2>4, <2>5
<1> HIDE DEF T
<1>5. \A k \in 0 .. N : k \in T
  BY <1>2, <1>3, <1>4, Induct
<1>6. N \in T
  BY <1>2, <1>5
<1> QED BY <1>1, <1>6 DEF T

\* Elements picked at numbers that are known.
LEMMA PickedAt ==
  ASSUME NEW S, NEW seq \in Seq(S), NEW I, NEW m, NEW e, Enumerates(e, m, UpTo(I, Len(seq)))
  PROVE  Picked(seq, I) \in Seq(S) /\ Picks(Picked(seq, I), seq, e, m)
<1> DEFINE J == UpTo(I, Len(seq))
<1>1. Picked(seq, I) \in Seq(S)
  BY PickedIs
<1>2. PICK n, f : Enumerates(f, n, J) /\ Picks(Picked(seq, I), seq, f, n)
  BY PickedIs
<1>3. J \in SUBSET Nat
  BY DEF UpTo
<1> HIDE DEF J
<1>4. n = m /\ \A r \in 1 .. n : e[r] = f[r]
  BY <1>2, <1>3, EnumeratesOnce DEF J
<1> QED BY <1>1, <1>2, <1>4 DEF Picks

\* A picked element is one at a number of I; where I is not empty there is a last one.
LEMMA PickedSome ==
  ASSUME NEW S, NEW seq \in Seq(S), NEW I
  PROVE  LET w == Picked(seq, I) IN
         /\ w \in Seq(S) /\ \A r \in 1 .. Len(w) : \E i \in UpTo(I, Len(seq)) : w[r] = seq[i]
         /\ \A i \in UpTo(I, Len(seq)) : \E r \in 1 .. Len(w) : w[r] = seq[i]
<1> DEFINE J == UpTo(I, Len(seq))
           w == Picked(seq, I)
<1>1. PICK m, e : w \in Seq(S) /\ Enumerates(e, m, J) /\ Picks(w, seq, e, m)
  BY PickedIs
<1> HIDE DEF J, w
<1>2. \A r \in 1 .. Len(w) : \E i \in J : w[r] = seq[i]
  BY <1>1 DEF Enumerates, Picks
<1>3. \A i \in J : \E r \in 1 .. Len(w) : w[r] = seq[i]
  <2> SUFFICES ASSUME NEW i \in J PROVE \E r \in 1 .. Len(w) : w[r] = seq[i]
    OBVIOUS
  <2>1. PICK r \in 1 .. m : e[r] = i
    BY <1>1 DEF Enumerates
  <2> QED BY <1>1, <2>1 DEF Picks
<1> QED BY <1>1, <1>2, <1>3 DEF J, w

\* A run of numbers.
LEMMA EnumeratesRun ==
  ASSUME NEW a \in Int, NEW m \in Nat, NEW I, I = {i \in Int : a + 1 <= i /\ i <= a + m}
  PROVE  Enumerates([r \in 1 .. m |-> a + r], m, I)
<1> DEFINE e == [r \in 1 .. m |-> a + r]
<1>1. e \in [1 .. m -> I]
  OBVIOUS
<1>2. \A i, j \in 1 .. m : i < j => e[i] < e[j]
  OBVIOUS
<1>3. ASSUME NEW x \in I PROVE \E i \in 1 .. m : e[i] = x
  <2>1. x - a \in 1 .. m /\ e[x - a] = x
    OBVIOUS
  <2> QED BY <2>1
<1> HIDE DEF e
<1> QED BY <1>1, <1>2, <1>3 DEF Enumerates, e

\* A run of elements picked.
LEMMA PickedRun ==
  ASSUME NEW S, NEW seq \in Seq(S), NEW I, NEW a \in Int, NEW m \in Nat,
         \A i \in 1 .. Len(seq) : i \in I <=> a + 1 <= i /\ i <= a + m, 0 <= a, a + m <= Len(seq)
  PROVE  Picked(seq, I) = [r \in 1 .. m |-> seq[a + r]]
<1> DEFINE J == UpTo(I, Len(seq))
           e == [r \in 1 .. m |-> a + r]
           w == Picked(seq, I)
<1>1. J = {i \in Int : a + 1 <= i /\ i <= a + m}
  BY DEF UpTo
<1> HIDE DEF J
<1>2. Enumerates(e, m, J)
  BY <1>1, EnumeratesRun
<1>3. w \in Seq(S) /\ Picks(w, seq, e, m)
  <2> HIDE DEF e, w
  <2> QED BY <1>2, PickedAt DEF w, J
<1>4. \A r \in 1 .. m : w[r] = seq[a + r]
  BY <1>3 DEF Picks
<1>5. w = [r \in 1 .. Len(w) |-> w[r]] /\ Len(w) = m
  <2> HIDE DEF w
  <2> QED BY <1>3 DEF Picks
<1> HIDE DEF w
<1> QED BY <1>4, <1>5 DEF w
-----------------------------------------------------------------------------
(* Where the records of an event have what the counts are made of          *)

\* The kinds that neither end a session, begin an event nor count its sources.
Others == Plain \cup {"heap_layout", "heap_scan", "tcache_comparison"}

\* What the others are not.
LEMMA OthersApart ==
  /\ Others \subseteq Kinds /\ "event" \notin Others /\ "session_end" \notin Others
  /\ "session_start" \notin Others /\ "allocator_source_summary" \notin Others
  /\ "allocator_source_delta" \notin Others
  /\ Others \cap Ends = {} /\ Plain \subseteq Others
BY PlainKinds DEF Others, Plain, Ends

\* The records x and y, one after the other at p, amid others of the event.
AmidAt(s, id, x, y, p) ==
  /\ s \in Seq(ToSet(s)) /\ p \in 1 .. Len(s) - 1 /\ s[p] = x /\ s[p + 1] = y
  /\ \A i \in 1 .. Len(s) : i # p /\ i # p + 1 => s[i].kind \in Others /\ s[i].event = id
Amid(s, id, x, y) == \E p : AmidAt(s, id, x, y, p)

\* They are amid nothing else,
LEMMA AmidTwo ==
  ASSUME NEW id, NEW x, NEW y
  PROVE  Amid(<<x>> \o <<y>>, id, x, y)
<1> DEFINE S == {x, y}
           s == <<x, y>>
<1>1. s \in Seq(S) /\ Len(s) = 2 /\ s[1] = x /\ s[2] = y
  OBVIOUS
<1>2. s \in Seq(ToSet(s))
  <2>1. \A i \in 1 .. 2 : s[i] \in ToSet(s)
    BY <1>1 DEF ToSet
  <2> HIDE DEF s
  <2> QED BY <1>1, <2>1
<1> HIDE DEF s
<1>3. \A i \in 1 .. 2 : i = 1 \/ i = 2
  OBVIOUS
<1>4. AmidAt(s, id, x, y, 1)
  BY <1>1, <1>2, <1>3 DEF AmidAt
<1> QED BY <1>4, TwoTuples DEF Amid, s

\* after others,
LEMMA AmidAfter ==
  ASSUME NEW id, NEW x, NEW y, NEW s, NEW t, Amid(s, id, x, y), Telling(t, Others, id)
  PROVE  Amid(t \o s, id, x, y)
<1>1. PICK p : AmidAt(s, id, x, y, p)
  BY DEF Amid
<1> DEFINE S == ToSet(s) \cup ToSet(t)
           z == t \o s
<1>2. s \in Seq(S) /\ t \in Seq(S) /\ Len(s) \in Nat /\ Len(t) \in Nat
  BY <1>1 DEF AmidAt, Telling
<1> HIDE DEF S
<1>3. /\ z \in Seq(S) /\ Len(z) = Len(t) + Len(s)
      /\ \A i \in 1 .. Len(t) + Len(s) : z[i] = IF i <= Len(t) THEN t[i] ELSE s[i - Len(t)]
  BY <1>2, Concatenated
<1> HIDE DEF z
<1>4. z \in Seq(ToSet(z))
  <2>1. z \in Seq(S) /\ ToSet(z) = ToSet(s) \cup ToSet(t)
    BY <1>2, Joined DEF z
  <2> QED BY <2>1 DEF S
<1>5. p \in 1 .. Len(s) - 1 /\ p + Len(t) \in 1 .. Len(z) - 1
  BY <1>1, <1>2, <1>3 DEF AmidAt
<1>6. z[p + Len(t)] = x /\ z[p + Len(t) + 1] = y
  <2>1. /\ p + Len(t) \in 1 .. Len(t) + Len(s) /\ ~(p + Len(t) <= Len(t)) /\ p + Len(t) - Len(t) = p
        /\ p + Len(t) + 1 \in 1 .. Len(t) + Len(s) /\ ~(p + Len(t) + 1 <= Len(t))
        /\ p + Len(t) + 1 - Len(t) = p + 1
    BY <1>2, <1>3, <1>5
  <2> QED BY <1>1, <1>3, <2>1 DEF AmidAt
<1>7. ASSUME NEW i \in 1 .. Len(z), i # p + Len(t), i # p + Len(t) + 1
      PROVE  z[i].kind \in Others /\ z[i].event = id
  <2>1. CASE i <= Len(t)
    <3>1. z[i] = t[i] /\ i \in DOMAIN t
      BY <1>2, <1>3, <2>1
    <3> QED BY <3>1 DEF Telling, ToSet
  <2>2. CASE ~(i <= Len(t))
    <3>1. z[i] = s[i - Len(t)]
      BY <1>3, <2>2
    <3>2. i - Len(t) \in 1 .. Len(s) /\ i - Len(t) # p /\ i - Len(t) # p + 1
      BY <1>2, <1>3, <1>5, <1>7, <2>2
    <3> QED BY <1>1, <3>1, <3>2 DEF AmidAt
  <2> QED BY <2>1, <2>2
<1>8. AmidAt(z, id, x, y, p + Len(t))
  BY <1>4, <1>5, <1>6, <1>7 DEF AmidAt
<1> QED BY <1>8 DEF Amid, z

\* and before others.
LEMMA AmidBefore ==
  ASSUME NEW id, NEW x, NEW y, NEW s, NEW t, Amid(s, id, x, y), Telling(t, Others, id)
  PROVE  Amid(s \o t, id, x, y)
<1>1. PICK p : AmidAt(s, id, x, y, p)
  BY DEF Amid
<1> DEFINE S == ToSet(s) \cup ToSet(t)
           z == s \o t
<1>2. s \in Seq(S) /\ t \in Seq(S) /\ Len(s) \in Nat /\ Len(t) \in Nat
  BY <1>1 DEF AmidAt, Telling
<1> HIDE DEF S
<1>3. /\ z \in Seq(S) /\ Len(z) = Len(s) + Len(t)
      /\ \A i \in 1 .. Len(s) + Len(t) : z[i] = IF i <= Len(s) THEN s[i] ELSE t[i - Len(s)]
  BY <1>2, Concatenated
<1> HIDE DEF z
<1>4. z \in Seq(ToSet(z))
  <2>1. z \in Seq(S) /\ ToSet(z) = ToSet(s) \cup ToSet(t)
    BY <1>2, Joined DEF z
  <2> QED BY <2>1 DEF S
<1>5. p \in 1 .. Len(s) - 1 /\ p \in 1 .. Len(z) - 1
  BY <1>1, <1>2, <1>3 DEF AmidAt
<1>6. z[p] = x /\ z[p + 1] = y
  <2>1. /\ p \in 1 .. Len(s) + Len(t) /\ p <= Len(s)
        /\ p + 1 \in 1 .. Len(s) + Len(t) /\ p + 1 <= Len(s)
    BY <1>2, <1>3, <1>5
  <2> QED BY <1>1, <1>3, <2>1 DEF AmidAt
<1>7. ASSUME NEW i \in 1 .. Len(z), i # p, i # p + 1
      PROVE  z[i].kind \in Others /\ z[i].event = id
  <2>1. CASE i <= Len(s)
    <3>1. z[i] = s[i] /\ i \in 1 .. Len(s)
      BY <1>2, <1>3, <2>1
    <3> QED BY <1>1, <1>7, <3>1 DEF AmidAt
  <2>2. CASE ~(i <= Len(s))
    <3>1. z[i] = t[i - Len(s)] /\ i - Len(s) \in DOMAIN t
      BY <1>2, <1>3, <2>2
    <3> QED BY <3>1 DEF Telling, ToSet
  <2> QED BY <2>1, <2>2
<1>8. AmidAt(z, id, x, y, p)
  BY <1>4, <1>5, <1>6, <1>7 DEF AmidAt
<1> QED BY <1>8 DEF Amid, z

\* An event's sources are summed up once and set against the summary before, where
\* they are told of at all.
LEMMA RelatedAmid ==
  ASSUME NEW id, NEW h, NEW t, NEW o, NEW end, NEW walk, NEW now, NEW k, NEW report, NEW sum
  PROVE  LET rel == Related(id, h, t, o, end, walk, now, k, report, sum) IN
         /\ WarningsOn => Amid(rel, id, Record("allocator_source_summary", id, sum),
                               Record("allocator_source_delta", id, Diff(summary, sum)))
         /\ ~WarningsOn => Telling(rel, Others, id)
<1> DEFINE x == Record("allocator_source_summary", id, sum)
           y == Record("allocator_source_delta", id, Diff(summary, sum))
           T(s) == Telling(s, Others, id)
           A(s) == Amid(s, id, x, y)
           chunks == "chunks" \in config.texts
           top == TopRecords(id, h, walk)
           arena == ArenaRecords(id, top)
           experiment == ExperimentRecords(id, "arena_experiment", "main_arena_experiment", walk,
                                           MainArenaExperiment(h, walk))
           CR == ChunkRecords(id, h, t, walk, now, k)
           LR == LayoutRecords(id, t, o, walk, k)
           WR == WarningRecords(id, t, o, k, sum)
           SR == ScanRecords(id, report)
           TR == StructRecords(id, h, t, o, end, walk)
           shown == If(chunks, CR \o LR) \o WR \o SR \o If(chunks, TR)
           rest == If(config.texts # {}, shown)
           rel == Related(id, h, t, o, end, walk, now, k, report, sum)
<1>0. Plain \subseteq Others /\ \A kind \in {"heap_layout", "heap_scan", "tcache_comparison"} : kind \in Others
  BY DEF Others
<1>1. rel = top \o arena \o experiment \o rest
  BY DEF Related
<1>2. T(top) /\ T(arena) /\ T(experiment) /\ T(CR)
  <2>1. Telling(top, Plain, id) /\ Telling(arena, Plain, id)
    BY ArenaPlain
  <2>2. Telling(experiment, Plain, id)
    <3>1. "main_arena_experiment" \in Plain
      BY PlainKinds DEF ArenaKinds
    <3> QED BY <3>1, ExperimentPlain
  <2>3. Telling(CR, Plain, id)
    BY ChunksPlain
  <2> HIDE DEF top, arena, experiment, CR
  <2> QED BY <1>0, <2>1, <2>2, <2>3, TellingMore
<1>3. T(LR)
  <2> DEFINE layout == HeapLayout(id, walk, t, Seen(o), k, config.stored["--max-layout-chunks"])
             p == "layout" \in config.texts /\ walk # None
             q == Shows("tcache")
             u == <<layout>>
             v == <<ObservedTcacheChains(id, o)>>
  <2>1. LR = If(p, u) \o If(q, v) /\ p \in BOOLEAN /\ q \in BOOLEAN
    BY DEF LayoutRecords, Shows
  <2>2. T(u)
    <3>1. PICK body : layout = Record("heap_layout", id, body)
      BY DEF HeapLayout
    <3> QED BY <1>0, <3>1, TellingOne
  <2>3. T(v)
    <3>1. "observed_tcache_chains" \in Others
      BY <1>0, PlainKinds
    <3> QED BY <3>1, TellingOne DEF ObservedTcacheChains
  <2> HIDE DEF p, q, u, v, LR
  <2>4. T(If(p, u)) /\ T(If(q, v))
    BY <2>1, <2>2, <2>3, TellingIf
  <2> QED BY <2>1, <2>4, TellingBoth
<1>4. (WarningsOn => A(WR)) /\ (~WarningsOn => T(WR))
  <2> DEFINE warnings == Warnings(Seen(o), k, t)
             w == <<Record("allocator_warnings", id, warnings)>>
             d == IF warnings = {} THEN <<>> ELSE w
  <2>1. WR = If(WarningsOn, (<<x>> \o <<y>>) \o d)
    <3>1. WR = If(WarningsOn, <<x, y>> \o d)
      BY DEF WarningRecords, SourceRecords
    <3> QED BY <3>1, TwoTuples
  <2>2. T(w) /\ T(<<>>)
    <3>1. "allocator_warnings" \in Others
      BY <1>0, PlainKinds
    <3> QED BY <3>1, TellingOne, TellingNothing
  <2>3. T(d)
    BY <2>2
  <2> HIDE DEF d, w, x, y, WR
  <2>4. A((<<x>> \o <<y>>) \o d)
    <3>1. A(<<x>> \o <<y>>)
      BY AmidTwo
    <3> QED BY <2>3, <3>1, AmidBefore
  <2> QED BY <2>1, <2>2, <2>4 DEF If
<1>5. T(SR)
  <2> DEFINE p == report # None
             u == <<ScanRecord(id, report)>>
  <2>1. SR = If(p, u) /\ p \in BOOLEAN
    BY DEF ScanRecords
  <2>2. T(u)
    BY <1>0, TellingOne DEF ScanRecord
  <2> HIDE DEF p, u, SR
  <2> QED BY <2>1, <2>2, TellingIf
<1>6. T(TR)
  <2> DEFINE bin == StructBin(h)
             p == Shows("tcache_struct") /\ walk # None
             q == Once({"tcache_struct_candidate"})
             r == Shows("tcache")
             u == <<TcacheStruct(id, bin)>>
             v == <<TcacheComparison(id, bin, o)>>
             w == <<TcacheValidation(id, bin, o, t, end)>>
  <2>1. /\ TR = If(p, If(q, u) \o If(r, v \o w))
        /\ p \in BOOLEAN /\ q \in BOOLEAN /\ r \in BOOLEAN
    <3>1. TR = If(p, If(q, u) \o If(r, <<TcacheComparison(id, bin, o), TcacheValidation(id, bin, o, t, end)>>))
      BY DEF StructRecords
    <3>2. p \in BOOLEAN /\ q \in BOOLEAN /\ r \in BOOLEAN
      BY DEF Shows, Once
    <3> QED BY <3>1, <3>2, TwoTuples
  <2>2. T(u) /\ T(v) /\ T(w)
    <3>1. /\ "tcache_struct_candidate" \in Others /\ "tcache_validation" \in Others
          /\ "tcache_comparison" \in Others
      BY <1>0, PlainKinds
    <3> QED BY <3>1, TellingOne DEF TcacheStruct, TcacheComparison, TcacheValidation
  <2> HIDE DEF p, q, r, u, v, w, TR
  <2>3. T(If(q, u)) /\ T(If(r, v \o w))
    BY <2>1, <2>2, TellingBoth, TellingIf
  <2>4. T(If(q, u) \o If(r, v \o w))
    BY <2>3, TellingBoth
  <2> QED BY <2>1, <2>4, TellingIf
<1>7. chunks \in BOOLEAN /\ (WarningsOn => config.texts # {})
  BY DEF WarningsOn
<1> HIDE DEF x, y, chunks, top, arena, experiment, CR, LR, WR, SR, TR, rel
<1>8. T(If(chunks, CR \o LR)) /\ T(If(chunks, TR)) /\ T(top \o arena \o experiment)
  <2>1. T(CR \o LR) /\ T(top \o arena)
    BY <1>2, <1>3, TellingBoth
  <2> QED BY <1>2, <1>6, <1>7, <2>1, TellingBoth, TellingIf
<1>9. CASE WarningsOn
  <2>1. A(If(chunks, CR \o LR) \o WR)
    BY <1>4, <1>8, <1>9, AmidAfter
  <2>2. A(If(chunks, CR \o LR) \o WR \o SR)
    BY <1>5, <2>1, AmidBefore
  <2>3. A(shown)
    BY <1>8, <2>2, AmidBefore
  <2> HIDE DEF shown
  <2>4. A(rest)
    BY <1>7, <1>9, <2>3 DEF If
  <2> HIDE DEF rest
  <2>5. A(rel)
    BY <1>1, <1>8, <2>4, AmidAfter
  <2> QED BY <1>9, <2>5 DEF x, y, rel
<1>10. CASE ~WarningsOn
  <2>1. T(If(chunks, CR \o LR) \o WR)
    BY <1>4, <1>8, <1>10, TellingBoth
  <2>2. T(If(chunks, CR \o LR) \o WR \o SR)
    BY <1>5, <2>1, TellingBoth
  <2>3. T(shown)
    BY <1>8, <2>2, TellingBoth
  <2> HIDE DEF shown
  <2>4. T(rest)
    BY <2>3, TellingIf
  <2> HIDE DEF rest
  <2>5. T(rel)
    BY <1>1, <1>8, <2>4, TellingBoth
  <2> QED BY <1>10, <2>5 DEF rel
<1> QED BY <1>9, <1>10
-----------------------------------------------------------------------------
(* A trace, event by event                                                 *)

\* The records of F, the start of the session and what was told of n events: the k-th
\* begins at pos[k] and ends before pos[k + 1].
Paged(F, n, pos) ==
  /\ n \in Nat /\ pos \in [0 .. n + 1 -> Nat] /\ pos[0] = 0 /\ pos[1] = 2
  /\ \A i, j \in 0 .. n + 1 : i < j => pos[i] < pos[j]
  /\ F \in Seq(ToSet(F)) /\ Len(F) = pos[n + 1] - 1 /\ F[1].kind = "session_start"
  /\ \A k \in 0 .. n : \A i \in pos[k] .. pos[k + 1] - 1 : i # 0 =>
       /\ F[i].kind \in Ends <=> i = 1
       /\ F[i].kind = "event" <=> i = pos[k]
       /\ F[i].event = IF k = 0 THEN None ELSE k

\* The k-th event's sources are summed up as sum[k] at at[k], and set against the
\* summary before right after, unless the trace ends before.
Summed(F, n, pos, at, sum) ==
  /\ at \in [1 .. n -> Nat] /\ sum \in [0 .. n -> [Counts -> Nat]]
  /\ \A c \in Counts : sum[0][c] = 0
  /\ \A k \in 1 .. n : pos[k] < at[k] /\ (k < n => at[k] + 1 < pos[k + 1])
  /\ \A k \in 1 .. n : \A i \in pos[k] .. pos[k + 1] - 1 :
       /\ F[i].kind = "allocator_source_summary" <=> i = at[k]
       /\ F[i].kind = "allocator_source_delta" <=> i = at[k] + 1
       /\ i = at[k] => F[i].body = sum[k]
       /\ i = at[k] + 1 => \A c \in Counts : F[i].body[c] = sum[k][c] - sum[k - 1][c]

\* No sources are told of.
Unsummed(F) ==
  \A i \in DOMAIN F : F[i].kind \notin {"allocator_source_summary", "allocator_source_delta"}

\* G is F, followed by x and by r.
Grown(G, F, x, r) ==
  /\ G \in Seq(ToSet(G)) /\ Len(F) \in Nat /\ Len(r) \in Nat /\ Len(G) = Len(F) + 1 + Len(r)
  /\ \A i \in 1 .. Len(F) : G[i] = F[i]
  /\ G[Len(F) + 1] = x
  /\ \A i \in 1 .. Len(r) : G[Len(F) + 1 + i] = r[i]

\* So is what is put together so.
LEMMA GrownMade ==
  ASSUME NEW F, F \in Seq(ToSet(F)), NEW x, NEW r, r \in Seq(ToSet(r))
  PROVE  Grown(F \o (<<x>> \o r), F, x, r)
<1> DEFINE S == ToSet(F) \cup {x} \cup ToSet(r)
           o == <<x>>
           v == o \o r
           G == F \o v
<1>1. F \in Seq(S) /\ o \in Seq(S) /\ r \in Seq(S) /\ Len(o) = 1 /\ o[1] = x
  OBVIOUS
<1>2. Len(F) \in Nat /\ Len(r) \in Nat /\ DOMAIN F = 1 .. Len(F)
  OBVIOUS
<1> HIDE DEF S, o
<1>3. /\ v \in Seq(S) /\ Len(v) = 1 + Len(r)
      /\ \A i \in 1 .. 1 + Len(r) : v[i] = IF i <= 1 THEN o[i] ELSE r[i - 1]
  <2>1. /\ v \in Seq(S) /\ Len(v) = Len(o) + Len(r)
        /\ \A i \in 1 .. Len(o) + Len(r) : v[i] = IF i <= Len(o) THEN o[i] ELSE r[i - Len(o)]
    BY <1>1, Concatenated
  <2> HIDE DEF v
  <2> QED BY <1>1, <2>1
<1> HIDE DEF v
<1>4. /\ G \in Seq(S) /\ Len(G) = Len(F) + Len(v)
      /\ \A i \in 1 .. Len(F) + Len(v) : G[i] = IF i <= Len(F) THEN F[i] ELSE v[i - Len(F)]
  BY <1>1, <1>3, Concatenated
<1>5. G \in Seq(ToSet(G))
  <2>1. ToSet(G) = ToSet(F) \cup ToSet(v)
    BY <1>1, <1>3, Joined
  <2>2. v \in Seq(ToSet(v))
    <3>1. ToSet(v) = ToSet(o) \cup ToSet(r)
      BY <1>1, Joined DEF v
    <3>2. o \in Seq(ToSet(v)) /\ r \in Seq(ToSet(v))
      <4>1. o \in Seq(ToSet(o))
        BY DEF o, ToSet
      <4> HIDE DEF o
      <4> QED BY <3>1, <4>1
    <3> QED BY <3>2, Joined DEF v
  <2>3. F \in Seq(ToSet(F) \cup ToSet(v)) /\ v \in Seq(ToSet(F) \cup ToSet(v))
    BY <2>2
  <2> QED BY <2>1, <2>3, Joined
<1> HIDE DEF G
<1>6. \A i \in 1 .. Len(F) : G[i] = F[i]
  BY <1>2, <1>3, <1>4
<1>7. G[Len(F) + 1] = x
  <2>1. ~(Len(F) + 1 <= Len(F)) /\ Len(F) + 1 - Len(F) = 1 /\ Len(F) + 1 \in 1 .. Len(F) + Len(v)
    BY <1>2, <1>3
  <2> QED BY <1>1, <1>2, <1>3, <1>4, <2>1
<1>8. ASSUME NEW i \in 1 .. Len(r) PROVE G[Len(F) + 1 + i] = r[i]
  <2>1. /\ ~(Len(F) + 1 + i <= Len(F)) /\ Len(F) + 1 + i - Len(F) = i + 1
        /\ Len(F) + 1 + i \in 1 .. Len(F) + Len(v) /\ i + 1 \in 1 .. 1 + Len(r) /\ ~(i + 1 <= 1)
        /\ i + 1 - 1 = i
    BY <1>2, <1>3
  <2> QED BY <1>3, <1>4, <2>1, SMTT(20)
<1>9. Len(G) = Len(F) + 1 + Len(r)
  BY <1>2, <1>3, <1>4
<1> QED BY <1>2, <1>5, <1>6, <1>7, <1>8, <1>9 DEF Grown, G, v, o

\* One event more.
PosMore(pos, n, r) == [i \in 0 .. n + 2 |-> IF i = n + 2 THEN pos[n + 1] + 1 + Len(r) ELSE pos[i]]

\* The places are those there were, and one more.
LEMMA PosMoreIs ==
  ASSUME NEW F, NEW n, NEW pos, Paged(F, n, pos), NEW G, NEW x, NEW r, Grown(G, F, x, r)
  PROVE  LET q == PosMore(pos, n, r) IN
         /\ q \in [0 .. n + 2 -> Nat] /\ q[n + 2] = pos[n + 1] + 1 + Len(r)
         /\ \A i \in 0 .. n + 1 : q[i] = pos[i] /\ pos[i] \in Nat
         /\ \A i, j \in 0 .. n + 2 : i < j => q[i] < q[j]
         /\ pos[n + 1] = Len(F) + 1 /\ Len(F) \in Nat \ {0}
         /\ \A k \in 0 .. n : pos[k] < pos[k + 1] /\ pos[k + 1] <= Len(F) + 1
<1> DEFINE q == PosMore(pos, n, r)
<1>1. /\ n \in Nat /\ pos[1] = 2 /\ pos \in [0 .. n + 1 -> Nat] /\ Len(F) = pos[n + 1] - 1
      /\ \A i, j \in 0 .. n + 1 : i < j => pos[i] < pos[j]
  BY DEF Paged
<1>2. Len(r) \in Nat
  BY DEF Grown
<1>3. \A i \in 0 .. n + 1 : pos[i] \in Nat /\ i \in 0 .. n + 2 /\ i # n + 2
  BY <1>1
<1>4. n + 2 \in 0 .. n + 2 /\ pos[n + 1] \in Nat
  BY <1>1
<1>5. q[n + 2] = pos[n + 1] + 1 + Len(r) /\ \A i \in 0 .. n + 1 : q[i] = pos[i]
  BY <1>3, <1>4 DEF PosMore
<1>6. q \in [0 .. n + 2 -> Nat]
  <2>1. \A i \in 0 .. n + 2 : i # n + 2 => i \in 0 .. n + 1
    BY <1>1
  <2> QED BY <1>2, <1>3, <1>4, <2>1 DEF PosMore
<1> HIDE DEF q
<1>7. \A i \in 0 .. n + 1 : pos[i] <= pos[n + 1]
  <2> SUFFICES ASSUME NEW i \in 0 .. n + 1 PROVE pos[i] <= pos[n + 1]
    OBVIOUS
  <2>1. CASE i = n + 1
    BY <1>4, <2>1
  <2>2. CASE i < n + 1
    <3>1. n + 1 \in 0 .. n + 1
      BY <1>1
    <3>2. pos[i] < pos[n + 1]
      BY <1>1, <2>2, <3>1
    <3> QED BY <1>3, <1>4, <3>2
  <2> QED BY <1>1, <2>1, <2>2
<1>8. \A i, j \in 0 .. n + 2 : i < j => q[i] < q[j]
  <2> SUFFICES ASSUME NEW i \in 0 .. n + 2, NEW j \in 0 .. n + 2, i < j PROVE q[i] < q[j]
    OBVIOUS
  <2>1. i \in 0 .. n + 1
    BY <1>1
  <2>2. CASE j = n + 2
    <3>1. pos[i] <= pos[n + 1] /\ pos[i] \in Nat
      BY <1>3, <1>7, <2>1
    <3> QED BY <1>2, <1>4, <1>5, <2>1, <2>2, <3>1
  <2>3. CASE j # n + 2
    <3>1. j \in 0 .. n + 1
      BY <1>1, <2>3
    <3> QED BY <1>1, <1>5, <2>1, <3>1
  <2> QED BY <2>2, <2>3
<1>9. pos[n + 1] = Len(F) + 1 /\ Len(F) \in Nat \ {0}
  <2>1. 1 \in 0 .. n + 1
    BY <1>1
  <2>2. 2 <= pos[n + 1]
    BY <1>1, <1>7, <2>1
  <2> QED BY <1>1, <1>4, <2>2
<1>10. ASSUME NEW k \in 0 .. n PROVE pos[k] < pos[k + 1] /\ pos[k + 1] <= Len(F) + 1
  <2>1. k \in 0 .. n + 1 /\ k + 1 \in 0 .. n + 1 /\ k < k + 1
    BY <1>1
  <2> QED BY <1>1, <1>7, <1>9, <2>1
<1> QED BY <1>3, <1>5, <1>6, <1>8, <1>9, <1>10 DEF q

\* The trace after one event more.
LEMMA PagedMore ==
  ASSUME NEW F, NEW n, NEW pos, Paged(F, n, pos), NEW G, NEW x, NEW r, Grown(G, F, x, r),
         x.kind = "event", x.event = n + 1,
         \A i \in 1 .. Len(r) : r[i].kind \notin Ends \cup {"event"} /\ r[i].event = n + 1
  PROVE  Paged(G, n + 1, PosMore(pos, n, r))
<1> DEFINE q == PosMore(pos, n, r)
<1>1. /\ q \in [0 .. n + 2 -> Nat] /\ q[n + 2] = pos[n + 1] + 1 + Len(r)
      /\ \A i \in 0 .. n + 1 : q[i] = pos[i] /\ pos[i] \in Nat
      /\ \A i, j \in 0 .. n + 2 : i < j => q[i] < q[j]
      /\ pos[n + 1] = Len(F) + 1 /\ Len(F) \in Nat \ {0}
      /\ \A k \in 0 .. n : pos[k] < pos[k + 1] /\ pos[k + 1] <= Len(F) + 1
  BY PosMoreIs
<1> HIDE DEF q
<1>2. n \in Nat /\ n + 1 + 1 = n + 2 /\ pos[0] = 0 /\ pos[1] = 2 /\ F[1].kind = "session_start"
  BY DEF Paged
<1>3. q[0] = 0 /\ q[1] = 2
  <2>1. 0 \in 0 .. n + 1 /\ 1 \in 0 .. n + 1
    BY <1>2
  <2> QED BY <1>1, <1>2, <2>1
<1>4. G \in Seq(ToSet(G)) /\ Len(G) = q[n + 2] - 1 /\ Len(r) \in Nat
  BY <1>1 DEF Grown
<1>5. G[1].kind = "session_start"
  BY <1>1, <1>2 DEF Grown
<1>6. ASSUME NEW k \in 0 .. n + 1, NEW i \in q[k] .. q[k + 1] - 1, i # 0
      PROVE  /\ G[i].kind \in Ends <=> i = 1
             /\ G[i].kind = "event" <=> i = q[k]
             /\ G[i].event = IF k = 0 THEN None ELSE k
  <2>1. CASE k \in 0 .. n
    <3>1. k \in 0 .. n + 1 /\ k + 1 \in 0 .. n + 1
      BY <1>2, <2>1
    <3>2. q[k] = pos[k] /\ q[k + 1] = pos[k + 1]
      BY <1>1, <3>1
    <3>3. pos[k] \in Nat /\ pos[k + 1] \in Nat /\ pos[k + 1] <= Len(F) + 1
      BY <1>1, <2>1, <3>1
    <3>4. i \in 1 .. Len(F)
      BY <1>1, <1>6, <3>2, <3>3
    <3>5. G[i] = F[i]
      BY <3>4 DEF Grown
    <3>6. i \in pos[k] .. pos[k + 1] - 1
      BY <3>2
    <3>7. /\ F[i].kind \in Ends <=> i = 1
          /\ F[i].kind = "event" <=> i = pos[k]
          /\ F[i].event = IF k = 0 THEN None ELSE k
      BY <1>6, <2>1, <3>6 DEF Paged
    <3> QED BY <3>2, <3>5, <3>7
  <2>2. CASE k = n + 1
    <3>1. n + 1 \in 0 .. n + 1
      BY <1>2
    <3>2. q[k] = Len(F) + 1 /\ q[k + 1] = Len(F) + 2 + Len(r)
      BY <1>1, <1>2, <1>4, <2>2, <3>1
    <3>3. CASE i = Len(F) + 1
      <4>1. G[i] = x
        BY <3>3 DEF Grown
      <4>2. "event" \notin Ends
        BY DEF Ends
      <4> QED BY <1>1, <1>2, <2>2, <3>2, <3>3, <4>1, <4>2
    <3>4. CASE i # Len(F) + 1
      <4>1. PICK j \in 1 .. Len(r) : i = Len(F) + 1 + j
        <5>1. i - Len(F) - 1 \in 1 .. Len(r) /\ i = Len(F) + 1 + (i - Len(F) - 1)
          BY <1>1, <1>4, <3>2, <3>4
        <5> QED BY <5>1
      <4>2. G[i] = r[j]
        BY <4>1 DEF Grown
      <4>3. G[i].kind \notin Ends \cup {"event"} /\ G[i].event = n + 1
        BY <4>2
      <4> QED BY <1>1, <1>2, <2>2, <3>2, <3>4, <4>1, <4>3
    <3> QED BY <3>3, <3>4
  <2> QED BY <1>2, <2>1, <2>2
<1>7. q \in [0 .. n + 1 + 1 -> Nat] /\ \A i, j \in 0 .. n + 1 + 1 : i < j => q[i] < q[j]
  BY <1>1, <1>2
<1>8. n + 1 \in Nat /\ Len(G) = q[n + 1 + 1] - 1
  BY <1>2, <1>4
<1> QED BY <1>3, <1>4, <1>5, <1>6, <1>7, <1>8 DEF Paged, q

\* Its sources, where they are told of.
LEMMA SummedMore ==
  ASSUME NEW F, NEW n, NEW pos, Paged(F, n, pos), NEW G, NEW x, NEW r, Grown(G, F, x, r),
         x.kind = "event", NEW at, NEW sum, Summed(F, n, pos, at, sum),
         n > 0 => at[n] + 1 < pos[n + 1], NEW s \in [Counts -> Nat], NEW d,
         \A c \in Counts : d[c] = s[c] - sum[n][c],
         Amid(r, n + 1, Record("allocator_source_summary", n + 1, s),
              Record("allocator_source_delta", n + 1, d))
  PROVE  \E at2, sum2 : /\ Summed(G, n + 1, PosMore(pos, n, r), at2, sum2)
                        /\ at2[n + 1] + 1 < PosMore(pos, n, r)[n + 2]
                        /\ sum2[n + 1] = s
<1> DEFINE q == PosMore(pos, n, r)
           sr == Record("allocator_source_summary", n + 1, s)
           dr == Record("allocator_source_delta", n + 1, d)
<1>0. PICK p : AmidAt(r, n + 1, sr, dr, p)
  BY DEF Amid
<1> DEFINE at2 == [k \in 1 .. n + 1 |-> IF k = n + 1 THEN pos[n + 1] + p ELSE at[k]]
           sum2 == [k \in 0 .. n + 1 |-> IF k = n + 1 THEN s ELSE sum[k]]
<1>1. /\ q \in [0 .. n + 2 -> Nat] /\ q[n + 2] = pos[n + 1] + 1 + Len(r)
      /\ \A i \in 0 .. n + 1 : q[i] = pos[i] /\ pos[i] \in Nat
      /\ pos[n + 1] = Len(F) + 1 /\ Len(F) \in Nat \ {0}
      /\ \A k \in 0 .. n : pos[k] < pos[k + 1] /\ pos[k + 1] <= Len(F) + 1
  BY PosMoreIs
<1> HIDE DEF q
<1>2. n \in Nat /\ n + 1 + 1 = n + 2
  BY DEF Paged
<1>3. /\ sr.kind = "allocator_source_summary" /\ sr.body = s
      /\ dr.kind = "allocator_source_delta" /\ dr.body = d
  BY DEF Record
<1> HIDE DEF sr, dr
<1>4. /\ at \in [1 .. n -> Nat] /\ sum \in [0 .. n -> [Counts -> Nat]]
      /\ \A k \in 1 .. n : pos[k] < at[k] /\ (k < n => at[k] + 1 < pos[k + 1])
  BY DEF Summed
<1>5. Len(r) \in Nat /\ p \in 1 .. Len(r) - 1
  BY <1>0 DEF AmidAt, Grown
<1>6. \A k \in 1 .. n : at2[k] = at[k] /\ at[k] \in Nat
  BY <1>2, <1>4
<1>7. \A k \in 0 .. n : sum2[k] = sum[k]
  BY <1>2, <1>4
<1>8. at2[n + 1] = pos[n + 1] + p /\ sum2[n + 1] = s /\ n + 1 \in 1 .. n + 1 /\ n + 1 \in 0 .. n + 1
  BY <1>2
<1>9. at2 \in [1 .. n + 1 -> Nat]
  <2>1. pos[n + 1] + p \in Nat
    BY <1>1, <1>5
  <2>2. \A k \in 1 .. n + 1 : k # n + 1 => k \in 1 .. n
    BY <1>2
  <2> QED BY <1>4, <2>1, <2>2
<1>10. sum2 \in [0 .. n + 1 -> [Counts -> Nat]]
  <2>1. \A k \in 0 .. n + 1 : k # n + 1 => k \in 0 .. n
    BY <1>2
  <2> QED BY <1>4, <2>1
<1> HIDE DEF at2, sum2
<1>11. \A c \in Counts : sum2[0][c] = 0
  <2>1. 0 \in 0 .. n
    BY <1>2
  <2> QED BY <1>7, <2>1 DEF Summed
<1>12. at2[n + 1] + 1 < q[n + 2]
  BY <1>1, <1>5, <1>8
<1>13. ASSUME NEW k \in 1 .. n + 1
       PROVE  q[k] < at2[k] /\ (k < n + 1 => at2[k] + 1 < q[k + 1])
  <2>1. CASE k = n + 1
    BY <1>1, <1>5, <1>8, <2>1
  <2>2. CASE k \in 1 .. n
    <3>1. k \in 0 .. n + 1 /\ k + 1 \in 0 .. n + 1
      BY <1>2, <2>2
    <3>2. q[k] = pos[k] /\ q[k + 1] = pos[k + 1] /\ at2[k] = at[k]
      BY <1>1, <1>6, <2>2, <3>1
    <3>3. k = n \/ k < n
      BY <1>2, <2>2
    <3>4. k = n => n > 0
      BY <2>2
    <3> QED BY <1>4, <2>2, <3>2, <3>3, <3>4
  <2> QED BY <1>2, <2>1, <2>2
<1>14. ASSUME NEW k \in 1 .. n + 1, NEW i \in q[k] .. q[k + 1] - 1
       PROVE  /\ G[i].kind = "allocator_source_summary" <=> i = at2[k]
              /\ G[i].kind = "allocator_source_delta" <=> i = at2[k] + 1
              /\ i = at2[k] => G[i].body = sum2[k]
              /\ i = at2[k] + 1 => \A c \in Counts : G[i].body[c] = sum2[k][c] - sum2[k - 1][c]
  <2>1. CASE k \in 1 .. n
    <3>1. k \in 0 .. n + 1 /\ k + 1 \in 0 .. n + 1 /\ k \in 0 .. n /\ k - 1 \in 0 .. n
      BY <1>2, <2>1
    <3>2. q[k] = pos[k] /\ q[k + 1] = pos[k + 1] /\ at2[k] = at[k] /\ sum2[k] = sum[k] /\ sum2[k - 1] = sum[k - 1]
      BY <1>1, <1>6, <1>7, <2>1, <3>1
    <3>3. pos[k] \in Nat /\ pos[k + 1] \in Nat /\ pos[k + 1] <= Len(F) + 1 /\ pos[0] = 0 /\ pos[0] < pos[k]
      <4>1. 0 \in 0 .. n + 1 /\ 0 < k
        BY <1>2, <2>1
      <4>2. pos[0] < pos[k] /\ pos[0] = 0
        BY <3>1, <4>1 DEF Paged
      <4> QED BY <1>1, <3>1, <4>2
    <3>4. i \in 1 .. Len(F)
      BY <1>1, <3>2, <3>3
    <3>5. G[i] = F[i]
      BY <3>4 DEF Grown
    <3>6. i \in pos[k] .. pos[k + 1] - 1
      BY <3>2
    <3> QED BY <2>1, <3>2, <3>5, <3>6 DEF Summed
  <2>2. CASE k = n + 1
    <3>1. q[k] = Len(F) + 1 /\ q[k + 1] = Len(F) + 2 + Len(r) /\ at2[k] = Len(F) + 1 + p
      BY <1>1, <1>2, <1>5, <1>8, <2>2
    <3>2. sum2[k] = s /\ sum2[k - 1] = sum[n]
      <4>1. n \in 0 .. n /\ k - 1 = n
        BY <1>2, <2>2
      <4> QED BY <1>7, <1>8, <2>2, <4>1
    <3>3. CASE i = Len(F) + 1
      <4>1. G[i] = x
        BY <3>3 DEF Grown
      <4> QED BY <1>1, <1>5, <3>1, <3>3, <4>1
    <3>4. CASE i # Len(F) + 1
      <4>1. PICK j \in 1 .. Len(r) : i = Len(F) + 1 + j
        <5>1. i - Len(F) - 1 \in 1 .. Len(r) /\ i = Len(F) + 1 + (i - Len(F) - 1)
          BY <1>1, <1>5, <3>1, <3>4
        <5> QED BY <5>1
      <4>2. G[i] = r[j]
        BY <4>1 DEF Grown
      <4>3. PICK l \in Nat : l = Len(F) + 1
        BY <1>1
      <4>4. i = l + j /\ at2[k] = l + p /\ j \in Nat /\ p \in Nat
        BY <1>5, <3>1, <4>1, <4>3
      <4>5. i = at2[k] <=> j = p
        BY <4>4
      <4>6. i = at2[k] + 1 <=> j = p + 1
        BY <4>4
      <4>7. CASE j = p
        <5>1. G[i] = sr /\ p # p + 1
          BY <1>0, <1>5, <4>2, <4>7 DEF AmidAt
        <5> QED BY <1>3, <3>2, <4>5, <4>6, <4>7, <5>1
      <4>8. CASE j = p + 1
        <5>1. G[i] = dr /\ p # p + 1
          BY <1>0, <1>5, <4>2, <4>8 DEF AmidAt
        <5> QED BY <1>3, <3>2, <4>5, <4>6, <4>8, <5>1
      <4>9. CASE j # p /\ j # p + 1
        <5>1. G[i].kind \in Others
          BY <1>0, <4>2, <4>9 DEF AmidAt
        <5> QED BY <4>5, <4>6, <4>9, <5>1, OthersApart
      <4> QED BY <4>7, <4>8, <4>9
    <3> QED BY <3>3, <3>4
  <2> QED BY <1>2, <2>1, <2>2
<1>15. Summed(G, n + 1, q, at2, sum2)
  BY <1>9, <1>10, <1>11, <1>13, <1>14 DEF Summed
<1> QED BY <1>8, <1>12, <1>15 DEF q
-----------------------------------------------------------------------------
(* What every trace is                                                     *)

\* What is recorded of n events, and what was summed up of the last one.
Trace(F, n, last) ==
  \E pos :
    /\ Paged(F, n, pos)
    /\ WarningsOn => \E at, sum :
         /\ Summed(F, n, pos, at, sum)
         /\ n > 0 => at[n] + 1 < pos[n + 1]
         /\ last = IF n = 0 THEN None ELSE sum[n]
    /\ ~WarningsOn => Unsummed(F)

Booked == WritesTrace => Trace(records, events, summary)

\* A trace begins with the session.
LEMMA TraceBegins ==
  ASSUME NEW x, x.kind = "session_start", x.event = None
  PROVE  Trace(<<x>>, 0, None)
<1> DEFINE F == <<x>>
           pos == [i \in 0 .. 1 |-> IF i = 0 THEN 0 ELSE 2]
           at == [k \in {} |-> 0]
           zero == [c \in Counts |-> 0]
           sum == [k \in 0 .. 0 |-> zero]
<1>1. F[1] = x /\ Len(F) = 1 /\ F \in Seq({x}) /\ ToSet(F) = {x} /\ DOMAIN F = 1 .. 1
  BY DEF ToSet
<1> HIDE DEF F
<1>2. pos \in [0 .. 0 + 1 -> Nat] /\ pos[0] = 0 /\ pos[1] = 2
  OBVIOUS
<1> HIDE DEF pos
<1>3. \A i, j \in 0 .. 0 + 1 : i < j => pos[i] < pos[j]
  <2>1. \A i \in 0 .. 0 + 1 : i = 0 \/ i = 1
    OBVIOUS
  <2> QED BY <1>2, <2>1
<1>4. ASSUME NEW k \in 0 .. 0, NEW i \in pos[k] .. pos[k + 1] - 1, i # 0
      PROVE  /\ F[i].kind \in Ends <=> i = 1
             /\ F[i].kind = "event" <=> i = pos[k]
             /\ F[i].event = IF k = 0 THEN None ELSE k
  <2>1. k = 0 /\ i = 1 /\ i # pos[k]
    BY <1>2, <1>4
  <2>2. "session_start" \in Ends /\ "event" # "session_start"
    BY DEF Ends
  <2> QED BY <1>1, <2>1, <2>2
<1>5. Paged(F, 0, pos)
  BY <1>1, <1>2, <1>3, <1>4 DEF Paged
<1>6. Summed(F, 0, pos, at, sum)
  <2>1. sum \in [0 .. 0 -> [Counts -> Nat]] /\ \A c \in Counts : sum[0][c] = 0
    OBVIOUS
  <2>2. at \in [1 .. 0 -> Nat] /\ \A k \in 1 .. 0 : FALSE
    OBVIOUS
  <2> HIDE DEF sum, at
  <2> QED BY <2>1, <2>2 DEF Summed
<1>7. Unsummed(F)
  BY <1>1 DEF Unsummed
<1> HIDE DEF at, sum
<1> QED BY <1>5, <1>6, <1>7 DEF Trace, F

\* It goes on with an event.
LEMMA TraceGoesOn ==
  ASSUME NEW F, NEW n, NEW last, Trace(F, n, last), NEW x, x.kind = "event", x.event = n + 1,
         NEW r, r \in Seq(ToSet(r)), NEW s \in [Counts -> Nat],
         WarningsOn => Amid(r, n + 1, Record("allocator_source_summary", n + 1, s),
                            Record("allocator_source_delta", n + 1, Diff(last, s))),
         ~WarningsOn => Telling(r, Others, n + 1)
  PROVE  Trace(F \o (<<x>> \o r), n + 1, OnlyIf(WarningsOn, s))
<1> DEFINE G == F \o (<<x>> \o r)
           sr == Record("allocator_source_summary", n + 1, s)
           dr == Record("allocator_source_delta", n + 1, Diff(last, s))
<1>1. PICK pos :
        /\ Paged(F, n, pos)
        /\ WarningsOn => \E at, sum :
             /\ Summed(F, n, pos, at, sum)
             /\ n > 0 => at[n] + 1 < pos[n + 1]
             /\ last = IF n = 0 THEN None ELSE sum[n]
        /\ ~WarningsOn => Unsummed(F)
  BY DEF Trace
<1>2. F \in Seq(ToSet(F)) /\ n \in Nat
  BY <1>1 DEF Paged
<1>3. Grown(G, F, x, r)
  BY <1>2, GrownMade
<1> HIDE DEF G
<1>4. /\ sr.kind = "allocator_source_summary" /\ dr.kind = "allocator_source_delta"
      /\ sr.event = n + 1 /\ dr.event = n + 1 /\ dr.body = Diff(last, s)
  BY DEF Record
<1>5. \A i \in 1 .. Len(r) : r[i].kind \notin Ends \cup {"event"} /\ r[i].event = n + 1
  <2> SUFFICES ASSUME NEW i \in 1 .. Len(r)
               PROVE  r[i].kind \notin Ends \cup {"event"} /\ r[i].event = n + 1
    OBVIOUS
  <2>1. CASE WarningsOn
    <3>1. PICK p : AmidAt(r, n + 1, sr, dr, p)
      BY <2>1 DEF Amid
    <3> HIDE DEF sr, dr
    <3>2. r[i] = sr \/ r[i] = dr \/ (r[i].kind \in Others /\ r[i].event = n + 1)
      BY <3>1 DEF AmidAt
    <3>3. \A kind \in {"allocator_source_summary", "allocator_source_delta"} :
             kind \notin Ends \cup {"event"}
      BY DEF Ends
    <3> QED BY <1>4, <3>2, <3>3, OthersApart
  <2>2. CASE ~WarningsOn
    <3>1. r[i] \in ToSet(r) /\ Telling(r, Others, n + 1)
      BY <2>2 DEF ToSet
    <3> QED BY <3>1, OthersApart DEF Telling
  <2> QED BY <2>1, <2>2
<1>6. Paged(G, n + 1, PosMore(pos, n, r))
  BY <1>1, <1>3, <1>5, PagedMore
<1>7. CASE WarningsOn
  <2>1. PICK at, sum : /\ Summed(F, n, pos, at, sum)
                       /\ n > 0 => at[n] + 1 < pos[n + 1]
                       /\ last = IF n = 0 THEN None ELSE sum[n]
    BY <1>1, <1>7
  <2>2. \A c \in Counts : Diff(last, s)[c] = s[c] - sum[n][c]
    <3>1. CASE n = 0
      <4>1. \A c \in Counts : sum[0][c] = 0
        BY <2>1 DEF Summed
      <4> QED BY <2>1, <3>1, <4>1 DEF Diff
    <3>2. CASE n # 0
      <4>1. n \in 0 .. n
        BY <1>2
      <4>2. sum[n] \in [Counts -> Nat]
        BY <2>1, <4>1 DEF Summed
      <4>3. last # None
        BY <2>1, <3>2, <4>2, NoneIsNoAnswer
      <4> QED BY <2>1, <3>2, <4>3 DEF Diff
    <3> QED BY <3>1, <3>2
  <2>3. PICK at2, sum2 : /\ Summed(G, n + 1, PosMore(pos, n, r), at2, sum2)
                         /\ at2[n + 1] + 1 < PosMore(pos, n, r)[n + 2]
                         /\ sum2[n + 1] = s
    BY <1>1, <1>3, <1>7, <2>1, <2>2, SummedMore
  <2>4. n + 1 + 1 = n + 2 /\ n + 1 # 0
    BY <1>2
  <2> QED BY <1>6, <1>7, <2>3, <2>4 DEF Trace, OnlyIf, G
<1>8. CASE ~WarningsOn
  <2>1. Unsummed(G)
    <3> SUFFICES ASSUME NEW i \in DOMAIN G
                 PROVE  G[i].kind \notin {"allocator_source_summary", "allocator_source_delta"}
      BY DEF Unsummed
    <3>1. /\ i \in 1 .. Len(F) + 1 + Len(r) /\ Len(F) \in Nat /\ Len(r) \in Nat
          /\ \A j \in 1 .. Len(F) : G[j] = F[j]
          /\ G[Len(F) + 1] = x
          /\ \A j \in 1 .. Len(r) : G[Len(F) + 1 + j] = r[j]
      BY <1>3 DEF Grown
    <3>2. CASE i \in 1 .. Len(F)
      <4>1. i \in DOMAIN F
        BY <1>2, <3>2
      <4> QED BY <1>1, <1>8, <3>1, <3>2, <4>1 DEF Unsummed
    <3>3. CASE i = Len(F) + 1
      BY <3>1, <3>3
    <3>4. CASE i > Len(F) + 1
      <4>1. PICK j \in 1 .. Len(r) : i = Len(F) + 1 + j
        <5>1. PICK l \in Nat, m \in Nat : l = Len(F) /\ m = Len(r)
          BY <3>1
        <5>2. PICK j \in 1 .. l + 1 + m : j = i
          BY <3>1, <5>1
        <5>3. j > l + 1
          BY <3>4, <5>1, <5>2
        <5>4. j - l - 1 \in 1 .. m /\ j = l + 1 + (j - l - 1)
          BY <5>3
        <5> QED BY <5>1, <5>2, <5>4
      <4>2. r[j] \in ToSet(r) /\ Telling(r, Others, n + 1)
        BY <1>8 DEF ToSet
      <4>3. r[j].kind \in Others
        BY <4>2 DEF Telling
      <4> QED BY <3>1, <4>1, <4>3, OthersApart
    <3> QED BY <3>1, <3>2, <3>3, <3>4
  <2> QED BY <1>6, <1>8, <2>1 DEF Trace, G
<1> QED BY <1>7, <1>8

\* Every trace is one of so many events: a page of the session and a page of each event in
\* turn, which starts with the event and, where allocator sources are told, has one summary
\* and next to it the difference from the summary before (app.rs:4634-4693, 6767-6913).
THEOREM BookAlways == Spec => []Booked
<1>1. Init => Booked
  <2> SUFFICES ASSUME Init, WritesTrace PROVE Trace(records, events, summary)
    BY DEF Booked
  <2>1. records = <<Started(config, setup.version)>> /\ events = 0 /\ summary = None
    BY DEF Init, Writing
  <2>2. /\ Started(config, setup.version).kind = "session_start"
        /\ Started(config, setup.version).event = None
    BY DEF Started, SessionStart, Record
  <2> QED BY <2>1, <2>2, TraceBegins
<1>2. Inv /\ Typed /\ Booked /\ [Next]_vars => Booked'
  <2> SUFFICES ASSUME Inv, Typed, Booked, [Next]_vars PROVE Booked'
    OBVIOUS
  <2>1. CASE TracedMalloc \/ TracedFree \/ TracedRealloc \/ TracedNull
    <3>1. PICK h, t, o, e : Told(h, t, o, e)
      BY <2>1, EventTold
    <3>2. Emit(h, t, o, e) /\ events' = events + 1 /\ config' = config
      BY <3>1 DEF Told
    <3> DEFINE id == events + 1
               sum == Summary(Seen(o), kept', t)
               walk == Snapshot(h, Discovered(h))
               report == ReportOn(h, t, o, OnlyIf("chunks" \in config.texts, walk), kept')
               x == EventRecord(id, e, ChunkAt(h, e.ptr))
    <3>3. sum \in [Counts -> Nat]
      BY <2>1, <3>1, ToldSighted, SummaryCounted
    <3>4. /\ Tell(id, h, t, o, e, Discovered(h), walk, ReadNow(walk), report, sum)
      BY <3>2, EmitSets
    <3>5. PICK k : k = kept'
      OBVIOUS
    <3>6. x.kind = "event" /\ x.event = id
      BY DEF EventRecord, Record
    <3> HIDE DEF id, sum, walk, report, x
    <3>7. /\ related' = Related(id, h, t, o, Discovered(h), walk, ReadNow(walk), k, report, sum)
          /\ records' = records \o Writing(<<x>> \o related')
          /\ summary' = OnlyIf(WarningsOn, sum)
      BY <3>4, <3>5 DEF Tell, x
    <3>8. /\ WarningsOn => Amid(related', id, Record("allocator_source_summary", id, sum),
                                Record("allocator_source_delta", id, Diff(summary, sum)))
          /\ ~WarningsOn => Telling(related', Others, id)
      BY <3>7, RelatedAmid
    <3>9. related' \in Seq(ToSet(related'))
      BY <3>8 DEF Amid, AmidAt, Telling
    <3>10. (WritesTrace' <=> WritesTrace) /\ (WarningsOn' <=> WarningsOn)
      BY <3>2 DEF WritesTrace, WarningsOn
    <3>11. ASSUME WritesTrace PROVE Trace(records', id, summary')
      <4>1. records' = records \o (<<x>> \o related')
        BY <3>7, <3>11 DEF Writing
      <4>2. Trace(records, events, summary)
        BY <3>11 DEF Booked
      <4>3. PICK r : r = related'
        OBVIOUS
      <4>4. Trace(records \o (<<x>> \o r), events + 1, OnlyIf(WarningsOn, sum))
        BY <3>3, <3>6, <3>8, <3>9, <4>2, <4>3, TraceGoesOn DEF id
      <4> QED BY <3>7, <4>1, <4>3, <4>4 DEF id
    <3>12. \A F, n, last : Trace(F, n, last)' = Trace(F, n, last)
      BY <3>10 DEF Trace
    <3> QED BY <3>2, <3>10, <3>11, <3>12 DEF Booked, id
  <2>2. CASE UntracedMalloc \/ UntracedFree \/ Overwrite \/ UNCHANGED vars
    <3>1. UNCHANGED <<config, events, records, summary>>
      BY <2>2 DEF UntracedMalloc, UntracedFree, Hidden, Overwrite, vars, world, trace
    <3>2. (WritesTrace' <=> WritesTrace) /\ (WarningsOn' <=> WarningsOn)
      BY <3>1 DEF WritesTrace, WarningsOn
    <3> QED BY <3>1, <3>2 DEF Booked, Trace
  <2> QED BY <2>1, <2>2 DEF Next
<1> QED BY <1>1, <1>2, InvAlways, TypedAlways, PTL DEF Spec
-----------------------------------------------------------------------------
(* A file of a trace, cut or whole                                         *)

\* The file G is the trace F of n events, and the end of its session where w is 1.
FileIs(G, F, n, pos, w) ==
  /\ Paged(F, n, pos) /\ w \in {0, 1}
  /\ G \in Seq(ToSet(G)) /\ Len(G) = Len(F) + w /\ \A i \in 1 .. Len(F) : G[i] = F[i]
  /\ w = 1 => G[Len(F) + 1] = SessionEnd(n)

\* The k-th event and what was told of it.
Page(pos, k) == pos[k] .. pos[k + 1] - 1

\* Where the pages are.
LEMMA PagePlaces ==
  ASSUME NEW F, NEW n, NEW pos, Paged(F, n, pos)
  PROVE  /\ n \in Nat /\ Len(F) \in Nat \ {0} /\ pos[n + 1] = Len(F) + 1 /\ pos[0] = 0 /\ pos[1] = 2
         /\ \A k \in 0 .. n + 1 : pos[k] \in Nat /\ pos[k] <= Len(F) + 1
         /\ \A i, j \in 0 .. n + 1 : i < j => pos[i] < pos[j]
         /\ \A k \in 0 .. n : /\ k + 1 \in 0 .. n + 1 /\ k \in 0 .. n + 1
                              /\ pos[k] < pos[k + 1] /\ pos[k] \in Page(pos, k)
         /\ \A k \in 1 .. n : k \in 0 .. n /\ 2 <= pos[k]
<1>1. /\ n \in Nat /\ pos \in [0 .. n + 1 -> Nat] /\ Len(F) = pos[n + 1] - 1 /\ F \in Seq(ToSet(F))
      /\ pos[0] = 0 /\ pos[1] = 2 /\ \A i, j \in 0 .. n + 1 : i < j => pos[i] < pos[j]
  BY DEF Paged
<1>2. n + 1 \in 0 .. n + 1 /\ 1 \in 0 .. n + 1 /\ pos[n + 1] \in Nat
  BY <1>1
<1>3. ASSUME NEW k \in 0 .. n + 1 PROVE pos[k] \in Nat /\ pos[k] <= pos[n + 1]
  <2>1. k = n + 1 \/ k < n + 1
    BY <1>1
  <2>2. k < n + 1 => pos[k] < pos[n + 1]
    BY <1>1, <1>2
  <2> QED BY <1>1, <1>2, <2>1, <2>2
<1>4. pos[n + 1] = Len(F) + 1 /\ Len(F) \in Nat \ {0}
  <2>1. 2 <= pos[n + 1]
    BY <1>1, <1>2, <1>3
  <2> QED BY <1>1, <1>2, <2>1
<1>5. ASSUME NEW k \in 0 .. n
      PROVE  /\ k + 1 \in 0 .. n + 1 /\ k \in 0 .. n + 1 /\ pos[k] < pos[k + 1]
             /\ pos[k] \in Page(pos, k)
  <2>1. k + 1 \in 0 .. n + 1 /\ k \in 0 .. n + 1 /\ k < k + 1
    BY <1>1
  <2>2. pos[k] \in Nat /\ pos[k + 1] \in Nat /\ pos[k] < pos[k + 1]
    BY <1>1, <1>3, <2>1
  <2> QED BY <2>1, <2>2 DEF Page
<1>6. ASSUME NEW k \in 1 .. n PROVE k \in 0 .. n /\ 2 <= pos[k]
  <2>1. k \in 0 .. n /\ k \in 0 .. n + 1 /\ (k = 1 \/ 1 < k)
    BY <1>1
  <2>2. 1 < k => pos[1] < pos[k]
    BY <1>1, <1>2, <2>1
  <2> QED BY <1>1, <1>3, <2>1, <2>2
<1> QED BY <1>1, <1>3, <1>4, <1>5, <1>6

\* A record of a trace is on one page,
LEMMA OnPage ==
  ASSUME NEW F, NEW n, NEW pos, Paged(F, n, pos)
  PROVE  \A i \in 0 .. Len(F) : \E k \in 0 .. n : i \in Page(pos, k)
<1> DEFINE N == n + 1
           S == {k \in 0 .. N : \A i \in Nat : i < pos[k] => \E j \in 0 .. n : i \in Page(pos, j)}
<1>1. /\ n \in Nat /\ Len(F) \in Nat \ {0} /\ pos[n + 1] = Len(F) + 1 /\ pos[0] = 0
      /\ \A k \in 0 .. n + 1 : pos[k] \in Nat
  BY PagePlaces
<1>2. 0 \in S
  BY <1>1
<1>3. ASSUME NEW k \in 0 .. N - 1, k \in S PROVE k + 1 \in S
  <2>1. k \in 0 .. n /\ k + 1 \in 0 .. n + 1 /\ k \in 0 .. n + 1
    BY <1>1
  <2>2. ASSUME NEW i \in Nat, i < pos[k + 1] PROVE \E j \in 0 .. n : i \in Page(pos, j)
    <3>1. CASE i < pos[k]
      BY <1>3, <3>1
    <3>2. CASE ~(i < pos[k])
      <4>1. i \in Page(pos, k)
        BY <1>1, <2>1, <2>2, <3>2 DEF Page
      <4> QED BY <2>1, <4>1
    <3> QED BY <3>1, <3>2
  <2> QED BY <2>1, <2>2
<1> HIDE DEF S
<1>4. \A k \in 0 .. N : k \in S
  <2>1. N \in Nat
    BY <1>1
  <2> HIDE DEF N
  <2> QED BY <1>2, <1>3, <2>1, Induct
<1>5. n + 1 \in S
  BY <1>1, <1>4
<1> QED BY <1>1, <1>5 DEF S

\* and on no other.
LEMMA PagesApart ==
  ASSUME NEW F, NEW n, NEW pos, Paged(F, n, pos), NEW j \in 0 .. n, NEW k \in 0 .. n,
         NEW i, i \in Page(pos, j), i \in Page(pos, k)
  PROVE  j = k
<1>1. /\ n \in Nat /\ \A l \in 0 .. n + 1 : pos[l] \in Nat
      /\ \A l, m \in 0 .. n + 1 : l < m => pos[l] < pos[m]
  BY PagePlaces
<1>2. \A l, m \in 0 .. n : l < m => pos[l + 1] <= pos[m]
  <2> SUFFICES ASSUME NEW l \in 0 .. n, NEW m \in 0 .. n, l < m PROVE pos[l + 1] <= pos[m]
    OBVIOUS
  <2>1. l + 1 \in 0 .. n + 1 /\ m \in 0 .. n + 1 /\ (l + 1 = m \/ l + 1 < m)
    BY <1>1
  <2>2. l + 1 < m => pos[l + 1] < pos[m]
    BY <1>1, <2>1
  <2> QED BY <1>1, <2>1, <2>2
<1>3. /\ pos[j] \in Nat /\ pos[k] \in Nat /\ pos[j + 1] \in Nat /\ pos[k + 1] \in Nat
  <2>1. j \in 0 .. n + 1 /\ k \in 0 .. n + 1 /\ j + 1 \in 0 .. n + 1 /\ k + 1 \in 0 .. n + 1
    BY <1>1
  <2> QED BY <1>1, <2>1
<1>4. i \in Int /\ pos[j] <= i /\ i < pos[j + 1] /\ pos[k] <= i /\ i < pos[k + 1]
  BY <1>3 DEF Page
<1>5. j < k \/ k < j \/ j = k
  BY <1>1
<1> QED BY <1>2, <1>3, <1>4, <1>5

\* What each record of a file is.
LEMMA FileTold ==
  ASSUME NEW G, NEW F, NEW n, NEW pos, NEW w, FileIs(G, F, n, pos, w), NEW i \in 1 .. Len(G)
  PROVE  /\ G[i].kind = "event" <=> \E k \in 1 .. n : i = pos[k]
         /\ \A k \in 1 .. n : G[i].event = k <=> i \in Page(pos, k)
         /\ G[i].kind = "session_start" <=> i = 1
         /\ G[i].kind = "session_end" <=> i = Len(F) + 1
         /\ \A k \in 1 .. n : i = pos[k] => G[i].event = k
<1>1. /\ n \in Nat /\ Len(F) \in Nat \ {0} /\ pos[n + 1] = Len(F) + 1 /\ pos[0] = 0 /\ pos[1] = 2
      /\ \A k \in 0 .. n + 1 : pos[k] \in Nat /\ pos[k] <= Len(F) + 1
      /\ \A k \in 0 .. n : k + 1 \in 0 .. n + 1 /\ pos[k] \in Page(pos, k)
      /\ \A k \in 1 .. n : k \in 0 .. n /\ 2 <= pos[k]
  BY PagePlaces DEF FileIs
<1>2. Paged(F, n, pos) /\ w \in {0, 1} /\ Len(G) = Len(F) + w
  BY DEF FileIs
<1>3. CASE i <= Len(F)
  <2>1. G[i] = F[i] /\ i \in 0 .. Len(F) /\ i # 0
    BY <1>1, <1>3 DEF FileIs
  <2>2. PICK k \in 0 .. n : i \in Page(pos, k)
    BY <1>2, <2>1, OnPage
  <2>3. /\ F[i].kind \in Ends <=> i = 1
        /\ F[i].kind = "event" <=> i = pos[k]
        /\ F[i].event = IF k = 0 THEN None ELSE k
    BY <1>2, <2>1, <2>2 DEF Paged, Page
  <2>4. \A j \in 0 .. n : i \in Page(pos, j) => j = k
    BY <1>2, <2>2, PagesApart
  <2>5. \A j \in 1 .. n : i = pos[j] => j = k
    BY <1>1, <2>4
  <2>6. F[1].kind = "session_start"
    BY <1>2 DEF Paged
  <2>7. G[i].kind = "event" <=> \E j \in 1 .. n : i = pos[j]
    <3>1. i = pos[k] => k \in 1 .. n
      BY <1>1, <2>1
    <3> QED BY <2>1, <2>3, <2>5, <3>1
  <2>8. ASSUME NEW j \in 1 .. n PROVE G[i].event = j <=> i \in Page(pos, j)
    <3>1. j \in 0 .. n /\ j # 0 /\ j # None
      BY <1>1, NoneIsNothing
    <3>2. i \in Page(pos, j) <=> j = k
      BY <2>2, <2>4, <3>1
    <3> QED BY <2>1, <2>3, <3>1, <3>2
  <2>9. G[i].kind = "session_start" <=> i = 1
    BY <2>1, <2>3, <2>6 DEF Ends
  <2>10. G[i].kind # "session_end" /\ i # Len(F) + 1
    BY <1>1, <1>3, <2>1, <2>3, <2>6 DEF Ends
  <2> QED BY <1>1, <2>7, <2>8, <2>9, <2>10
<1>4. CASE ~(i <= Len(F))
  <2>1. i = Len(F) + 1 /\ w = 1
    BY <1>1, <1>2, <1>4
  <2>2. G[i].kind = "session_end" /\ G[i].event = None
    BY <2>1 DEF FileIs, SessionEnd, Record
  <2>3. ASSUME NEW k \in 1 .. n PROVE i # pos[k] /\ i \notin Page(pos, k) /\ k # None
    <3>1. k \in 0 .. n /\ k + 1 \in 0 .. n + 1 /\ k \in Nat
      BY <1>1
    <3>2. pos[k + 1] <= Len(F) + 1 /\ pos[k + 1] \in Nat /\ pos[k] \in Page(pos, k)
      BY <1>1, <3>1
    <3>3. i \notin Page(pos, k)
      BY <1>1, <2>1, <3>2 DEF Page
    <3> QED BY <3>1, <3>2, <3>3, NoneIsNothing
  <2> QED BY <1>1, <2>1, <2>2, <2>3
<1> QED BY <1>1, <1>3, <1>4
-----------------------------------------------------------------------------
(* The events of a file                                                    *)

\* As many numbers as are listed.
LEMMA EnumeratesCount ==
  ASSUME NEW I \in SUBSET Nat, NEW e, NEW m, Enumerates(e, m, I)
  PROVE  Cardinality(I) = m
<1>1. m \in Nat /\ e \in [1 .. m -> I] /\ \A x \in I : \E i \in 1 .. m : e[i] = x
  BY DEF Enumerates
<1>2. \A i, j \in 1 .. m : e[i] = e[j] => i = j
  <2> SUFFICES ASSUME NEW i \in 1 .. m, NEW j \in 1 .. m, e[i] = e[j], i # j PROVE FALSE
    OBVIOUS
  <2>1. i < j \/ j < i
    BY <1>1
  <2>2. e[i] < e[j] \/ e[j] < e[i]
    BY <2>1 DEF Enumerates
  <2>3. e[i] \in Nat /\ e[j] \in Nat
    BY <1>1
  <2> QED BY <2>2, <2>3
<1>3. e \in Bijection(1 .. m, I)
  BY <1>1, <1>2 DEF Bijection, Injection, Surjection, IsInjective
<1>4. IsFiniteSet(1 .. m) /\ Cardinality(1 .. m) = m
  BY <1>1, FS_Interval
<1> QED BY <1>3, <1>4, FS_Bijection DEF ExistsBijection

\* The events come in their order.
LEMMA EventsOrdered ==
  ASSUME NEW F, NEW n, NEW pos, Paged(F, n, pos)
  PROVE  \A l, j \in 1 .. n : (l < j => pos[l] < pos[j]) /\ (pos[l] <= pos[j] => l <= j)
<1>1. /\ n \in Nat /\ \A k \in 0 .. n + 1 : pos[k] \in Nat
      /\ \A i, j \in 0 .. n + 1 : i < j => pos[i] < pos[j]
  BY PagePlaces
<1> SUFFICES ASSUME NEW l \in 1 .. n, NEW j \in 1 .. n
             PROVE  (l < j => pos[l] < pos[j]) /\ (pos[l] <= pos[j] => l <= j)
  OBVIOUS
<1>2. l \in 0 .. n + 1 /\ j \in 0 .. n + 1
  BY <1>1
<1>3. (l < j => pos[l] < pos[j]) /\ (j < l => pos[j] < pos[l]) /\ pos[l] \in Nat /\ pos[j] \in Nat
  BY <1>1, <1>2
<1> QED BY <1>3

\* Where they are.
LEMMA EventsAt ==
  ASSUME NEW G, NEW F, NEW n, NEW pos, NEW w, FileIs(G, F, n, pos, w)
  PROVE  /\ EventsIn(G) \subseteq 1 .. Len(G)
         /\ \A j \in 1 .. n : /\ pos[j] \in EventsIn(G)
                              /\ Enumerates([l \in 1 .. j |-> pos[l]], j, EventsIn(G) \cap 1 .. pos[j])
         /\ Enumerates([l \in 1 .. n |-> pos[l]], n, EventsIn(G))
<1>1. /\ n \in Nat /\ Len(F) \in Nat \ {0} /\ pos[n + 1] = Len(F) + 1
      /\ \A k \in 0 .. n + 1 : pos[k] \in Nat /\ pos[k] <= Len(F) + 1
      /\ \A i, j \in 0 .. n + 1 : i < j => pos[i] < pos[j]
      /\ \A k \in 1 .. n : k \in 0 .. n /\ 2 <= pos[k]
  BY PagePlaces DEF FileIs
<1>2. w \in {0, 1} /\ DOMAIN G = 1 .. Len(G) /\ Len(G) = Len(F) + w
  BY DEF FileIs
<1>3. EventsIn(G) \subseteq 1 .. Len(G) /\ \A i \in 1 .. Len(G) : i \in EventsIn(G) <=> \E k \in 1 .. n : i = pos[k]
  BY <1>2, FileTold DEF EventsIn
<1>4. \A j \in 1 .. n : pos[j] \in 1 .. Len(G) /\ pos[j] \in EventsIn(G)
  <2> SUFFICES ASSUME NEW j \in 1 .. n PROVE pos[j] \in 1 .. Len(G)
    BY <1>3
  <2>1. j \in 0 .. n + 1 /\ n + 1 \in 0 .. n + 1 /\ j < n + 1
    BY <1>1
  <2>2. pos[j] \in Nat /\ 2 <= pos[j] /\ pos[j] < Len(F) + 1
    BY <1>1, <2>1
  <2> QED BY <1>1, <1>2, <2>2
<1>5. \A l, j \in 1 .. n : (l < j => pos[l] < pos[j]) /\ (pos[l] <= pos[j] => l <= j)
  BY EventsOrdered DEF FileIs
<1>6. ASSUME NEW j \in 1 .. n
      PROVE  Enumerates([l \in 1 .. j |-> pos[l]], j, EventsIn(G) \cap 1 .. pos[j])
  <2> DEFINE e == [l \in 1 .. j |-> pos[l]]
             I == EventsIn(G) \cap 1 .. pos[j]
  <2>1. j \in Nat /\ \A l \in 1 .. j : l \in 1 .. n /\ (l = j \/ l < j)
    BY <1>1
  <2>2. e \in [1 .. j -> I]
    <3> SUFFICES ASSUME NEW l \in 1 .. j PROVE pos[l] \in I
      OBVIOUS
    <3>1. pos[l] <= pos[j] /\ pos[l] \in EventsIn(G) /\ pos[l] \in 1 .. Len(G) /\ pos[j] \in 1 .. Len(G)
      BY <1>4, <1>5, <2>1
    <3> QED BY <3>1
  <2>3. \A i, k \in 1 .. j : i < k => e[i] < e[k]
    BY <1>5, <2>1
  <2>4. ASSUME NEW x \in I PROVE \E i \in 1 .. j : e[i] = x
    <3>1. PICK k \in 1 .. n : x = pos[k]
      BY <1>3
    <3>2. k <= j /\ k \in 1 .. j
      BY <1>1, <1>5, <3>1
    <3> QED BY <3>1, <3>2
  <2> HIDE DEF e, I
  <2> QED BY <2>1, <2>2, <2>3, <2>4 DEF Enumerates, e, I
<1>7. Enumerates([l \in 1 .. n |-> pos[l]], n, EventsIn(G))
  <2> DEFINE e == [l \in 1 .. n |-> pos[l]]
  <2>1. e \in [1 .. n -> EventsIn(G)]
    BY <1>4
  <2>2. \A i, k \in 1 .. n : i < k => e[i] < e[k]
    BY <1>5
  <2>3. \A x \in EventsIn(G) : \E i \in 1 .. n : e[i] = x
    BY <1>3
  <2> HIDE DEF e
  <2> QED BY <1>1, <2>1, <2>2, <2>3 DEF Enumerates, e
<1> QED BY <1>3, <1>4, <1>6, <1>7

\* What the properties say of where the events are.
LEMMA EventPlaces ==
  ASSUME NEW G, NEW F, NEW n, NEW pos, NEW w, FileIs(G, F, n, pos, w)
  PROVE  /\ Cardinality(EventsIn(G)) = n
         /\ \A k \in 1 .. n : PlaceOf(G, k) = pos[k]
         /\ \A k \in 1 .. n : Until(G, k) = IF k = n THEN Len(G) ELSE pos[k + 1] - 1
<1>1. /\ EventsIn(G) \subseteq 1 .. Len(G)
      /\ \A j \in 1 .. n : /\ pos[j] \in EventsIn(G)
                           /\ Enumerates([l \in 1 .. j |-> pos[l]], j, EventsIn(G) \cap 1 .. pos[j])
      /\ Enumerates([l \in 1 .. n |-> pos[l]], n, EventsIn(G))
  BY EventsAt
<1>2. EventsIn(G) \in SUBSET Nat /\ DOMAIN G = 1 .. Len(G)
  BY <1>1 DEF FileIs
<1>3. Cardinality(EventsIn(G)) = n
  BY <1>1, <1>2, EnumeratesCount
<1>4. \A j \in 1 .. n : Cardinality(EventsIn(G) \cap 1 .. pos[j]) = j
  <2> SUFFICES ASSUME NEW j \in 1 .. n PROVE Cardinality(EventsIn(G) \cap 1 .. pos[j]) = j
    OBVIOUS
  <2> DEFINE I == EventsIn(G) \cap 1 .. pos[j]
  <2>1. I \in SUBSET Nat /\ Enumerates([l \in 1 .. j |-> pos[l]], j, I)
    BY <1>1, <1>2
  <2> HIDE DEF I
  <2>2. Cardinality(I) = j
    BY <2>1, EnumeratesCount
  <2> QED BY <2>2 DEF I
<1>5. \A i \in EventsIn(G) : \E j \in 1 .. n : i = pos[j]
  <2> SUFFICES ASSUME NEW i \in EventsIn(G) PROVE \E j \in 1 .. n : i = pos[j]
    OBVIOUS
  <2>1. i \in 1 .. Len(G) /\ G[i].kind = "event"
    BY <1>1 DEF EventsIn
  <2> QED BY <2>1, FileTold
<1>6. ASSUME NEW k \in 1 .. n PROVE PlaceOf(G, k) = pos[k]
  <2> DEFINE Counted(i) == Cardinality(EventsIn(G) \cap 1 .. i) = k
  <2>1. pos[k] \in EventsIn(G) /\ Counted(pos[k])
    BY <1>1, <1>4
  <2>2. \A i \in EventsIn(G) : Counted(i) => i = pos[k]
    BY <1>4, <1>5
  <2>3. PlaceOf(G, k) = CHOOSE i \in EventsIn(G) : Counted(i)
    BY DEF PlaceOf
  <2> HIDE DEF Counted
  <2> QED BY <2>1, <2>2, <2>3
<1>7. ASSUME NEW k \in 1 .. n PROVE Until(G, k) = IF k = n THEN Len(G) ELSE pos[k + 1] - 1
  <2>1. CASE k = n
    BY <1>3, <2>1 DEF Until
  <2>2. CASE k # n
    <3>1. n \in Nat
      BY <1>1 DEF Enumerates
    <3>2. k + 1 \in 1 .. n
      BY <2>2, <3>1
    <3>3. PlaceOf(G, k + 1) = pos[k + 1]
      BY <1>6, <3>2
    <3> QED BY <1>3, <2>2, <3>3 DEF Until
  <2> QED BY <2>1, <2>2
<1> QED BY <1>3, <1>6, <1>7

\* They are read back as they are.
LEMMA EventsRead ==
  ASSUME NEW G, NEW F, NEW n, NEW pos, NEW w, FileIs(G, F, n, pos, w)
  PROVE  EventEntries(G) = [k \in 1 .. n |-> [id |-> k, index |-> pos[k]]]
<1> DEFINE N == Len(G)
           seq == [i \in DOMAIN G |-> i]
           I == EventsIn(G)
           e == [l \in 1 .. n |-> pos[l]]
           at == Picked(seq, I)
<1>1. N \in Nat /\ DOMAIN G = 1 .. N /\ I \subseteq 1 .. N /\ Enumerates(e, n, I)
      /\ \A j \in 1 .. n : pos[j] \in I
  <2>1. N \in Nat /\ DOMAIN G = 1 .. N
    BY DEF FileIs
  <2> QED BY <2>1, EventsAt
<1>2. seq \in Seq(Nat) /\ Len(seq) = N /\ \A i \in 1 .. N : seq[i] = i
  <2> HIDE DEF N
  <2>1. seq \in [1 .. N -> Nat] /\ \A i \in 1 .. N : seq[i] = i
    BY <1>1
  <2> HIDE DEF seq
  <2> QED BY <1>1, <2>1
<1>3. EventEntries(G) = [i \in DOMAIN at |-> [id |-> G[at[i]].event, index |-> at[i]]]
  BY DEF EventEntries, EventsIn
<1> HIDE DEF seq, I, N
<1>4. UpTo(I, Len(seq)) = I
  BY <1>1, <1>2 DEF UpTo
<1>5. at \in Seq(Nat) /\ Picks(at, seq, e, n)
  <2> HIDE DEF e
  <2> QED BY <1>1, <1>2, <1>4, PickedAt
<1> HIDE DEF at
<1>6. n \in Nat /\ Len(at) = n /\ DOMAIN at = 1 .. n
  BY <1>1, <1>5 DEF Picks, Enumerates
<1>7. \A k \in 1 .. n : at[k] = pos[k] /\ G[pos[k]].event = k
  <2> SUFFICES ASSUME NEW k \in 1 .. n PROVE at[k] = pos[k] /\ G[pos[k]].event = k
    OBVIOUS
  <2>1. at[k] = seq[e[k]] /\ e[k] = pos[k] /\ pos[k] \in 1 .. N
    BY <1>1, <1>5 DEF Picks
  <2>2. G[pos[k]].event = k
    BY <2>1, FileTold DEF N
  <2> QED BY <1>2, <2>1, <2>2
<1> QED BY <1>3, <1>6, <1>7
-----------------------------------------------------------------------------
(* What is read of an event                                                *)

\* The records between the k-th event and the next.
Between(G, pos, k) == [r \in 1 .. pos[k + 1] - 1 - pos[k] |-> G[pos[k] + r]]

\* Where a page of a file is, in numbers.
LEMMA PageNumbers ==
  ASSUME NEW G, NEW F, NEW n, NEW pos, NEW w, FileIs(G, F, n, pos, w), NEW k \in 1 .. n
  PROVE  /\ n \in Nat /\ Len(F) \in Nat /\ Len(G) = Len(F) + w /\ w \in {0, 1}
         /\ DOMAIN G = 1 .. Len(G)
         /\ pos[k] \in Nat /\ pos[k + 1] \in Nat /\ 2 <= pos[k] /\ pos[k] < pos[k + 1]
         /\ pos[k + 1] <= Len(F) + 1 /\ (k = n => pos[k + 1] = Len(F) + 1)
         /\ pos[k] \in Page(pos, k)
         /\ \A j \in 1 .. n : pos[j] \in Page(pos, k) => j = k
<1>1. /\ n \in Nat /\ Len(F) \in Nat \ {0} /\ pos[n + 1] = Len(F) + 1
      /\ \A j \in 0 .. n + 1 : pos[j] \in Nat /\ pos[j] <= Len(F) + 1
      /\ \A j \in 0 .. n : /\ j + 1 \in 0 .. n + 1 /\ j \in 0 .. n + 1
                           /\ pos[j] < pos[j + 1] /\ pos[j] \in Page(pos, j)
      /\ \A j \in 1 .. n : j \in 0 .. n /\ 2 <= pos[j]
  BY PagePlaces DEF FileIs
<1>2. \A j \in 1 .. n : pos[j] \in Page(pos, k) => j = k
  <2> SUFFICES ASSUME NEW j \in 1 .. n, pos[j] \in Page(pos, k) PROVE j = k
    OBVIOUS
  <2>1. j \in 0 .. n /\ k \in 0 .. n /\ pos[j] \in Page(pos, j) /\ Paged(F, n, pos)
    BY <1>1 DEF FileIs
  <2> QED BY <2>1, PagesApart
<1>3. Len(G) = Len(F) + w /\ w \in {0, 1} /\ DOMAIN G = 1 .. Len(G)
  BY DEF FileIs
<1>4. k \in 0 .. n /\ k \in 0 .. n + 1 /\ k + 1 \in 0 .. n + 1 /\ (k = n => k + 1 = n + 1)
  BY <1>1
<1> QED BY <1>1, <1>2, <1>3, <1>4

\* The records of an event, without the event.
LEMMA RelatedRead ==
  ASSUME NEW G, NEW F, NEW n, NEW pos, NEW w, FileIs(G, F, n, pos, w), NEW k \in 1 .. n,
         NEW s, s.records = G
  PROVE  LET of == RecordsFor(s, k)
         IN  Picked(of, {i \in DOMAIN of : of[i].kind # "event"}) = Between(G, pos, k)
<1> DEFINE S == ToSet(G)
           a == pos[k]
           m == pos[k + 1] - 1 - pos[k]
           I == {i \in DOMAIN G : G[i].event = k}
           of == RecordsFor(s, k)
           J == {i \in DOMAIN of : of[i].kind # "event"}
<1>1. /\ Len(F) \in Nat /\ Len(G) = Len(F) + w /\ w \in {0, 1} /\ DOMAIN G = 1 .. Len(G)
      /\ a \in Nat /\ pos[k + 1] \in Nat /\ 2 <= a /\ a < pos[k + 1] /\ pos[k + 1] <= Len(F) + 1
      /\ \A j \in 1 .. n : pos[j] \in Page(pos, k) => j = k
  BY PageNumbers
<1>2. m \in Nat /\ a + m = pos[k + 1] - 1 /\ a + m <= Len(G) /\ G \in Seq(S)
  <2>1. PICK l \in Nat : l = Len(F)
    BY <1>1
  <2>2. G \in Seq(S)
    BY DEF FileIs
  <2> HIDE DEF S
  <2> QED BY <1>1, <2>1, <2>2, SMTT(20)
<1>3. \A i \in 1 .. Len(G) : i \in I <=> (a <= i /\ i <= a + m)
  <2> SUFFICES ASSUME NEW i \in 1 .. Len(G) PROVE G[i].event = k <=> (a <= i /\ i <= a + m)
    BY <1>1
  <2>1. G[i].event = k <=> i \in Page(pos, k)
    BY FileTold
  <2>2. i \in Int
    BY <1>1
  <2> QED BY <1>1, <1>2, <2>1, <2>2 DEF Page
<1>4. of = Picked(G, I)
  BY DEF RecordsFor
<1> HIDE DEF S, m, I, of
<1>5. of = [r \in 1 .. m + 1 |-> G[a - 1 + r]]
  <2> DEFINE b == a - 1
             q == m + 1
  <2>1. b \in Int /\ q \in Nat /\ 0 <= b /\ b + q <= Len(G) /\ b + 1 = a /\ b + q = a + m
    BY <1>1, <1>2, SMTT(20)
  <2>2. \A i \in 1 .. Len(G) : i \in I <=> (b + 1 <= i /\ i <= b + q)
    BY <1>3, <2>1
  <2> HIDE DEF b, q
  <2>3. of = [r \in 1 .. q |-> G[b + r]]
    BY <1>2, <1>4, <2>1, <2>2, PickedRun
  <2> QED BY <2>3 DEF b, q
<1>6. of \in Seq(S) /\ Len(of) = m + 1 /\ DOMAIN of = 1 .. m + 1
      /\ \A r \in 1 .. m + 1 : of[r] = G[a - 1 + r] /\ a - 1 + r \in 1 .. Len(G)
  <2>1. \A r \in 1 .. m + 1 : a - 1 + r \in 1 .. Len(G)
    <3>1. PICK l \in Nat : l = Len(G)
      BY <1>1
    <3> QED BY <1>1, <1>2, <3>1, SMTT(20)
  <2>2. \A r \in 1 .. m + 1 : G[a - 1 + r] \in S
    BY <1>2, <2>1
  <2>3. m + 1 \in Nat
    BY <1>2
  <2> QED BY <1>5, <2>1, <2>2, <2>3
<1>7. \A i \in 1 .. Len(of) : i \in J <=> (1 + 1 <= i /\ i <= 1 + m)
  <2> SUFFICES ASSUME NEW i \in 1 .. m + 1 PROVE of[i].kind # "event" <=> (2 <= i /\ i <= 1 + m)
    BY <1>6
  <2>1. of[i] = G[a - 1 + i] /\ a - 1 + i \in 1 .. Len(G) /\ i \in Nat /\ 1 <= i /\ i <= m + 1
    BY <1>2, <1>6
  <2>2. G[a - 1 + i].kind = "event" <=> \E j \in 1 .. n : a - 1 + i = pos[j]
    BY <2>1, FileTold
  <2>3. a - 1 + i \in Page(pos, k)
    BY <1>1, <1>2, <2>1 DEF Page
  <2>4. (\E j \in 1 .. n : a - 1 + i = pos[j]) <=> a - 1 + i = a
    BY <1>1, <2>3
  <2>5. a - 1 + i = a <=> i = 1
    BY <1>1, <2>1
  <2>6. (2 <= i /\ i <= 1 + m) <=> i # 1
    BY <1>2, <2>1
  <2> QED BY <2>1, <2>2, <2>4, <2>5, <2>6
<1> HIDE DEF J
<1>8. Picked(of, J) = [r \in 1 .. m |-> of[1 + r]]
  <2> DEFINE b == 1
  <2>1. b \in Int /\ 0 <= b /\ b + m <= Len(of)
    BY <1>2, <1>6
  <2>2. \A i \in 1 .. Len(of) : i \in J <=> (b + 1 <= i /\ i <= b + m)
    BY <1>7
  <2> HIDE DEF b
  <2>3. of \in Seq(S) /\ m \in Nat
    BY <1>2, <1>6
  <2>4. Picked(of, J) = [r \in 1 .. m |-> of[b + r]]
    BY <2>1, <2>2, <2>3, PickedRun
  <2> QED BY <2>4 DEF b
<1>9. \A r \in 1 .. m : of[1 + r] = G[a + r]
  <2> SUFFICES ASSUME NEW r \in 1 .. m PROVE of[1 + r] = G[a + r]
    OBVIOUS
  <2>1. 1 + r \in 1 .. m + 1 /\ a - 1 + (1 + r) = a + r
    BY <1>1, <1>2, SMTT(20)
  <2> QED BY <1>6, <2>1
<1>10. Picked(of, J) = [r \in 1 .. m |-> G[a + r]]
  BY <1>8, <1>9
<1> QED BY <1>10 DEF Between, J, of, m

\* The records that follow an event up to the next.
LEMMA FollowingRead ==
  ASSUME NEW G, NEW F, NEW n, NEW pos, NEW w, FileIs(G, F, n, pos, w), NEW k \in 1 .. n
  PROVE  Following(G, k) = Between(G, pos, k)
<1> DEFINE S == ToSet(G)
           a == pos[k]
           u == Until(G, k)
           m == pos[k + 1] - 1 - pos[k]
           from == SubSeq(G, a + 1, u)
           I == {i \in DOMAIN from : from[i].kind # "session_end"}
<1>1. /\ n \in Nat /\ Len(F) \in Nat /\ Len(G) = Len(F) + w /\ w \in {0, 1} /\ DOMAIN G = 1 .. Len(G)
      /\ a \in Nat /\ pos[k + 1] \in Nat /\ 2 <= a /\ a < pos[k + 1] /\ pos[k + 1] <= Len(F) + 1
      /\ (k = n => pos[k + 1] = Len(F) + 1)
  BY PageNumbers
<1>2. PlaceOf(G, k) = a /\ u = IF k = n THEN Len(G) ELSE pos[k + 1] - 1
  BY EventPlaces
<1>3. Following(G, k) = Picked(from, I)
  BY <1>2 DEF Following
<1>4. G \in Seq(S)
  BY DEF FileIs
<1> HIDE DEF S, u
<1>5. /\ u \in Nat /\ a <= u /\ u <= Len(G) /\ m \in Nat /\ m <= u - a
      /\ \A i \in 1 .. u - a : a + i \in 1 .. Len(G) /\ (a + i # Len(F) + 1 <=> i <= m)
  <2>1. PICK l \in Nat : l = Len(F)
    BY <1>1
  <2>2. CASE k = n
    <3>1. u = l + w /\ m = l - a /\ a <= l
      BY <1>1, <1>2, <2>1, <2>2
    <3>2. PICK v \in Nat : v = u
      BY <1>1, <2>1, <3>1
    <3>3. PICK z \in Nat : z = m
      BY <1>1, <2>1, <3>1
    <3>4. v = l + w /\ z = l - a /\ a <= l /\ a \in Nat /\ w \in {0, 1} /\ Len(G) = l + w
      BY <1>1, <2>1, <3>1, <3>2, <3>3
    <3>5. \A i \in 1 .. v - a : a + i \in 1 .. l + w /\ (a + i # l + 1 <=> i <= z)
      BY ONLY <3>2, <3>3, <3>4, <2>1, SMTT(20)
    <3>6. a <= v /\ v <= l + w /\ z <= v - a
      BY ONLY <3>2, <3>3, <3>4, <2>1
    <3> HIDE DEF m
    <3> QED BY <2>1, <3>2, <3>3, <3>4, <3>5, <3>6
  <2>3. CASE k # n
    <3>1. u = pos[k + 1] - 1 /\ m = u - a /\ u <= l
      BY <1>1, <1>2, <2>1, <2>3
    <3>2. PICK v \in Nat : v = u
      BY <1>1, <2>1, <3>1
    <3>3. v <= l /\ a <= v /\ a \in Nat /\ w \in {0, 1} /\ Len(G) = l + w
      BY <1>1, <2>1, <3>1, <3>2
    <3>4. \A i \in 1 .. v - a : a + i \in 1 .. l + w /\ (a + i # l + 1 <=> i <= v - a)
      BY ONLY <3>2, <3>3, <2>1
    <3>5. v - a \in Nat /\ v <= l + w /\ v - a <= v - a
      BY ONLY <3>2, <3>3, <2>1
    <3>6. m = v - a
      BY <3>1, <3>2
    <3> HIDE DEF m
    <3> QED BY <2>1, <3>2, <3>3, <3>4, <3>5, <3>6
  <2> QED BY <2>2, <2>3
<1>6. from \in Seq(S) /\ Len(from) = u - a /\ \A i \in 1 .. u - a : from[i] = G[a + i]
  <2>1. PICK b \in Nat : b = a + 1
    BY <1>1
  <2>2. b \in 1 .. Len(G) + 1 /\ u \in b - 1 .. Len(G)
    BY <1>1, <1>5, <2>1, SMTT(20)
  <2>3. /\ SubSeq(G, b, u) \in Seq(S) /\ Len(SubSeq(G, b, u)) = IF b <= u THEN u - b + 1 ELSE 0
        /\ \A i \in 1 .. u - b + 1 : SubSeq(G, b, u)[i] = G[b + i - 1]
    <3>1. \A i \in b .. u : G[i] \in S
      BY <1>4, <1>5, <2>1, <1>1, SMTT(20)
    <3> QED BY <1>4, <1>5, <2>1, <2>2, <3>1, SMTT(20)
  <2>4. u - b + 1 = u - a /\ (b <= u \/ (u = a /\ ~(b <= u)))
    <3>1. a \in Nat /\ u \in Nat /\ b = a + 1 /\ a <= u
      BY <1>1, <1>5, <2>1
    <3> HIDE DEF a
    <3> QED BY ONLY <3>1
  <2>5. \A i \in 1 .. u - a : i \in 1 .. u - b + 1 /\ b + i - 1 = a + i
    <3>1. PICK v \in Nat : v = u
      BY <1>5
    <3>2. a \in Nat /\ b = a + 1
      BY <1>1, <2>1
    <3> HIDE DEF a
    <3>3. \A i \in 1 .. v - a : i \in 1 .. v - b + 1 /\ b + i - 1 = a + i
      BY ONLY <3>1, <3>2
    <3> QED BY <3>1, <3>3
  <2>6. from = SubSeq(G, b, u)
    BY <2>1
  <2>7. Len(from) = u - a
    BY <1>1, <1>5, <2>1, <2>3, <2>4, <2>6, SMTT(20)
  <2>8. \A i \in 1 .. u - a : from[i] = G[a + i]
    <3> HIDE DEF from, a
    <3> QED BY <2>3, <2>5, <2>6
  <2> QED BY <2>3, <2>6, <2>7, <2>8
<1> HIDE DEF m, from
<1>7. \A i \in 1 .. Len(from) : i \in I <=> (0 + 1 <= i /\ i <= 0 + m)
  <2> SUFFICES ASSUME NEW i \in 1 .. u - a PROVE from[i].kind # "session_end" <=> (1 <= i /\ i <= m)
    BY <1>4, <1>5, <1>6
  <2>1. from[i] = G[a + i] /\ a + i \in 1 .. Len(G) /\ (a + i # Len(F) + 1 <=> i <= m)
    BY <1>5, <1>6
  <2>2. G[a + i].kind = "session_end" <=> a + i = Len(F) + 1
    BY <2>1, FileTold
  <2>3. i \in Int /\ 1 <= i
    BY <1>1, <1>5
  <2> QED BY <2>1, <2>2, <2>3
<1> HIDE DEF I
<1>8. Picked(from, I) = [r \in 1 .. m |-> from[0 + r]]
  <2> DEFINE b == 0
  <2>1. b \in Int /\ 0 <= b /\ b + m <= Len(from)
    BY <1>5, <1>6
  <2>2. \A i \in 1 .. Len(from) : i \in I <=> (b + 1 <= i /\ i <= b + m)
    BY <1>7
  <2> HIDE DEF b
  <2>3. Picked(from, I) = [r \in 1 .. m |-> from[b + r]]
    BY <1>5, <1>6, <2>1, <2>2, PickedRun
  <2> QED BY <2>3 DEF b
<1>9. \A r \in 1 .. m : from[0 + r] = G[a + r]
  <2> SUFFICES ASSUME NEW r \in 1 .. m PROVE from[0 + r] = G[a + r]
    OBVIOUS
  <2>1. r \in 1 .. u - a /\ 0 + r = r
    BY <1>1, <1>5
  <2> QED BY <1>6, <2>1
<1>10. Picked(from, I) = [r \in 1 .. m |-> G[a + r]]
  BY <1>8, <1>9
<1> QED BY <1>3, <1>10 DEF Between, m

\* So what is told of an event is what was written of it.
LEMMA TextsRead ==
  ASSUME NEW G, NEW F, NEW n, NEW pos, NEW w, FileIs(G, F, n, pos, w), NEW k \in 1 .. n,
         NEW s, s.records = G, NEW c
  PROVE  Same(RelatedText(s, k, c), Texts(Following(G, k), c))
<1>1. RelatedText(s, k, c) = Texts(Following(G, k), c)
  <2>1. Following(G, k) = Between(G, pos, k)
    BY FollowingRead
  <2> QED BY <2>1, RelatedRead DEF RelatedText
<1> QED BY <1>1 DEF Same
-----------------------------------------------------------------------------
(* What is counted of an event                                             *)

\* By event, a record of the kind wherever there is one.
LEMMA ByEventTold ==
  ASSUME NEW S, NEW G \in Seq(S), NEW kind
  PROVE  /\ \A i \in 1 .. Len(G) : G[i].kind = kind => G[i].event \in DOMAIN ByEvent(G, kind)
         /\ \A id \in DOMAIN ByEvent(G, kind) : \E i \in 1 .. Len(G) :
              G[i].kind = kind /\ G[i].event = id /\ ByEvent(G, kind)[id] = G[i].body
<1> DEFINE I == {i \in DOMAIN G : G[i].kind = kind}
           of == Picked(G, I)
           J(id) == {i \in DOMAIN of : of[i].event = id}
           w(id) == Picked(of, J(id))
           ids == {of[i].event : i \in DOMAIN of}
<1>1. ByEvent(G, kind) = [id \in ids |-> Last(w(id)).body]
  BY DEF ByEvent, OfKind
<1>2. DOMAIN G = 1 .. Len(G) /\ Len(G) \in Nat
  OBVIOUS
<1>3. \A i \in 1 .. Len(G) : i \in I <=> G[i].kind = kind
  BY <1>2
<1> HIDE DEF I
<1>4. /\ of \in Seq(S) /\ \A r \in 1 .. Len(of) : \E i \in UpTo(I, Len(G)) : of[r] = G[i]
      /\ \A i \in UpTo(I, Len(G)) : \E r \in 1 .. Len(of) : of[r] = G[i]
  BY PickedSome, SMTT(20)
<1>5. /\ \A r \in 1 .. Len(of) : \E i \in 1 .. Len(G) : G[i].kind = kind /\ of[r] = G[i]
      /\ \A i \in 1 .. Len(G) : G[i].kind = kind => \E r \in 1 .. Len(of) : of[r] = G[i]
  BY <1>3, <1>4 DEF UpTo
<1> HIDE DEF of
<1>6. DOMAIN of = 1 .. Len(of) /\ Len(of) \in Nat
  BY <1>4
<1>7. \A i \in 1 .. Len(G) : G[i].kind = kind => G[i].event \in ids
  <2> SUFFICES ASSUME NEW i \in 1 .. Len(G), G[i].kind = kind PROVE G[i].event \in ids
    OBVIOUS
  <2>1. PICK r \in 1 .. Len(of) : of[r] = G[i]
    BY <1>5
  <2> QED BY <1>6, <2>1
<1>8. ASSUME NEW id \in ids
      PROVE  \E i \in 1 .. Len(G) :
               G[i].kind = kind /\ G[i].event = id /\ Last(w(id)).body = G[i].body
  <2>1. /\ w(id) \in Seq(S)
        /\ \A r \in 1 .. Len(w(id)) : \E i \in UpTo(J(id), Len(of)) : w(id)[r] = of[i]
        /\ \A i \in UpTo(J(id), Len(of)) : \E r \in 1 .. Len(w(id)) : w(id)[r] = of[i]
    <3> HIDE DEF J
    <3> QED BY <1>4, PickedSome
  <2>2. PICK j \in 1 .. Len(of) : of[j].event = id
    BY <1>6, <1>8
  <2>3. j \in UpTo(J(id), Len(of))
    BY <1>6, <2>2 DEF UpTo
  <2>4. PICK v : v = w(id)
    OBVIOUS
  <2>5. PICK r \in 1 .. Len(v) : v[r] = of[j]
    BY <2>1, <2>3, <2>4
  <2>6. v \in Seq(S) /\ Len(v) \in 1 .. Len(v)
    BY <2>1, <2>4, <2>5
  <2>7. PICK i \in UpTo(J(id), Len(of)) : v[Len(v)] = of[i]
    BY <2>1, <2>4, <2>6
  <2>8. i \in 1 .. Len(of) /\ of[i].event = id
    BY <2>7 DEF UpTo
  <2>9. PICK l \in 1 .. Len(G) : G[l].kind = kind /\ of[i] = G[l]
    BY <1>5, <2>8
  <2>10. Last(v) = G[l]
    BY <2>7, <2>9 DEF Last
  <2> HIDE DEF w
  <2> QED BY <2>4, <2>8, <2>9, <2>10
<1> HIDE DEF w, ids
<1> QED BY <1>1, <1>7, <1>8

\* Where a delta is read, so is the summary it led to.
LEMMA CountsRead ==
  ASSUME NEW G, NEW F, NEW n, NEW pos, NEW w, FileIs(G, F, n, pos, w), NEW k \in 1 .. n,
         NEW at, NEW sum, Summed(F, n, pos, at, sum),
         k \in DOMAIN ByEvent(G, "allocator_source_delta")
  PROVE  LET states == ByEvent(G, "allocator_source_summary")
         IN  k \in DOMAIN states /\ states[k] = sum[k] /\ at[k] + 1 < pos[k + 1]
<1> DEFINE S == ToSet(G)
           states == ByEvent(G, "allocator_source_summary")
           deltas == ByEvent(G, "allocator_source_delta")
<1>1. /\ Len(F) \in Nat /\ Len(G) = Len(F) + w /\ w \in {0, 1}
      /\ pos[k] \in Nat /\ pos[k + 1] \in Nat /\ 2 <= pos[k] /\ pos[k + 1] <= Len(F) + 1
  BY PageNumbers
<1>2. G \in Seq(S) /\ \A i \in 1 .. Len(F) : G[i] = F[i]
  BY DEF FileIs
<1> HIDE DEF S, states, deltas
<1>3. \A i \in Page(pos, k) : i \in 1 .. Len(F) /\ i \in 1 .. Len(G) /\ i \in Nat
  <2> SUFFICES ASSUME NEW i \in Page(pos, k) PROVE i \in 1 .. Len(F) /\ i \in 1 .. Len(G) /\ i \in Nat
    OBVIOUS
  <2>1. i \in Int /\ pos[k] <= i /\ i <= pos[k + 1] - 1
    BY <1>1 DEF Page
  <2> QED BY <1>1, <2>1
<1>4. at[k] \in Nat /\ pos[k] < at[k]
      /\ \A i \in Page(pos, k) :
           /\ F[i].kind = "allocator_source_summary" <=> i = at[k]
           /\ F[i].kind = "allocator_source_delta" <=> i = at[k] + 1
           /\ i = at[k] => F[i].body = sum[k]
  BY DEF Summed, Page
<1>5. PICK i \in 1 .. Len(G) : G[i].kind = "allocator_source_delta" /\ G[i].event = k
  BY <1>2, ByEventTold DEF deltas
<1>6. i \in Page(pos, k)
  BY <1>5, FileTold
<1>7. i = at[k] + 1
  BY <1>2, <1>3, <1>4, <1>5, <1>6
<1>8. at[k] \in Page(pos, k) /\ at[k] + 1 < pos[k + 1]
  BY <1>1, <1>4, <1>6, <1>7 DEF Page
<1>9. G[at[k]].kind = "allocator_source_summary" /\ G[at[k]].event = k /\ at[k] \in 1 .. Len(G)
  <2>1. at[k] \in 1 .. Len(G) /\ G[at[k]] = F[at[k]]
    BY <1>2, <1>3, <1>8
  <2> QED BY <1>4, <1>8, <2>1, FileTold
<1>10. k \in DOMAIN states
  BY <1>2, <1>9, ByEventTold DEF states
<1>11. PICK j \in 1 .. Len(G) :
         G[j].kind = "allocator_source_summary" /\ G[j].event = k /\ states[k] = G[j].body
  BY <1>2, <1>10, ByEventTold DEF states
<1>12. j \in Page(pos, k)
  BY <1>11, FileTold
<1>13. G[j] = F[j] /\ j = at[k]
  BY <1>2, <1>3, <1>4, <1>11, <1>12
<1> QED BY <1>4, <1>8, <1>10, <1>11, <1>12, <1>13 DEF states

\* Nothing is counted of a file that tells of no sources.
LEMMA CountsUnread ==
  ASSUME NEW G, NEW F, NEW n, NEW pos, NEW w, FileIs(G, F, n, pos, w), Unsummed(F)
  PROVE  DOMAIN ByEvent(G, "allocator_source_delta") = {}
<1> DEFINE S == ToSet(G)
<1> SUFFICES ASSUME NEW k \in DOMAIN ByEvent(G, "allocator_source_delta") PROVE FALSE
  OBVIOUS
<1>1. G \in Seq(S) /\ Len(G) = Len(F) + w /\ w \in {0, 1} /\ \A i \in 1 .. Len(F) : G[i] = F[i]
  BY DEF FileIs
<1>2. Len(F) \in Nat /\ DOMAIN F = 1 .. Len(F)
  BY DEF FileIs, Paged
<1> HIDE DEF S
<1>3. PICK i \in 1 .. Len(G) : G[i].kind = "allocator_source_delta"
  BY <1>1, ByEventTold
<1>4. i \in 1 .. Len(F)
  <2>1. i # Len(F) + 1
    BY <1>3, FileTold
  <2> QED BY <1>1, <1>2, <2>1
<1> QED BY <1>1, <1>2, <1>3, <1>4 DEF Unsummed

\* What the i-th record adds to a count.
Gain(file, i, count) ==
  IF file[i].kind = "allocator_source_delta" THEN file[i].body[count] ELSE 0

Adding(f, file, m, count) ==
  f[0] = 0 /\ \A i \in 1 .. m : f[i] = f[i - 1] + Gain(file, i, count)

\* The deltas add up record by record.
LEMMA AddingRuns ==
  ASSUME NEW file, NEW k, Until(file, k) \in Nat, NEW count
  PROVE  \E f : /\ Adding(f, file, Until(file, k), count)
                /\ DeltaSum(file, k, count) = f[Until(file, k)]
<1> DEFINE N == Until(file, k)
           Value(f, i) == IF i = 0 THEN 0 ELSE f[i - 1] + Gain(file, i, count)
           Upto(f, m) == f = [i \in 0 .. m |-> Value(f, i)]
           S == {m \in 0 .. N : \E f : Upto(f, m)}
           g == CHOOSE f : Upto(f, N)
<1>1. DeltaSum(file, k, count) = g[N]
  BY DEF DeltaSum, Gain
<1> HIDE DEF N
<1>2. N \in Nat
  BY DEF N
<1>3. 0 \in S
  <2>1. Upto([i \in 0 .. 0 |-> 0], 0)
    OBVIOUS
  <2> HIDE DEF Upto
  <2> QED BY <1>2, <2>1
<1>4. ASSUME NEW m \in 0 .. N - 1, m \in S PROVE m + 1 \in S
  <2>1. PICK f : Upto(f, m)
    BY <1>4
  <2>2. m \in Nat /\ DOMAIN f = 0 .. m
    BY <1>2, <2>1
  <2> DEFINE last == f[m] + Gain(file, m + 1, count)
             h == [i \in 0 .. m + 1 |-> IF i = m + 1 THEN last ELSE f[i]]
  <2>3. \A i \in 0 .. m : h[i] = f[i]
    BY <2>2
  <2>4. h[m + 1] = last
    BY <2>2
  <2>5. ASSUME NEW i \in 0 .. m + 1 PROVE h[i] = Value(h, i)
    <3>1. CASE i = 0
      <4>1. f[0] = 0
        BY <2>1, <2>2
      <4> QED BY <2>2, <2>3, <3>1, <4>1
    <3>2. CASE i \in 1 .. m
      <4>1. h[i] = f[i] /\ h[i - 1] = f[i - 1]
        BY <2>2, <2>3, <3>2
      <4>2. f[i] = f[i - 1] + Gain(file, i, count)
        BY <2>1, <2>2, <3>2
      <4> HIDE DEF h
      <4> QED BY <2>2, <3>2, <4>1, <4>2
    <3>3. CASE i = m + 1
      <4>1. h[m] = f[m] /\ i - 1 = m /\ i # 0
        BY <2>2, <2>3, <3>3
      <4> HIDE DEF h
      <4> QED BY <2>4, <3>3, <4>1
    <3> QED BY <2>2, <3>1, <3>2, <3>3
  <2>6. Upto(h, m + 1)
    <3>1. h = [i \in 0 .. m + 1 |-> h[i]]
      OBVIOUS
    <3> HIDE DEF h, Value
    <3> QED BY <2>5, <3>1
  <2> HIDE DEF Upto, h
  <2> QED BY <1>2, <2>2, <2>6
<1>5. N \in S
  <2> HIDE DEF S
  <2>1. \A m \in 0 .. N : m \in S
    BY <1>2, <1>3, <1>4, Induct
  <2> QED BY <1>2, <2>1
<1>6. Upto(g, N)
  <2> HIDE DEF Upto
  <2> QED BY <1>5
<1>7. g[0] = 0 /\ \A i \in 1 .. N : g[i] = g[i - 1] + Gain(file, i, count)
  <2> HIDE DEF g
  <2> QED BY <1>2, <1>6
<1> HIDE DEF g
<1> QED BY <1>1, <1>7 DEF Adding, N
\* The count that the deltas of the pages up to a record add up to.
Count(sum, at, j, i, count) ==
  IF j = 0 \/ i > at[j] THEN sum[j][count] ELSE sum[j - 1][count]

\* What a record on a page of a trace adds to a count.
LEMMA GainTold ==
  ASSUME NEW F, NEW n, NEW pos, Paged(F, n, pos), NEW at, NEW sum, Summed(F, n, pos, at, sum),
         NEW count \in Counts, NEW j \in 0 .. n, NEW i \in Page(pos, j), i # 0
  PROVE  Gain(F, i, count) =
           IF j # 0 /\ i = at[j] + 1 THEN sum[j][count] - sum[j - 1][count] ELSE 0
<1>1. n \in Nat /\ \A m \in 0 .. n + 1 : pos[m] \in Nat
  BY PagePlaces
<1>2. CASE j = 0
  <2>1. i = 1 /\ F[1].kind = "session_start"
    <3>1. pos[0] = 0 /\ pos[1] = 2 /\ F[1].kind = "session_start"
      BY DEF Paged
    <3>2. i \in 0 .. 1
      BY <1>2, <3>1 DEF Page
    <3> QED BY <3>1, <3>2
  <2> QED BY <1>2, <2>1 DEF Gain
<1>3. CASE j # 0
  <2>1. j \in 1 .. n /\ i \in pos[j] .. pos[j + 1] - 1
    BY <1>1, <1>3 DEF Page
  <2>2. /\ F[i].kind = "allocator_source_delta" <=> i = at[j] + 1
        /\ i = at[j] + 1 => F[i].body[count] = sum[j][count] - sum[j - 1][count]
    BY <2>1 DEF Summed
  <2> QED BY <1>3, <2>2 DEF Gain
<1> QED BY <1>2, <1>3

\* From a record of a trace to the next, the count moves by what the next adds.
LEMMA CountMoves ==
  ASSUME NEW F, NEW n, NEW pos, Paged(F, n, pos), NEW at, NEW sum, Summed(F, n, pos, at, sum),
         NEW count \in Counts, NEW j \in 0 .. n, NEW i \in Nat, i + 1 \in Page(pos, j)
  PROVE  \E l \in 0 .. n :
           /\ i \in Page(pos, l)
           /\ Count(sum, at, j, i + 1, count) = Count(sum, at, l, i, count) + Gain(F, i + 1, count)
<1>1. /\ n \in Nat /\ pos[0] = 0 /\ \A m \in 0 .. n + 1 : pos[m] \in Nat
      /\ \A m \in 0 .. n : /\ m + 1 \in 0 .. n + 1 /\ m \in 0 .. n + 1
                           /\ pos[m] < pos[m + 1] /\ pos[m] \in Page(pos, m)
  BY PagePlaces
<1>2. /\ \A m \in 0 .. n : sum[m] \in [Counts -> Nat]
      /\ \A m \in 1 .. n : at[m] \in Nat /\ pos[m] < at[m] /\ (m < n => at[m] + 1 < pos[m + 1])
  BY DEF Summed
<1>3. i + 1 # 0 /\ pos[j] \in Nat /\ pos[j + 1] \in Nat /\ j \in Nat
      /\ pos[j] <= i + 1 /\ i + 1 < pos[j + 1]
  BY <1>1 DEF Page
<1>4. Gain(F, i + 1, count) =
        IF j # 0 /\ i + 1 = at[j] + 1 THEN sum[j][count] - sum[j - 1][count] ELSE 0
  BY <1>3, GainTold
<1>5. sum[j][count] \in Nat
  BY <1>2
<1>6. CASE i + 1 = pos[j]
  <2>1. j # 0
    BY <1>1, <1>3, <1>6
  <2> DEFINE l == j - 1
  <2>2. l \in 0 .. n /\ j \in 1 .. n /\ l + 1 = j /\ l < n
    BY <1>1, <1>3, <2>1
  <2>3. pos[l] \in Nat /\ pos[l] < pos[l + 1] /\ i \in Page(pos, l)
    <3>1. pos[l] \in Nat /\ pos[l] < pos[l + 1]
      BY <1>1, <2>2
    <3>2. i = pos[l + 1] - 1 /\ pos[l] <= i
      BY <1>3, <1>6, <2>2, <3>1
    <3> HIDE DEF l
    <3> QED BY <1>3, <2>2, <3>1, <3>2 DEF Page
  <2>4. at[j] \in Nat /\ i + 1 < at[j]
    BY <1>2, <1>6, <2>2
  <2>5. Gain(F, i + 1, count) = 0 /\ Count(sum, at, j, i + 1, count) = sum[l][count]
    <3>1. ~(i + 1 = at[j] + 1) /\ ~(i + 1 > at[j])
      BY <2>4
    <3> QED BY <1>4, <2>1, <3>1 DEF Count
  <2>6. Count(sum, at, l, i, count) = sum[l][count]
    <3>1. CASE l = 0
      BY <3>1 DEF Count
    <3>2. CASE l # 0
      <4>1. l \in 1 .. n
        BY <1>1, <2>2, <3>2
      <4>2. at[l] \in Nat /\ at[l] + 1 < pos[j]
        BY <1>2, <2>2, <4>1
      <4>3. i > at[l]
        BY <1>3, <1>6, <4>2
      <4> QED BY <4>3 DEF Count
    <3> QED BY <3>1, <3>2
  <2>7. sum[l][count] \in Nat
    BY <1>2, <2>2
  <2> HIDE DEF l
  <2> QED BY <2>2, <2>3, <2>5, <2>6, <2>7
<1>7. CASE i + 1 # pos[j]
  <2>1. i \in Page(pos, j)
    BY <1>3, <1>7 DEF Page
  <2>2. CASE j = 0
    <3>1. Count(sum, at, j, i + 1, count) = sum[j][count] /\ Count(sum, at, j, i, count) = sum[j][count]
      BY <2>2 DEF Count
    <3> QED BY <1>4, <1>5, <2>1, <2>2, <3>1
  <2>3. CASE j # 0
    <3>1. j \in 1 .. n /\ j - 1 \in 0 .. n
      BY <1>1, <1>3, <2>3
    <3>2. at[j] \in Nat /\ sum[j - 1][count] \in Nat
      BY <1>2, <3>1
    <3>3. CASE i = at[j]
      <4>1. i + 1 > at[j] /\ ~(i > at[j]) /\ i + 1 = at[j] + 1
        BY <3>2, <3>3
      <4>2. /\ Count(sum, at, j, i + 1, count) = sum[j][count]
            /\ Count(sum, at, j, i, count) = sum[j - 1][count]
        BY <2>3, <4>1 DEF Count
      <4>3. Gain(F, i + 1, count) = sum[j][count] - sum[j - 1][count]
        BY <1>4, <2>3, <4>1
      <4>4. sum[j][count] = sum[j - 1][count] + (sum[j][count] - sum[j - 1][count])
        BY <1>5, <3>2
      <4> QED BY <2>1, <4>2, <4>3, <4>4
    <3>4. CASE i # at[j]
      <4>1. (i + 1 > at[j] <=> i > at[j]) /\ i + 1 # at[j] + 1
        BY <3>2, <3>4
      <4>2. Count(sum, at, j, i + 1, count) = Count(sum, at, j, i, count)
        BY <2>3, <4>1 DEF Count
      <4>3. Gain(F, i + 1, count) = 0
        BY <1>4, <4>1
      <4>4. Count(sum, at, j, i, count) \in Nat
        BY <1>5, <3>2 DEF Count
      <4> QED BY <2>1, <4>2, <4>3, <4>4
    <3> QED BY <3>3, <3>4
  <2> QED BY <2>2, <2>3
<1> QED BY <1>6, <1>7

\* The deltas up to the end of an event add up to what was summed up of it.
LEMMA DeltasRead ==
  ASSUME NEW G, NEW F, NEW n, NEW pos, NEW w, FileIs(G, F, n, pos, w), NEW k \in 1 .. n,
         NEW at, NEW sum, Summed(F, n, pos, at, sum), at[k] + 1 < pos[k + 1], NEW count \in Counts
  PROVE  DeltaSum(G, k, count) = sum[k][count]
<1> DEFINE u == Until(G, k)
           l == Len(F)
<1>1. /\ n \in Nat /\ Len(F) \in Nat /\ Len(G) = Len(F) + w /\ w \in {0, 1}
      /\ pos[k] \in Nat /\ pos[k + 1] \in Nat /\ 2 <= pos[k] /\ pos[k] < pos[k + 1]
      /\ pos[k + 1] <= Len(F) + 1 /\ (k = n => pos[k + 1] = Len(F) + 1)
  BY PageNumbers
<1>2. u = IF k = n THEN Len(G) ELSE pos[k + 1] - 1
  BY EventPlaces
<1> HIDE DEF u, l
<1>3. u \in Nat /\ l \in Nat /\ (u = pos[k + 1] - 1 \/ (u = pos[k + 1] /\ u = l + 1)) /\ pos[k + 1] - 1 <= l
  <2>1. l \in Nat /\ Len(G) = l + w /\ w \in {0, 1} /\ pos[k + 1] <= l + 1 /\ (k = n => pos[k + 1] = l + 1)
    BY <1>1 DEF l
  <2>2. PICK p \in Nat : p = pos[k + 1]
    BY <1>1
  <2>3. u = IF k = n THEN l + w ELSE p - 1
    BY <1>2, <2>1, <2>2
  <2>4. 0 < p
    BY <1>1, <2>2
  <2>5. u \in Nat /\ (u = p - 1 \/ (u = p /\ u = l + 1)) /\ p - 1 <= l
    BY ONLY <2>1, <2>2, <2>3, <2>4
  <2> QED BY <2>1, <2>2, <2>5
<1>4. PICK f : Adding(f, G, u, count) /\ DeltaSum(G, k, count) = f[u]
  BY <1>3, AddingRuns DEF u
<1>5. /\ Paged(F, n, pos) /\ \A i \in 1 .. l : G[i] = F[i]
      /\ w = 1 => G[l + 1] = SessionEnd(n)
  BY DEF FileIs, l
<1> DEFINE N == pos[k + 1] - 1
           S == {i \in 0 .. N : \A j \in 0 .. n :
                   i \in Page(pos, j) => f[i] = Count(sum, at, j, i, count)}
<1>6. N \in Nat /\ N <= u /\ N <= l
  BY <1>1, <1>3
<1>7. 0 \in S
  <2>1. f[0] = 0 /\ sum[0][count] = 0
    BY <1>4 DEF Adding, Summed
  <2>2. \A j \in 0 .. n : 0 \in Page(pos, j) => j = 0
    <3>1. 0 \in Page(pos, 0) /\ 0 \in 0 .. n
      BY <1>1, <1>5, PagePlaces
    <3> QED BY <1>5, <3>1, PagesApart
  <2>3. Count(sum, at, 0, 0, count) = sum[0][count]
    BY DEF Count
  <2> HIDE DEF N
  <2> QED BY <1>6, <2>1, <2>2, <2>3
<1>8. ASSUME NEW i \in 0 .. N - 1, i \in S PROVE i + 1 \in S
  <2>1. i \in Nat /\ i + 1 \in 0 .. N /\ i + 1 \in 1 .. u /\ i + 1 \in 1 .. l
    <3> HIDE DEF N
    <3> QED BY <1>3, <1>6
  <2>2. ASSUME NEW j \in 0 .. n, i + 1 \in Page(pos, j)
        PROVE  f[i + 1] = Count(sum, at, j, i + 1, count)
    <3>1. PICK m \in 0 .. n :
            /\ i \in Page(pos, m)
            /\ Count(sum, at, j, i + 1, count) =
                 Count(sum, at, m, i, count) + Gain(F, i + 1, count)
      BY <1>5, <2>1, <2>2, CountMoves
    <3>2. f[i] = Count(sum, at, m, i, count)
      BY <1>8, <3>1
    <3>3. f[i + 1] = f[i] + Gain(G, i + 1, count)
      <4>1. i + 1 - 1 = i
        BY <2>1
      <4> QED BY <1>4, <2>1, <4>1 DEF Adding
    <3>4. Gain(G, i + 1, count) = Gain(F, i + 1, count)
      BY <1>5, <2>1 DEF Gain
    <3> QED BY <3>1, <3>2, <3>3, <3>4
  <2> HIDE DEF N
  <2> QED BY <2>1, <2>2
<1> HIDE DEF S
<1>9. N \in S
  <2> HIDE DEF N
  <2>1. \A i \in 0 .. N : i \in S
    BY <1>6, <1>7, <1>8, Induct
  <2> QED BY <1>6, <2>1
<1>10. at[k] \in Nat /\ sum[k][count] \in Nat
  <2>1. k \in 0 .. n
    BY <1>1
  <2> QED BY <2>1 DEF Summed
<1>11. f[N] = sum[k][count]
  <2>1. k \in 0 .. n /\ N \in Page(pos, k)
    BY <1>1 DEF Page
  <2>2. N > at[k]
    BY <1>1, <1>10
  <2>3. Count(sum, at, k, N, count) = sum[k][count]
    BY <2>2 DEF Count
  <2> HIDE DEF N
  <2> QED BY <1>9, <2>1, <2>3 DEF S
<1>12. CASE u = N
  BY <1>4, <1>11, <1>12
<1>13. CASE u # N
  <2>1. u = l + 1 /\ u - 1 = N /\ u \in 1 .. u
    BY <1>1, <1>3, <1>13
  <2>2. w = 1 /\ u \in 1 .. Len(G)
    <3>1. k = n
      BY <1>2, <1>13
    <3> QED BY <1>1, <1>2, <2>1, <3>1 DEF l
  <2>3. f[u] = f[N] + Gain(G, u, count)
    BY <1>4, <2>1 DEF Adding
  <2>4. G[u].kind = "session_end"
    BY <1>5, <2>1, <2>2 DEF SessionEnd, Record
  <2>5. Gain(G, u, count) = 0
    BY <2>4 DEF Gain
  <2> HIDE DEF N
  <2> QED BY <1>4, <1>10, <1>11, <2>3, <2>5
<1> QED BY <1>12, <1>13
-----------------------------------------------------------------------------
(* What is told of a file as a whole                                       *)

\* What is told of an event is what was written of it.
LEMMA EventTells ==
  ASSUME NEW G, NEW F, NEW n, NEW pos, NEW w, FileIs(G, F, n, pos, w), NEW k \in 1 .. n,
         (\E at, sum : Summed(F, n, pos, at, sum)) \/ Unsummed(F)
  PROVE  TellsEvent(G, FromRecords(G), k)
<1> DEFINE s == FromRecords(G)
           entry == s.events[k]
<1>1. /\ s.records = G /\ s.events = EventEntries(G)
      /\ s.states = ByEvent(G, "allocator_source_summary")
      /\ s.deltas = ByEvent(G, "allocator_source_delta")
  BY DEF FromRecords
<1> HIDE DEF s
<1>2. entry = [id |-> k, index |-> pos[k]]
  <2>1. s.events = [j \in 1 .. n |-> [id |-> j, index |-> pos[j]]]
    <3>1. EventEntries(G) = [j \in 1 .. n |-> [id |-> j, index |-> pos[j]]]
      BY EventsRead
    <3> QED BY <1>1, <3>1
  <2> QED BY <2>1
<1> HIDE DEF entry
<1>3. entry.id = k /\ entry.index = PlaceOf(G, k)
  BY <1>2, EventPlaces
<1>4. \A c : Same(RelatedText(s, k, c), Texts(Following(G, k), c))
  BY <1>1, TextsRead
<1>5. ASSUME k \in DOMAIN s.deltas, NEW count \in Counts
      PROVE  TimelineLine(s, entry).counts[count] = DeltaSum(G, k, count)
  <2>1. PICK at, sum : Summed(F, n, pos, at, sum)
    BY <1>1, <1>5, CountsUnread
  <2>2. k \in DOMAIN s.states /\ s.states[k] = sum[k] /\ at[k] + 1 < pos[k + 1]
    BY <1>1, <1>5, <2>1, CountsRead
  <2>3. DeltaSum(G, k, count) = sum[k][count]
    BY <2>1, <2>2, DeltasRead
  <2>4. TimelineLine(s, entry).counts = s.states[k]
    BY <1>2, <2>2 DEF TimelineLine
  <2> QED BY <2>2, <2>3, <2>4
<1> QED BY <1>3, <1>4, <1>5 DEF TellsEvent, entry, s

\* A key leaves an event selected.
LEMMA SelectedIn ==
  ASSUME NEW s, NEW n \in Nat, EventCount(s) = n, NEW selected \in 0 .. n - 1, NEW key \in Keys
  PROVE  Selected(s, key, selected) \in 0 .. n - 1
<1>1. Most(n - 1, 0) = n - 1 /\ selected \in Nat /\ n - 1 \in Nat
  BY DEF Most
<1>2. \A i \in Nat : Least(i, n - 1) \in 0 .. n - 1
  BY <1>1 DEF Least
<1>3. \A i \in Int : i <= n - 1 => Most(i, 0) \in 0 .. n - 1
  BY <1>1 DEF Most
<1>4. /\ selected + 1 \in Nat /\ selected + 10 \in Nat /\ selected - 1 \in Int /\ selected - 10 \in Int
      /\ selected - 1 <= n - 1 /\ selected - 10 <= n - 1 /\ 0 \in 0 .. n - 1 /\ n - 1 \in 0 .. n - 1
  BY <1>1
<1>5. Selected(s, key, selected) \in
        {Least(selected + 1, n - 1), Least(selected + 10, n - 1), Most(selected - 1, 0),
         Most(selected - 10, 0), 0, n - 1}
  BY <1>1 DEF Selected, Keys
<1>6. /\ Least(selected + 1, n - 1) \in 0 .. n - 1 /\ Least(selected + 10, n - 1) \in 0 .. n - 1
      /\ Most(selected - 1, 0) \in 0 .. n - 1 /\ Most(selected - 10, 0) \in 0 .. n - 1
  BY <1>2, <1>3, <1>4
<1> QED BY <1>4, <1>5, <1>6

\* What is selected is among the lines shown.
LEMMA OffsetShows ==
  ASSUME NEW n \in Nat, NEW next \in 0 .. n - 1, NEW rows \in Nat \ {0}
  PROVE  LET from == Offset(next, rows, n)
         IN  /\ from \in Nat /\ from <= next /\ next + 1 <= from + rows
             /\ Most(rows, 1) = rows
             /\ Least(from + rows, n) \in next + 1 .. n
<1> DEFINE from == Offset(next, rows, n)
<1>1. from \in Nat /\ from <= next /\ next + 1 <= from + rows
  <2>1. CASE n <= rows
    BY <2>1 DEF Offset
  <2>2. CASE ~(n <= rows)
    <3>1. from = Least(Most(next - (rows - 1), 0), n - rows)
      BY <2>2 DEF Offset
    <3> HIDE DEF from
    <3>2. CASE next - (rows - 1) > 0
      <4>1. Most(next - (rows - 1), 0) = next - (rows - 1)
        BY <3>2 DEF Most
      <4>2. from = next - (rows - 1) \/ (from = n - rows /\ n - rows <= next - (rows - 1))
        BY <2>2, <3>1, <4>1 DEF Least
      <4> QED BY <2>2, <3>2, <4>2
    <3>3. CASE ~(next - (rows - 1) > 0)
      <4>1. Most(next - (rows - 1), 0) = 0
        BY <3>3 DEF Most
      <4>2. from = 0
        BY <2>2, <3>1, <4>1 DEF Least
      <4> QED BY <3>3, <4>2
    <3> QED BY <3>2, <3>3
  <2> QED BY <2>1, <2>2
<1> HIDE DEF from
<1>2. Most(rows, 1) = rows
  BY DEF Most
<1>3. Least(from + rows, n) \in next + 1 .. n
  BY <1>1 DEF Least
<1> QED BY <1>1, <1>2, <1>3 DEF from

\* Whatever is selected is on a line of the timeline.
LEMMA TimelineTells ==
  ASSUME NEW G, NEW F, NEW n, NEW pos, NEW w, FileIs(G, F, n, pos, w)
  PROVE  TellsTimeline(FromRecords(G)) /\ EventCount(FromRecords(G)) = n
<1> DEFINE s == FromRecords(G)
           E == [k \in 1 .. n |-> [id |-> k, index |-> pos[k]]]
           S == ToSet(E)
<1>1. s.events = E
  BY EventsRead DEF FromRecords
<1>2. n \in Nat
  BY PagePlaces DEF FileIs
<1>3. E \in Seq(S) /\ Len(E) = n /\ \A k \in 1 .. n : E[k].id = k
  BY <1>2 DEF ToSet
<1> HIDE DEF s, E, S
<1>4. EventCount(s) = n
  BY <1>1, <1>3 DEF EventCount
<1>5. ASSUME NEW selected \in 0 .. n - 1, NEW rows \in 1 .. 3, NEW key \in Keys
      PROVE  LET next == Selected(s, key, selected)
             IN  /\ next \in 0 .. n - 1
                 /\ \E line \in ToSet(Timeline(s, next, rows)) : line.id = s.events[next + 1].id
  <2>1. PICK next \in 0 .. n - 1 : next = Selected(s, key, selected)
    BY <1>2, <1>4, SelectedIn
  <2>2. PICK from \in Nat : from = Offset(next, rows, n)
    BY <1>2, OffsetShows
  <2>3. PICK to \in Nat : to = Least(from + Most(rows, 1), n)
    <3>1. rows \in Nat \ {0}
      OBVIOUS
    <3>2. Most(rows, 1) = rows /\ Least(from + rows, n) \in next + 1 .. n
      BY <1>2, <2>2, <3>1, OffsetShows
    <3> QED BY <1>2, <3>2
  <2>4. from <= next /\ next + 1 <= to /\ to <= n /\ next \in Nat
    <3>1. rows \in Nat \ {0}
      OBVIOUS
    <3>2. /\ from <= next /\ Most(rows, 1) = rows /\ Least(from + rows, n) \in next + 1 .. n
      BY <1>2, <2>2, <3>1, OffsetShows
    <3> QED BY <1>2, <2>3, <3>2
  <2>5. PICK b \in Nat : b = from + 1
    OBVIOUS
  <2> DEFINE shown == SubSeq(E, b, to)
             i == next + 1 - from
             lines == Timeline(s, next, rows)
  <2>6. shown \in Seq(S) /\ Len(shown) = to - from /\ \A j \in 1 .. to - from : shown[j] = E[from + j]
    <3>1. \A j \in b .. to : E[j] \in S
      BY <1>3, <2>4, <2>5
    <3>2. b <= to /\ to - b + 1 = to - from
      BY <2>4, <2>5
    <3>3. /\ shown \in Seq(S) /\ Len(shown) = to - b + 1
          /\ \A j \in 1 .. to - b + 1 : shown[j] = E[b + j - 1]
      BY <1>3, <2>4, <2>5, <3>1, <3>2
    <3>4. \A j \in 1 .. to - from : b + j - 1 = from + j
      BY <2>4, <2>5
    <3> HIDE DEF shown
    <3> QED BY <3>2, <3>3, <3>4
  <2>7. lines = [j \in DOMAIN shown |-> TimelineLine(s, shown[j])]
    BY <1>1, <1>4, <2>1, <2>2, <2>3, <2>5 DEF Timeline
  <2> HIDE DEF shown, lines
  <2>8. i \in 1 .. to - from /\ from + i = next + 1 /\ next + 1 \in 1 .. n
    BY <1>2, <2>4
  <2> HIDE DEF i
  <2>9. i \in DOMAIN shown /\ shown[i] = E[next + 1]
    <3>1. DOMAIN shown = 1 .. Len(shown)
      BY <2>6
    <3> QED BY <2>6, <2>8, <3>1
  <2>10. lines[i] = TimelineLine(s, E[next + 1]) /\ lines[i] \in ToSet(lines)
    BY <2>7, <2>9 DEF ToSet
  <2>11. lines[i].id = E[next + 1].id
    BY <2>10 DEF TimelineLine
  <2> QED BY <1>1, <2>1, <2>10, <2>11 DEF lines
<1> QED BY <1>4, <1>5 DEF TellsTimeline, s

\* The ends of a file: it starts with the first record, and what ends it is there where
\* it is whole.
LEMMA EndsRead ==
  ASSUME NEW G, NEW F, NEW n, NEW pos, NEW w, FileIs(G, F, n, pos, w)
  PROVE  /\ StartOf(G) = <<G[1]>>
         /\ EndOf(G) = IF w = 1 THEN <<SessionEnd(n)>> ELSE <<>>
<1> DEFINE S == ToSet(G)
           l == Len(F)
           I == {i \in DOMAIN G : G[i].kind = "session_start"}
           J == {i \in DOMAIN G : G[i].kind = "session_end"}
<1>1. /\ G \in Seq(S) /\ Len(G) = l + w /\ w \in {0, 1} /\ (w = 1 => G[l + 1] = SessionEnd(n))
  BY DEF FileIs
<1>2. l \in Nat \ {0}
  BY PagePlaces DEF FileIs
<1> HIDE DEF S, l
<1>3. DOMAIN G = 1 .. Len(G) /\ Len(G) \in Nat /\ 1 <= Len(G) /\ l + w <= Len(G) /\ w \in Nat
  BY <1>1, <1>2
<1>4. /\ \A i \in 1 .. Len(G) : i \in I <=> (0 + 1 <= i /\ i <= 0 + 1)
      /\ \A i \in 1 .. Len(G) : i \in J <=> (l + 1 <= i /\ i <= l + w)
  <2> SUFFICES ASSUME NEW i \in 1 .. Len(G)
               PROVE  /\ G[i].kind = "session_start" <=> (1 <= i /\ i <= 1)
                      /\ G[i].kind = "session_end" <=> (l + 1 <= i /\ i <= l + w)
    BY <1>3
  <2>1. (G[i].kind = "session_start" <=> i = 1) /\ (G[i].kind = "session_end" <=> i = l + 1)
    BY FileTold DEF l
  <2>2. i \in Nat /\ 1 <= i /\ i <= l + w
    BY <1>1, <1>2
  <2>3. (1 <= i /\ i <= 1 <=> i = 1) /\ (l + 1 <= i /\ i <= l + w <=> i = l + 1)
    BY <1>1, <1>2, <2>2
  <2> QED BY <2>1, <2>3
<1>5. OfKind(G, "session_start") = Picked(G, I) /\ OfKind(G, "session_end") = Picked(G, J)
  BY DEF OfKind
<1> HIDE DEF I, J
<1>6. Picked(G, I) = [r \in 1 .. 1 |-> G[r]]
  <2> DEFINE a == 0
             m == 1
  <2>1. a \in Int /\ m \in Nat /\ 0 <= a /\ a + m <= Len(G)
    BY <1>3
  <2>2. \A i \in 1 .. Len(G) : i \in I <=> (a + 1 <= i /\ i <= a + m)
    BY <1>4
  <2> HIDE DEF a, m
  <2>3. Picked(G, I) = [r \in 1 .. m |-> G[a + r]]
    BY <1>1, <2>1, <2>2, PickedRun
  <2>4. \A r \in 1 .. 1 : a + r = r
    BY DEF a
  <2> QED BY <2>3, <2>4 DEF m
<1>7. Picked(G, J) = [r \in 1 .. w |-> G[l + r]]
  <2>1. l \in Int /\ 0 <= l
    BY <1>2
  <2> QED BY <1>1, <1>3, <1>4, <2>1, PickedRun
<1>8. StartOf(G) = <<G[1]>>
  <2>1. PICK v : v = Picked(G, I)
    OBVIOUS
  <2>2. v = <<G[1]>>
    BY <1>6, <2>1
  <2>3. v # <<>> /\ Head(v) = G[1]
    BY <2>2
  <2> QED BY <1>5, <2>1, <2>3 DEF StartOf
<1>9. CASE w = 1
  <2>1. PICK v : v = Picked(G, J)
    OBVIOUS
  <2>2. v = <<G[l + 1]>>
    <3>1. v = [r \in 1 .. 1 |-> G[l + r]]
      BY <1>7, <1>9, <2>1
    <3>2. PICK x : x = G[l + 1]
      OBVIOUS
    <3>3. v = [r \in 1 .. 1 |-> x]
      <4>1. \A r \in 1 .. 1 : l + r = l + 1
        OBVIOUS
      <4> QED BY <3>1, <3>2, <4>1
    <3> QED BY <3>2, <3>3
  <2>3. v # <<>> /\ Len(v) = 1 /\ v[1] = SessionEnd(n)
    BY <1>1, <1>9, <2>2
  <2>4. Last(v) = SessionEnd(n)
    BY <2>3 DEF Last
  <2> QED BY <1>5, <1>8, <1>9, <2>1, <2>3, <2>4 DEF EndOf
<1>10. CASE w = 0
  <2>1. Picked(G, J) = <<>>
    BY <1>7, <1>10
  <2> QED BY <1>5, <1>8, <1>10, <2>1 DEF EndOf
<1> QED BY <1>1, <1>9, <1>10

\* A whole file is rendered as it is.
LEMMA WholeRendered ==
  ASSUME NEW G, NEW F, NEW n, NEW pos, FileIs(G, F, n, pos, 1), NEW c
  PROVE  Same(Rendered(FromRecords(G), c), Texts(G, c))
<1> DEFINE S == ToSet(G)
           l == Len(F)
           I == {i \in DOMAIN G : G[i].kind \notin Ends}
           middle == Picked(G, I)
<1>1. G \in Seq(S) /\ Len(G) = l + 1 /\ G[l + 1] = SessionEnd(n)
  BY DEF FileIs
<1>2. l \in Nat \ {0}
  BY PagePlaces DEF FileIs
<1> HIDE DEF S, l
<1>3. DOMAIN G = 1 .. Len(G) /\ l - 1 \in Nat
  BY <1>1, <1>2
<1>4. \A i \in 1 .. Len(G) : i \in I <=> (2 <= i /\ i <= l)
  <2> SUFFICES ASSUME NEW i \in 1 .. Len(G) PROVE G[i].kind \notin Ends <=> (2 <= i /\ i <= l)
    BY <1>3
  <2>1. (G[i].kind = "session_start" <=> i = 1) /\ (G[i].kind = "session_end" <=> i = l + 1)
    BY FileTold DEF l
  <2>2. i \in Nat /\ 1 <= i /\ i <= l + 1
    BY <1>1, <1>2
  <2>3. (2 <= i /\ i <= l) <=> (i # 1 /\ i # l + 1)
    BY <1>2, <2>2
  <2> QED BY <2>1, <2>3 DEF Ends
<1> HIDE DEF I
<1>5. middle = [r \in 1 .. l - 1 |-> G[1 + r]]
  <2> DEFINE a == 1
             m == l - 1
  <2>1. a \in Int /\ m \in Nat /\ 0 <= a /\ a + m <= Len(G) /\ a + m = l /\ a + 1 = 2
    BY <1>1, <1>2
  <2>2. \A i \in 1 .. Len(G) : i \in I <=> (a + 1 <= i /\ i <= a + m)
    BY <1>4, <2>1
  <2> HIDE DEF a, m
  <2>3. G \in Seq(S) /\ a \in Int /\ m \in Nat /\ 0 <= a /\ a + m <= Len(G)
    BY <1>1, <2>1
  <2>4. Picked(G, I) = [r \in 1 .. m |-> G[a + r]]
    BY <2>2, <2>3, PickedRun, SMTT(20)
  <2> QED BY <2>4 DEF a, m
<1>6. middle \in Seq(S) /\ Len(middle) = l - 1 /\ \A r \in 1 .. l - 1 : middle[r] = G[1 + r]
  <2>1. \A r \in 1 .. l - 1 : G[1 + r] \in S
    BY <1>1, <1>2
  <2> HIDE DEF middle
  <2> QED BY <1>3, <1>5, <2>1
<1> HIDE DEF middle
<1>7. G[1] \in S /\ G[l + 1] \in S
  BY <1>1, <1>2
<1>8. <<G[1]>> \o middle \o <<G[l + 1]>> = G
  <2>1. PICK x \in S, z \in S : x = G[1] /\ z = G[l + 1]
    BY <1>7
  <2> DEFINE o == <<x>>
             e == <<z>>
             v == o \o middle
             u == v \o e
  <2>2. o \in Seq(S) /\ e \in Seq(S) /\ Len(o) = 1 /\ Len(e) = 1 /\ o[1] = x /\ e[1] = z
    OBVIOUS
  <2> HIDE DEF o, e
  <2>3. /\ v \in Seq(S) /\ Len(v) = l
        /\ \A i \in 1 .. l : v[i] = IF i = 1 THEN x ELSE middle[i - 1]
    <3>1. /\ v \in Seq(S) /\ Len(v) = Len(o) + Len(middle)
          /\ \A i \in 1 .. Len(o) + Len(middle) : v[i] = IF i <= Len(o) THEN o[i] ELSE middle[i - Len(o)]
      BY <1>6, <2>2, Concatenated
    <3> HIDE DEF v
    <3> QED BY <1>2, <1>6, <2>2, <3>1
  <2> HIDE DEF v
  <2>5. Len(u) = l + 1 /\ \A i \in 1 .. l + 1 : u[i] = IF i <= l THEN v[i] ELSE z
    <3>1. /\ u \in Seq(S) /\ Len(u) = Len(v) + Len(e)
          /\ \A i \in 1 .. Len(v) + Len(e) : u[i] = IF i <= Len(v) THEN v[i] ELSE e[i - Len(v)]
      BY <2>2, <2>3, Concatenated
    <3> HIDE DEF u
    <3> QED BY <1>2, <2>2, <2>3, <3>1
  <2>6. u \in Seq(S)
    BY <2>2, <2>3
  <2> HIDE DEF u
  <2>7. ASSUME NEW i \in 1 .. l + 1 PROVE u[i] = G[i]
    <3>1. i \in Nat
      BY <1>2
    <3>2. CASE i = 1
      BY <1>2, <2>1, <2>3, <2>5, <3>2
    <3>3. CASE i = l + 1
      BY <1>2, <2>1, <2>5, <3>3
    <3>4. CASE i # 1 /\ i # l + 1
      <4>1. i - 1 \in 1 .. l - 1 /\ 1 + (i - 1) = i /\ i \in 1 .. l
        BY <1>2, <3>1, <3>4
      <4>2. u[i] = middle[i - 1]
        BY <2>3, <2>5, <3>4, <4>1
      <4> QED BY <1>6, <4>1, <4>2
    <3> QED BY <3>2, <3>3, <3>4
  <2>8. u = G
    <3>1. u = [i \in 1 .. l + 1 |-> u[i]] /\ G = [i \in 1 .. l + 1 |-> G[i]]
      BY <1>1, <2>5, <2>6
    <3> QED BY <2>7, <3>1
  <2> QED BY <2>1, <2>8 DEF u, v, o, e
<1>9. StartOf(G) = <<G[1]>> /\ EndOf(G) = <<G[l + 1]>>
  BY <1>1, EndsRead
<1>10. Rendered(FromRecords(G), c) = Texts(G, c)
  <2> DEFINE s == FromRecords(G)
  <2>1. s.records = G /\ s.start = <<G[1]>> /\ s.end = <<G[l + 1]>>
    BY <1>9 DEF FromRecords
  <2> HIDE DEF s
  <2>2. Rendered(s, c) = Texts(s.start \o middle \o s.end, c)
    BY <2>1 DEF Rendered, middle, I
  <2>3. Rendered(s, c) = Texts(G, c)
    BY <1>8, <2>1, <2>2
  <2> QED BY <2>3 DEF s
<1> QED BY <1>10 DEF Same
-----------------------------------------------------------------------------
(* What is read of a file                                                  *)

\* Every line of a trace is loaded, and of one with a line cut short nothing.
LEMMA Loaded ==
  ASSUME NEW S, NEW h \in Seq(S)
  PROVE  LET lines == [i \in 1 .. Len(h) |-> Line(h[i])]
         IN  Load(lines) = h /\ Load(Append(lines, Broken)) = None
<1> DEFINE m == Len(h)
           lines == [i \in 1 .. m |-> Line(h[i])]
           T == {Line(x) : x \in S}
           I == {i \in DOMAIN lines : lines[i].text = "whole"}
           whole == Picked(lines, I)
<1>1. m \in Nat /\ h = [i \in 1 .. m |-> h[i]] /\ \A i \in 1 .. m : h[i] \in S
  OBVIOUS
<1> HIDE DEF m, T
<1>2. \A i \in 1 .. m : Line(h[i]) \in T
  BY <1>1 DEF T
<1>3. lines \in Seq(T) /\ Len(lines) = m /\ DOMAIN lines = 1 .. m
      /\ \A i \in 1 .. m : lines[i] = Line(h[i])
  BY <1>1, <1>2
<1> HIDE DEF lines
<1>4. \A i \in 1 .. m : lines[i].text = "whole" /\ lines[i].record = h[i]
  BY <1>3 DEF Line
<1>5. \A i \in 1 .. m : i \in I
  BY <1>3, <1>4
<1> HIDE DEF I
<1>6. whole = [r \in 1 .. m |-> lines[r]]
  <2> DEFINE a == 0
  <2>1. a \in Int /\ 0 <= a /\ a + m <= Len(lines)
    BY <1>1, <1>3
  <2>2. \A i \in 1 .. Len(lines) : i \in I <=> (a + 1 <= i /\ i <= a + m)
    BY <1>1, <1>3, <1>5
  <2> HIDE DEF a
  <2>3. whole = [r \in 1 .. m |-> lines[a + r]]
    BY <1>1, <1>3, <2>1, <2>2, PickedRun
  <2>4. \A r \in 1 .. m : a + r = r
    BY <1>1 DEF a
  <2> HIDE DEF whole
  <2> QED BY <2>3, <2>4
<1> HIDE DEF whole
<1>7. Load(lines) = h
  <2>1. Records(lines) = [i \in DOMAIN whole |-> whole[i].record]
    BY DEF Records, whole, I
  <2>2. DOMAIN whole = 1 .. m /\ \A i \in 1 .. m : whole[i].record = h[i]
    BY <1>4, <1>6
  <2>3. Records(lines) = [i \in 1 .. m |-> h[i]]
    BY <2>1, <2>2
  <2> QED BY <1>1, <1>3, <1>4, <2>3 DEF Load
<1>8. Load(Append(lines, Broken)) = None
  <2> DEFINE U == T \cup {Broken}
  <2>1. lines \in Seq(U) /\ Broken \in U
    BY <1>3
  <2> HIDE DEF U
  <2>2. /\ Append(lines, Broken) \in Seq(U) /\ Len(Append(lines, Broken)) = m + 1
        /\ Append(lines, Broken)[m + 1] = Broken
    BY <1>3, <2>1, Appended
  <2>3. m + 1 \in DOMAIN Append(lines, Broken)
    <3>1. PICK v \in Seq(U) : v = Append(lines, Broken)
      BY <2>2
    <3> QED BY <1>1, <2>2, <3>1
  <2> QED BY <2>2, <2>3 DEF Load, Broken
<1> QED BY <1>7, <1>8 DEF lines, m

\* What of a file is records.
ReadOf(F, n, k) == [i \in 1 .. k |-> IF i <= Len(F) THEN F[i] ELSE SessionEnd(n)]

\* A file that is whole is the trace and the end of its session.
LEMMA WholeFile ==
  ASSUME NEW F, NEW n, NEW pos, Paged(F, n, pos)
  PROVE  FileIs(ReadOf(F, n, Len(F) + 1), F, n, pos, 1)
<1> DEFINE l == Len(F)
           G == ReadOf(F, n, l + 1)
<1>1. l \in Nat
  BY DEF Paged
<1> HIDE DEF l
<1>2. G = [i \in 1 .. l + 1 |-> IF i <= l THEN F[i] ELSE SessionEnd(n)]
  BY DEF ReadOf, l
<1>3. G \in Seq(ToSet(G)) /\ Len(G) = l + 1 /\ (\A i \in 1 .. l : G[i] = F[i]) /\ G[l + 1] = SessionEnd(n)
  <2> HIDE DEF G
  <2>1. DOMAIN G = 1 .. l + 1 /\ l + 1 \in Nat /\ G = [i \in 1 .. l + 1 |-> G[i]]
    BY <1>1, <1>2
  <2>2. \A i \in 1 .. l + 1 : G[i] \in ToSet(G)
    BY <2>1 DEF ToSet
  <2>3. G \in Seq(ToSet(G)) /\ Len(G) = l + 1
    BY <2>1, <2>2
  <2> QED BY <1>1, <1>2, <2>3
<1> HIDE DEF G
<1> QED BY <1>3 DEF FileIs, G, l

\* A file that is cut within what was written of the last event has the events all the same.
LEMMA CutFile ==
  ASSUME NEW F, NEW n, NEW pos, Paged(F, n, pos), NEW k \in Nat, k <= Len(F),
         IF n = 0 THEN 1 <= k ELSE pos[n] <= k
  PROVE  LET H == ReadOf(F, n, k)
             cut == [pos EXCEPT ![n + 1] = k + 1]
         IN  /\ FileIs(H, H, n, cut, 0)
             /\ \A at, sum : Summed(F, n, pos, at, sum) => Summed(H, n, cut, at, sum)
             /\ Unsummed(F) => Unsummed(H)
<1> DEFINE H == ReadOf(F, n, k)
           cut == [pos EXCEPT ![n + 1] = k + 1]
<1>1. /\ n \in Nat /\ Len(F) \in Nat \ {0} /\ pos[n + 1] = Len(F) + 1 /\ pos[0] = 0 /\ pos[1] = 2
      /\ \A j \in 0 .. n + 1 : pos[j] \in Nat /\ pos[j] <= Len(F) + 1
      /\ \A i, j \in 0 .. n + 1 : i < j => pos[i] < pos[j]
      /\ \A j \in 0 .. n : j + 1 \in 0 .. n + 1 /\ j \in 0 .. n + 1
  BY PagePlaces
<1>2. pos \in [0 .. n + 1 -> Nat] /\ F \in Seq(ToSet(F)) /\ F[1].kind = "session_start"
  BY DEF Paged
<1>3. DOMAIN H = 1 .. k /\ \A i \in 1 .. k : H[i] = F[i]
  BY <1>1 DEF ReadOf
<1>4. H \in Seq(ToSet(H)) /\ Len(H) = k
  <2>1. H = [i \in 1 .. k |-> H[i]]
    BY DEF ReadOf
  <2>2. \A i \in 1 .. k : H[i] \in ToSet(H)
    BY <1>3 DEF ToSet
  <2> HIDE DEF H
  <2> QED BY <2>1, <2>2
<1>5. /\ cut \in [0 .. n + 1 -> Nat] /\ cut[n + 1] = k + 1 /\ \A j \in 0 .. n : cut[j] = pos[j]
  <2>1. n + 1 \in 0 .. n + 1 /\ \A j \in 0 .. n : j # n + 1 /\ j \in 0 .. n + 1
    BY <1>1
  <2> QED BY <1>2, <2>1
<1> HIDE DEF H, cut
<1>6. \A j \in 0 .. n : cut[j + 1] <= pos[j + 1] /\ cut[j + 1] <= k + 1
      /\ (j < n => cut[j + 1] = pos[j + 1]) /\ cut[j + 1] \in Nat
  <2> SUFFICES ASSUME NEW j \in 0 .. n
               PROVE  /\ cut[j + 1] <= pos[j + 1] /\ cut[j + 1] <= k + 1
                      /\ (j < n => cut[j + 1] = pos[j + 1]) /\ cut[j + 1] \in Nat
    OBVIOUS
  <2>1. CASE j = n
    <3>1. cut[j + 1] = k + 1 /\ pos[j + 1] = Len(F) + 1
      BY <1>1, <1>5, <2>1
    <3> QED BY <1>1, <2>1, <3>1
  <2>2. CASE j # n
    <3>1. j + 1 \in 0 .. n /\ n \in 0 .. n + 1 /\ j + 1 \in 0 .. n + 1 /\ n # 0 /\ (j + 1 = n \/ j + 1 < n)
      BY <1>1, <2>2
    <3>2. pos[j + 1] \in Nat /\ pos[n] \in Nat /\ pos[j + 1] <= pos[n] /\ pos[n] <= k
      BY <1>1, <3>1
    <3>3. cut[j + 1] = pos[j + 1]
      BY <1>5, <3>1
    <3> QED BY <3>2, <3>3
  <2> QED BY <2>1, <2>2
<1>7. \A i, j \in 0 .. n + 1 : i < j => cut[i] < cut[j]
  <2> SUFFICES ASSUME NEW i \in 0 .. n + 1, NEW j \in 0 .. n + 1, i < j PROVE cut[i] < cut[j]
    OBVIOUS
  <2>1. i \in 0 .. n /\ n \in 0 .. n + 1 /\ (i = n \/ i < n)
    BY <1>1
  <2>2. CASE j = n + 1
    <3>1. pos[i] \in Nat /\ pos[n] \in Nat /\ pos[i] <= pos[n]
      BY <1>1, <2>1
    <3>2. pos[n] <= k
      BY <1>1
    <3> QED BY <1>5, <2>1, <2>2, <3>1, <3>2
  <2>3. CASE j # n + 1
    <3>1. j \in 0 .. n
      BY <1>1, <2>3
    <3> QED BY <1>1, <1>5, <2>1, <3>1
  <2> QED BY <2>2, <2>3
<1>8. cut[0] = 0 /\ cut[1] = 2
  <2>1. 0 \in 0 .. n
    BY <1>1
  <2>2. CASE n = 0
    <3>1. Len(F) = 1
      <4>1. n + 1 = 1
        BY <2>2
      <4>2. pos[1] = Len(F) + 1
        BY <1>1, <4>1
      <4>3. PICK l \in Nat : l = Len(F)
        BY <1>1
      <4>4. l + 1 = 2
        BY <1>1, <4>2, <4>3
      <4> QED BY <4>3, <4>4
    <3>2. k = 1 /\ cut[1] = k + 1
      BY <1>5, <2>2, <3>1
    <3> QED BY <1>1, <1>5, <2>1, <3>2
  <2>3. CASE n # 0
    <3>1. 1 \in 0 .. n
      BY <1>1, <2>3
    <3> QED BY <1>1, <1>5, <2>1, <3>1
  <2> QED BY <2>2, <2>3
<1>9. \A j \in 0 .. n : \A i \in cut[j] .. cut[j + 1] - 1 :
        i \in pos[j] .. pos[j + 1] - 1 /\ i <= k /\ i \in Nat
  <2> SUFFICES ASSUME NEW j \in 0 .. n, NEW i \in cut[j] .. cut[j + 1] - 1
               PROVE  i \in pos[j] .. pos[j + 1] - 1 /\ i <= k /\ i \in Nat
    OBVIOUS
  <2>1. cut[j] = pos[j] /\ pos[j] \in Nat /\ pos[j + 1] \in Nat
    BY <1>1, <1>5
  <2>2. cut[j + 1] <= pos[j + 1] /\ cut[j + 1] <= k + 1 /\ cut[j + 1] \in Nat
    BY <1>6
  <2> QED BY <2>1, <2>2
<1>10. Paged(H, n, cut)
  <2>1. Len(H) = cut[n + 1] - 1 /\ H[1].kind = "session_start"
    <3>1. 1 <= k
      <4>1. n # 0 => n \in 0 .. n + 1 /\ 0 \in 0 .. n + 1 /\ 0 < n
        BY <1>1
      <4>2. n # 0 => pos[0] < pos[n] /\ pos[n] \in Nat
        BY <1>1, <4>1
      <4> QED BY <1>1, <4>2
    <3> QED BY <1>2, <1>3, <1>4, <1>5, <3>1
  <2>2. ASSUME NEW j \in 0 .. n, NEW i \in cut[j] .. cut[j + 1] - 1, i # 0
        PROVE  /\ H[i].kind \in Ends <=> i = 1
               /\ H[i].kind = "event" <=> i = cut[j]
               /\ H[i].event = IF j = 0 THEN None ELSE j
    <3>1. i \in pos[j] .. pos[j + 1] - 1 /\ i \in 1 .. k
      BY <1>9, <2>2
    <3>2. H[i] = F[i] /\ cut[j] = pos[j]
      BY <1>3, <1>5, <3>1
    <3>3. /\ F[i].kind \in Ends <=> i = 1
          /\ F[i].kind = "event" <=> i = pos[j]
          /\ F[i].event = IF j = 0 THEN None ELSE j
      BY <2>2, <3>1 DEF Paged
    <3> QED BY <3>2, <3>3
  <2> QED BY <1>1, <1>4, <1>5, <1>7, <1>8, <2>1, <2>2 DEF Paged
<1>11. FileIs(H, H, n, cut, 0)
  BY <1>4, <1>10 DEF FileIs
<1>12. ASSUME NEW at, NEW sum, Summed(F, n, pos, at, sum) PROVE Summed(H, n, cut, at, sum)
  <2>1. /\ at \in [1 .. n -> Nat] /\ sum \in [0 .. n -> [Counts -> Nat]]
        /\ \A c \in Counts : sum[0][c] = 0
    BY <1>12 DEF Summed
  <2>2. ASSUME NEW j \in 1 .. n PROVE cut[j] < at[j] /\ (j < n => at[j] + 1 < cut[j + 1])
    <3>1. j \in 0 .. n
      BY <1>1
    <3>2. cut[j] = pos[j] /\ (j < n => cut[j + 1] = pos[j + 1])
      BY <1>5, <1>6, <3>1
    <3> QED BY <1>12, <3>2 DEF Summed
  <2>3. ASSUME NEW j \in 1 .. n, NEW i \in cut[j] .. cut[j + 1] - 1
        PROVE  /\ H[i].kind = "allocator_source_summary" <=> i = at[j]
               /\ H[i].kind = "allocator_source_delta" <=> i = at[j] + 1
               /\ i = at[j] => H[i].body = sum[j]
               /\ i = at[j] + 1 => \A c \in Counts : H[i].body[c] = sum[j][c] - sum[j - 1][c]
    <3>1. j \in 0 .. n /\ 0 \in 0 .. n + 1 /\ j \in 0 .. n + 1 /\ 0 < j
      BY <1>1
    <3>2. i \in pos[j] .. pos[j + 1] - 1 /\ i <= k /\ i \in Nat /\ 0 < pos[j] /\ pos[j] \in Nat
      BY <1>1, <1>9, <3>1
    <3>3. H[i] = F[i]
      BY <1>3, <3>2
    <3> QED BY <1>12, <3>2, <3>3 DEF Summed
  <2> QED BY <2>1, <2>2, <2>3 DEF Summed
<1>13. ASSUME Unsummed(F) PROVE Unsummed(H)
  <2>1. \A i \in 1 .. k : i \in DOMAIN F
    BY <1>1, <1>2
  <2> QED BY <1>3, <1>13, <2>1 DEF Unsummed
<1> QED BY <1>11, <1>12, <1>13 DEF H, cut
-----------------------------------------------------------------------------
(* Every trace, whole or cut, is read back                                 *)

\* The files of a trace, as they are loaded.
LEMMA FileLoaded ==
  ASSUME records \in Seq(ToSet(records)), NEW k \in Nat
  PROVE  /\ Load(FileOf(k)) = ReadOf(records, events, k)
         /\ Load(Append(FileOf(k), Broken)) = None
<1> DEFINE h == ReadOf(records, events, k)
           S == ToSet(h)
<1>1. h = [i \in 1 .. k |-> h[i]] /\ DOMAIN h = 1 .. k
  BY DEF ReadOf
<1>2. \A i \in 1 .. k : Line(IF i <= Len(records) THEN records[i] ELSE SessionEnd(events)) = Line(h[i])
  BY DEF ReadOf
<1> HIDE DEF h
<1>3. \A i \in 1 .. k : h[i] \in S
  BY <1>1 DEF ToSet
<1> HIDE DEF S
<1>4. h \in Seq(S) /\ Len(h) = k
  BY <1>1, <1>3
<1>5. FileOf(k) = [i \in 1 .. Len(h) |-> Line(h[i])]
  BY <1>2, <1>4 DEF FileOf
<1> QED BY <1>4, <1>5, Loaded DEF h

\* A trace of so many events, whole or cut, is read back as what it is.
LEMMA BookedTells ==
  ASSUME WritesTrace, Trace(records, events, summary)
  PROVE  ReplayTellsTrace
<1> DEFINE F == records
           n == events
           l == Len(records)
<1>1. PICK pos :
        /\ Paged(F, n, pos)
        /\ WarningsOn => \E at, sum : Summed(F, n, pos, at, sum)
        /\ ~WarningsOn => Unsummed(F)
  BY DEF Trace
<1>2. /\ n \in Nat /\ l \in Nat \ {0} /\ F \in Seq(ToSet(F))
      /\ \A k \in 1 .. n : pos[k] \in Nat
  <2>1. /\ n \in Nat /\ l \in Nat \ {0} /\ \A j \in 0 .. n + 1 : pos[j] \in Nat
        /\ \A j \in 1 .. n : j \in 0 .. n
    BY <1>1, PagePlaces
  <2>2. \A j \in 1 .. n : j \in 0 .. n + 1
    BY <2>1
  <2> QED BY <1>1, <2>1, <2>2 DEF Paged
<1>3. (\E at, sum : Summed(F, n, pos, at, sum)) \/ Unsummed(F)
  BY <1>1
<1> HIDE DEF F, n, l
<1>4. LET whole == FromRecords(Load(FileOf(l + 1)))
      IN  /\ \A k \in 1 .. n : TellsEvent(whole.records, whole, k)
          /\ TellsTimeline(whole)
          /\ Head(whole.end).body.count = EventCount(whole)
          /\ Same(Rendered(whole, OwnReplay), Texts(whole.records, OwnReplay))
  <2> DEFINE G == ReadOf(F, n, l + 1)
             s == FromRecords(G)
  <2>1. Load(FileOf(l + 1)) = G
    <3>1. l + 1 \in Nat
      BY <1>2
    <3> QED BY <1>2, <3>1, FileLoaded DEF F, n
  <2>2. FileIs(G, F, n, pos, 1)
    BY <1>1, WholeFile DEF l, F
  <2> HIDE DEF G
  <2>3. s.records = G /\ s.end = EndOf(G)
    BY DEF FromRecords
  <2> HIDE DEF s
  <2>4. \A k \in 1 .. n : TellsEvent(s.records, s, k)
    BY <1>3, <2>2, <2>3, EventTells DEF s
  <2>5. TellsTimeline(s) /\ EventCount(s) = n
    BY <2>2, TimelineTells DEF s
  <2>6. Head(s.end).body.count = n
    <3>1. s.end = <<SessionEnd(n)>>
      BY <2>2, <2>3, EndsRead
    <3>2. Head(s.end) = SessionEnd(n)
      BY <3>1
    <3> QED BY <3>2 DEF SessionEnd, Record
  <2>7. Same(Rendered(s, OwnReplay), Texts(s.records, OwnReplay))
    BY <2>2, <2>3, WholeRendered DEF s
  <2> QED BY <2>1, <2>4, <2>5, <2>6, <2>7 DEF s
<1>5. ASSUME NEW k \in (IF n = 0 THEN 1 ELSE PlaceOf(F, n)) .. l
      PROVE  LET cut == FromRecords(Load(FileOf(k)))
             IN  /\ EventCount(cut) = n /\ cut.end = <<>>
                 /\ n > 0 => TellsEvent(cut.records, cut, n)
                 /\ Load(Append(FileOf(k), Broken)) = None
  <2>1. n # 0 => PlaceOf(F, n) = pos[n] /\ pos[n] \in Nat
    <3>1. FileIs(F, F, n, pos, 0)
      BY <1>1, <1>2 DEF FileIs, l, F
    <3>2. n # 0 => n \in 1 .. n
      BY <1>2
    <3> QED BY <1>2, <3>1, <3>2, EventPlaces
  <2>2. k \in Nat /\ k <= l /\ IF n = 0 THEN 1 <= k ELSE pos[n] <= k
    BY <1>2, <2>1
  <2> DEFINE H == ReadOf(F, n, k)
             s == FromRecords(H)
             q == [pos EXCEPT ![n + 1] = k + 1]
  <2>3. Load(FileOf(k)) = H /\ Load(Append(FileOf(k), Broken)) = None
    BY <1>2, <2>2, FileLoaded DEF F, n
  <2>4. /\ FileIs(H, H, n, q, 0)
        /\ \A at, sum : Summed(F, n, pos, at, sum) => Summed(H, n, q, at, sum)
        /\ Unsummed(F) => Unsummed(H)
    <3>1. k <= Len(F)
      BY <2>2 DEF l, F
    <3> HIDE DEF F
    <3> QED BY <1>1, <2>2, <3>1, CutFile
  <2> HIDE DEF H, q
  <2>5. (\E at, sum : Summed(H, n, q, at, sum)) \/ Unsummed(H)
    BY <1>3, <2>4
  <2>6. s.records = H /\ s.end = EndOf(H)
    BY DEF FromRecords
  <2> HIDE DEF s
  <2>7. EventCount(s) = n
    BY <2>4, TimelineTells DEF s
  <2>8. s.end = <<>>
    BY <2>4, <2>6, EndsRead
  <2>9. n > 0 => TellsEvent(s.records, s, n)
    <3>1. n > 0 => n \in 1 .. n
      BY <1>2
    <3> QED BY <2>4, <2>5, <2>6, <3>1, EventTells DEF s
  <2> QED BY <2>3, <2>7, <2>8, <2>9 DEF s
<1> QED BY <1>4, <1>5 DEF ReplayTellsTrace, F, n, l

\* A trace cut after any record is read back as the session that had come so far: each
\* event once, in order and with what was written of it, the counts that its deltas add
\* up to, and a timeline that shows the event selected; a whole one also counts its
\* events and is rendered as it was told, and one cut within a record is not read at all
\* (replay.rs:67-189, app.rs:4634-4693, 6767-6913, allocator_sources.rs:272-297).
THEOREM ReplayAlways == Spec => []ReplayTellsTrace
<1>1. Booked => ReplayTellsTrace
  <2>1. CASE WritesTrace
    BY <2>1, BookedTells DEF Booked
  <2>2. CASE ~WritesTrace
    BY <2>2 DEF ReplayTellsTrace
  <2> QED BY <2>1, <2>2
<1> QED BY <1>1, BookAlways, PTL
=============================================================================
