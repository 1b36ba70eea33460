-------------------------- MODULE HeapEvidence_proofs --------------------------
(***************************************************************************)
(* What holds of the evidence whatever the program does and however the    *)
(* session is set up: the proofs of HeapEvidence's properties.             *)
(***************************************************************************)
EXTENDS CommandLine_proofs

-----------------------------------------------------------------------------
(* Counting                                                                *)

\* A step s taken again and again from b.
Iteration(f, D, b, s, N) ==
  f \in [0 .. N -> D] /\ f[0] = b /\ \A n \in 1 .. N : f[n] = s[f[n - 1]]

\* A step can be repeated any number of times.
LEMMA Iterates ==
  ASSUME NEW D, NEW b, NEW s, NEW N, b \in D, s \in [D -> D], N \in Nat
  PROVE  \E f : Iteration(f, D, b, s, N)
<1> DEFINE Good(f, m) == f \in [0 .. m -> D] /\ f[0] = b /\ \A n \in 1 .. m : f[n] = s[f[n - 1]]
           S == {m \in 0 .. N : \E f : Good(f, m)}
<1>1. 0 \in S
  <2>1. Good([n \in 0 .. 0 |-> b], 0)
    OBVIOUS
  <2> HIDE DEF Good
  <2> QED BY <2>1
<1>2. ASSUME NEW m \in 0 .. N - 1, m \in S PROVE m + 1 \in S
  <2>1. PICK f : Good(f, m)
    BY <1>2
  <2> DEFINE g == [n \in 0 .. m + 1 |-> IF n = m + 1 THEN s[f[m]] ELSE f[n]]
  <2>2. g \in [0 .. m + 1 -> D] /\ g[0] = b
    BY <2>1
  <2>3. ASSUME NEW n \in 1 .. m + 1 PROVE g[n] = s[g[n - 1]]
    <3>1. g[n - 1] = f[n - 1]
      OBVIOUS
    <3>2. CASE n = m + 1
      BY <3>1, <3>2
    <3>3. CASE n # m + 1
      BY <2>1, <3>1, <3>3
    <3> QED BY <3>2, <3>3
  <2>4. Good(g, m + 1)
    BY <2>2, <2>3
  <2> HIDE DEF Good, g
  <2> QED BY <2>4
<1> HIDE DEF S
<1>3. N \in S
  BY <1>1, <1>2, Induct
<1> QED BY <1>3 DEF S, Iteration

\* What takes the step s wherever that leads somewhere stays where s leads.
LEMMA Unfolds ==
  ASSUME NEW D, NEW b, NEW s, NEW N, b \in D, s \in [D -> D], N \in Nat,
         NEW g, DOMAIN g = 0 .. N, g = [n \in 0 .. N |-> g[n]], g[0] = b,
         \A n \in 1 .. N : g[n - 1] \in D => g[n] = s[g[n - 1]]
  PROVE  Iteration(g, D, b, s, N)
<1> DEFINE S == {n \in 0 .. N : g[n] \in D}
<1>1. 0 \in S
  OBVIOUS
<1>2. ASSUME NEW n \in 0 .. N - 1, n \in S PROVE n + 1 \in S
  <2>1. PICK m \in 1 .. N : m = n + 1
    OBVIOUS
  <2>2. m - 1 = n /\ g[m - 1] \in D
    BY <1>2, <2>1
  <2>3. g[m] = s[g[m - 1]]
    BY <2>2
  <2>4. g[m] \in D
    BY <2>2, <2>3
  <2> QED BY <2>1, <2>4
<1> HIDE DEF S
<1>3. \A n \in 0 .. N : n \in S
  BY <1>1, <1>2, Induct
<1>4. \A n \in 0 .. N : g[n] \in D
  BY <1>3 DEF S
<1>5. \A n \in 1 .. N : g[n] = s[g[n - 1]]
  <2>1. \A n \in 1 .. N : n - 1 \in 0 .. N
    OBVIOUS
  <2> QED BY <1>4, <2>1
<1> QED BY <1>4, <1>5 DEF Iteration

-----------------------------------------------------------------------------
(* The allocator                                                           *)

\* What was cut off the top.
Carved(h) == {c \in Slots : c < Top(h)}

Heaps == [lists : [Lists -> Seq(Slots)], carved : 0 .. Chunks, brk : Nat,
          bad : {None} \cup [at : Nat, word : Nat], skew : {0, 2}, class : Bins \ {"unsorted"}]

\* No chunk is in two places of the free lists.
OnePlace(lists) ==
  \A l, m \in Lists : \A i \in DOMAIN lists[l], j \in DOMAIN lists[m] :
    lists[l][i] = lists[m][j] => l = m /\ i = j

WellFormed(h) ==
  /\ h \in Heaps
  /\ \A l \in Lists : \A i \in DOMAIN h.lists[l] : h.lists[l][i] < Top(h)
  /\ OnePlace(h.lists)
  /\ h.carved = 0 => h.brk = Start /\ h.bad = None
  /\ h.carved > 0 => Enough(h.carved) <= h.brk
  /\ h.brk <= Enough(Chunks) /\ h.brk % 2 = 0

\* The chunk c leaves the free lists of h, or is cut off its top, which makes it g.
Serves(h, g, c) ==
  /\ WellFormed(g)
  /\ c \in Carved(g) /\ Carved(g) = Carved(h) \cup {c}
  /\ Free(g) = Free(h) \ {c}
  /\ c \in Free(h) \/ c \notin Carved(h)
  /\ g.bad = h.bad /\ g.skew = h.skew /\ g.class = h.class
  /\ h.brk <= g.brk /\ h.carved <= g.carved

\* The chunks and their places in memory.
LEMMA SlotsPlaced ==
  /\ \A c \in Slots : c \in Nat /\ 6 <= c /\ c <= 6 * Chunks /\ c % 2 = 0
  /\ \A k \in 1 .. Chunks : 6 * k \in Slots
  /\ \A c \in Slots : \E k \in 1 .. Chunks : c = 6 * k
<1> USE HeapBounds DEF Slots, Chunk, Unit
<1>1. \A k \in 1 .. Chunks : 6 * k \in Nat /\ 6 <= 6 * k /\ 6 * k <= 6 * Chunks /\ (6 * k) % 2 = 0
  OBVIOUS
<1> QED BY <1>1

\* What is free was cut off the top.
LEMMA FreeCarved ==
  ASSUME NEW h, WellFormed(h)
  PROVE  /\ Free(h) \subseteq Carved(h)
         /\ \A c \in Free(h) : \E l \in Lists : \E i \in DOMAIN h.lists[l] : h.lists[l][i] = c
         /\ \A l \in Lists : \A i \in DOMAIN h.lists[l] : h.lists[l][i] \in Free(h)
         /\ \A l \in Lists : h.lists[l] \in Seq(Slots)
<1>1. \A l \in Lists : h.lists[l] \in Seq(Slots)
  BY DEF WellFormed, Heaps
<1>2. \A l \in Lists : \A i \in DOMAIN h.lists[l] : h.lists[l][i] \in Slots /\ h.lists[l][i] < Top(h)
  BY <1>1 DEF WellFormed
<1> QED BY <1>1, <1>2 DEF Free, ToSet, Carved

\* The other way round: Reverse is a sequence of the same elements.
LEMMA Reversed ==
  ASSUME NEW S, NEW s \in Seq(S)
  PROVE  /\ Reverse(s) \in Seq(S) /\ Len(Reverse(s)) = Len(s)
         /\ DOMAIN Reverse(s) = 1 .. Len(s)
         /\ \A i \in 1 .. Len(s) : Reverse(s)[i] = s[Len(s) - i + 1]
<1>1. \A i \in 1 .. Len(s) : Len(s) - i + 1 \in 1 .. Len(s) /\ s[Len(s) - i + 1] \in S
  OBVIOUS
<1>2. Reverse(s) \in Seq(S) /\ Len(Reverse(s)) = Len(s)
  BY <1>1 DEF Reverse
<1> QED BY <1>1, <1>2 DEF Reverse

\* The first chunks go to the tcache, the last of them first.
LEMMA Stashed ==
  ASSUME NEW S, NEW r \in Seq(S)
  PROVE  \E n \in 0 .. Len(r) :
           /\ Stash(r).tcache \in Seq(S) /\ Len(Stash(r).tcache) = n
           /\ \A i \in 1 .. n : Stash(r).tcache[i] = r[n + 1 - i]
           /\ Stash(r).rest \in Seq(S) /\ Len(Stash(r).rest) = Len(r) - n
           /\ \A i \in 1 .. Len(r) - n : Stash(r).rest[i] = r[n + i]
<1> DEFINE n == IF Len(r) < TcacheMax THEN Len(r) ELSE TcacheMax
           p == SubSeq(r, 1, n)
<1>1. n \in 0 .. Len(r)
  BY BoundsAreNumbers
<1>2. Stash(r).tcache = Reverse(p) /\ Stash(r).rest = SubSeq(r, n + 1, Len(r))
  BY DEF Stash
<1> HIDE DEF n
<1>3. p \in Seq(S) /\ Len(p) = n /\ \A i \in 1 .. n : p[i] = r[i]
  BY <1>1
<1> HIDE DEF p
<1>4. /\ Reverse(p) \in Seq(S) /\ Len(Reverse(p)) = n
      /\ \A i \in 1 .. n : Reverse(p)[i] = p[n - i + 1]
  BY <1>3, Reversed
<1>5. \A i \in 1 .. n : Reverse(p)[i] = r[n + 1 - i]
  <2> SUFFICES ASSUME NEW i \in 1 .. n PROVE Reverse(p)[i] = r[n + 1 - i]
    OBVIOUS
  <2>1. n - i + 1 \in 1 .. n /\ n - i + 1 = n + 1 - i
    BY <1>1
  <2> QED BY <1>3, <1>4, <2>1
<1>6. /\ SubSeq(r, n + 1, Len(r)) \in Seq(S) /\ Len(SubSeq(r, n + 1, Len(r))) = Len(r) - n
      /\ \A i \in 1 .. Len(r) - n : SubSeq(r, n + 1, Len(r))[i] = r[n + i]
  BY <1>1
<1> QED BY <1>1, <1>2, <1>4, <1>5, <1>6

\* Whatever is the same of two heaps but their lists.
SameButLists(h, g) ==
  /\ g.carved = h.carved /\ g.brk = h.brk /\ g.bad = h.bad /\ g.skew = h.skew /\ g.class = h.class

\* A heap that differs in its lists only is well formed when they are.
LEMMA Relisted ==
  ASSUME NEW h, WellFormed(h), NEW lists \in [Lists -> Seq(Slots)], OnePlace(lists),
         \A l \in Lists : \A i \in DOMAIN lists[l] : lists[l][i] < Top(h)
  PROVE  LET g == [h EXCEPT !.lists = lists]
         IN  WellFormed(g) /\ SameButLists(h, g) /\ g.lists = lists /\ Carved(g) = Carved(h)
<1> DEFINE g == [h EXCEPT !.lists = lists]
<1>1. g \in Heaps /\ SameButLists(h, g) /\ g.lists = lists
  BY DEF WellFormed, Heaps, SameButLists
<1> HIDE DEF g
<1>2. Top(g) = Top(h) /\ Carved(g) = Carved(h)
  BY <1>1 DEF Top, Carved, SameButLists
<1>3. WellFormed(g)
  BY <1>1, <1>2 DEF WellFormed, SameButLists
<1> QED BY <1>1, <1>2, <1>3 DEF g

\* The chunk at place a of bin b is taken: p says where the chunks x that stay in the bin
\* were, q where those were that are in the tcache now.
Splits(old, a, x, y, p, q) ==
  /\ a \in DOMAIN old /\ x \in Seq(Slots) /\ y \in Seq(Slots)
  /\ \A i \in DOMAIN x : p[i] \in DOMAIN old \ {a} /\ x[i] = old[p[i]]
  /\ \A i \in DOMAIN y : q[i] \in DOMAIN old \ {a} /\ y[i] = old[q[i]]
  /\ \A i, j \in DOMAIN x : p[i] = p[j] => i = j
  /\ \A i, j \in DOMAIN y : q[i] = q[j] => i = j
  /\ \A i \in DOMAIN x, j \in DOMAIN y : p[i] # q[j]
  /\ \A j \in DOMAIN old \ {a} :
       (\E i \in DOMAIN x : p[i] = j) \/ (\E i \in DOMAIN y : q[i] = j)

\* What is taken from a bin is free no more, whatever of the bin goes to the tcache.
LEMMA TakenFromBin ==
  ASSUME NEW h, WellFormed(h), NEW b \in Bins, h.lists["tcache"] = <<>>,
         NEW a, NEW x, NEW y, NEW p, NEW q, Splits(h.lists[b], a, x, y, p, q)
  PROVE  Serves(h, [h EXCEPT !.lists[b] = x, !.lists["tcache"] = y], h.lists[b][a])
<1>0. /\ a \in DOMAIN h.lists[b] /\ x \in Seq(Slots) /\ y \in Seq(Slots)
      /\ \A i \in DOMAIN x : p[i] \in DOMAIN h.lists[b] \ {a} /\ x[i] = h.lists[b][p[i]]
      /\ \A i \in DOMAIN y : q[i] \in DOMAIN h.lists[b] \ {a} /\ y[i] = h.lists[b][q[i]]
      /\ \A i, j \in DOMAIN x : p[i] = p[j] => i = j
      /\ \A i, j \in DOMAIN y : q[i] = q[j] => i = j
      /\ \A i \in DOMAIN x, j \in DOMAIN y : p[i] # q[j]
      /\ \A j \in DOMAIN h.lists[b] \ {a} :
           (\E i \in DOMAIN x : p[i] = j) \/ (\E i \in DOMAIN y : q[i] = j)
  BY DEF Splits
<1> DEFINE lists == [h.lists EXCEPT ![b] = x, !["tcache"] = y]
           g == [h EXCEPT !.lists = lists]
           c == h.lists[b][a]
<1>1. h \in Heaps /\ h.lists \in [Lists -> Seq(Slots)] /\ OnePlace(h.lists) /\ b \in Lists
      /\ b # "tcache" /\ "tcache" \in Lists
  BY DEF WellFormed, Heaps, Lists, Bins
<1>2. [h EXCEPT !.lists[b] = x, !.lists["tcache"] = y] = g
  BY <1>1 DEF Heaps
<1>3. /\ lists \in [Lists -> Seq(Slots)]
      /\ lists[b] = x /\ lists["tcache"] = y
      /\ \A l \in Lists \ {b, "tcache"} : lists[l] = h.lists[l]
  BY <1>0, <1>1
<1> HIDE DEF lists
<1>x. \A u \in DOMAIN x : \E v \in DOMAIN h.lists[b] \ {a} : x[u] = h.lists[b][v]
  BY <1>0
<1>y. \A u \in DOMAIN y : \E v \in DOMAIN h.lists[b] \ {a} : y[u] = h.lists[b][v]
  BY <1>0
<1>z. ASSUME NEW k \in {b, "tcache"}, NEW u \in DOMAIN lists[k]
      PROVE  \E v \in DOMAIN h.lists[b] \ {a} : lists[k][u] = h.lists[b][v]
  <2>1. CASE k = b
    <3>1. lists[k] = x
      BY <1>3, <2>1
    <3> QED BY <1>x, <3>1
  <2>2. CASE k = "tcache"
    <3>1. lists[k] = y
      BY <1>3, <2>2
    <3> QED BY <1>y, <3>1
  <2> QED BY <2>1, <2>2
<1>4. OnePlace(lists)
  <2> SUFFICES ASSUME NEW l \in Lists, NEW m \in Lists,
                      NEW i \in DOMAIN lists[l], NEW j \in DOMAIN lists[m],
                      lists[l][i] = lists[m][j]
               PROVE  l = m /\ i = j
    BY DEF OnePlace
  <2>0. \A k, n \in Lists : \A u \in DOMAIN h.lists[k], v \in DOMAIN h.lists[n] :
          h.lists[k][u] = h.lists[n][v] => k = n /\ u = v
    BY <1>1 DEF OnePlace
  <2>1. CASE l = b /\ m = b
    <3>1. i \in DOMAIN x /\ j \in DOMAIN x /\ x[i] = x[j]
      BY <1>3, <2>1
    <3>2. /\ p[i] \in DOMAIN h.lists[b] /\ x[i] = h.lists[b][p[i]]
          /\ p[j] \in DOMAIN h.lists[b] /\ x[j] = h.lists[b][p[j]]
      BY <1>0, <3>1
    <3>3. h.lists[b][p[i]] = h.lists[b][p[j]]
      BY <3>1, <3>2
    <3>4. p[i] = p[j]
      BY <1>1, <2>0, <3>2, <3>3
    <3> QED BY <1>0, <2>1, <3>1, <3>4
  <2>2. CASE l = "tcache" /\ m = "tcache"
    <3>1. i \in DOMAIN y /\ j \in DOMAIN y /\ y[i] = y[j]
      BY <1>3, <2>2
    <3>2. /\ q[i] \in DOMAIN h.lists[b] /\ y[i] = h.lists[b][q[i]]
          /\ q[j] \in DOMAIN h.lists[b] /\ y[j] = h.lists[b][q[j]]
      BY <1>0, <3>1
    <3>3. h.lists[b][q[i]] = h.lists[b][q[j]]
      BY <3>1, <3>2
    <3>4. q[i] = q[j]
      BY <1>1, <2>0, <3>2, <3>3
    <3> QED BY <1>0, <2>2, <3>1, <3>4
  <2>3. CASE l = b /\ m = "tcache"
    <3>1. i \in DOMAIN x /\ j \in DOMAIN y /\ x[i] = y[j]
      BY <1>3, <2>3
    <3>2. /\ p[i] \in DOMAIN h.lists[b] /\ x[i] = h.lists[b][p[i]]
          /\ q[j] \in DOMAIN h.lists[b] /\ y[j] = h.lists[b][q[j]]
      BY <1>0, <3>1
    <3>3. h.lists[b][p[i]] = h.lists[b][q[j]]
      BY <3>1, <3>2
    <3>4. p[i] = q[j]
      BY <1>1, <2>0, <3>2, <3>3
    <3> QED BY <1>0, <2>3, <3>1, <3>4
  <2>4. CASE l = "tcache" /\ m = b
    <3>1. i \in DOMAIN y /\ j \in DOMAIN x /\ y[i] = x[j]
      BY <1>3, <2>4
    <3>2. /\ q[i] \in DOMAIN h.lists[b] /\ y[i] = h.lists[b][q[i]]
          /\ p[j] \in DOMAIN h.lists[b] /\ x[j] = h.lists[b][p[j]]
      BY <1>0, <3>1
    <3>3. h.lists[b][q[i]] = h.lists[b][p[j]]
      BY <3>1, <3>2
    <3>4. q[i] = p[j]
      BY <1>1, <2>0, <3>2, <3>3
    <3> QED BY <1>0, <2>4, <3>1, <3>4
  <2>5. CASE l \notin {b, "tcache"} /\ m \notin {b, "tcache"}
    BY <2>0, <2>5, <1>3, <1>1
  <2>6. CASE l \notin {b, "tcache"} /\ m \in {b, "tcache"}
    <3>1. i \in DOMAIN h.lists[l] /\ lists[l][i] = h.lists[l][i]
      BY <1>3, <2>6
    <3>2. PICK v \in DOMAIN h.lists[b] : lists[m][j] = h.lists[b][v]
      BY <2>6, <1>z
    <3>4. h.lists[l][i] = h.lists[b][v]
      BY <3>1, <3>2
    <3>3. l = b
      BY <1>1, <2>0, <3>1, <3>2, <3>4
    <3> QED BY <2>6, <3>3
  <2>7. CASE l \in {b, "tcache"} /\ m \notin {b, "tcache"}
    <3>1. j \in DOMAIN h.lists[m] /\ lists[m][j] = h.lists[m][j]
      BY <1>3, <2>7
    <3>2. PICK v \in DOMAIN h.lists[b] : lists[l][i] = h.lists[b][v]
      BY <2>7, <1>z
    <3>3. m = b
      BY <1>1, <2>0, <3>1, <3>2
    <3> QED BY <2>7, <3>3
  <2> QED BY <2>1, <2>2, <2>3, <2>4, <2>5, <2>6, <2>7
<1>5. \A l \in Lists : \A i \in DOMAIN lists[l] : lists[l][i] < Top(h)
  <2> SUFFICES ASSUME NEW l \in Lists, NEW i \in DOMAIN lists[l] PROVE lists[l][i] < Top(h)
    OBVIOUS
  <2>1. \E m \in Lists : \E j \in DOMAIN h.lists[m] : lists[l][i] = h.lists[m][j]
    <3>1. CASE l \in {b, "tcache"}
      BY <1>1, <1>z, <3>1
    <3>2. CASE l \notin {b, "tcache"}
      BY <1>3, <3>2
    <3> QED BY <3>1, <3>2
  <2> QED BY <2>1 DEF WellFormed
<1>6. WellFormed(g) /\ SameButLists(h, g) /\ g.lists = lists /\ Carved(g) = Carved(h)
  BY <1>3, <1>4, <1>5, Relisted
<1> HIDE DEF g
<1>7. c \in Free(h) /\ c \in Carved(h)
  BY <1>0, <1>1, FreeCarved
<1>8. Free(g) = Free(h) \ {c}
  <2>1. ASSUME NEW d \in Free(g) PROVE d \in Free(h) /\ d # c
    <3>1. PICK l \in Lists : \E i \in DOMAIN lists[l] : lists[l][i] = d
      BY <1>6, <2>1, FreeCarved
    <3>2. PICK i \in DOMAIN lists[l] : lists[l][i] = d
      BY <3>1
    <3>3. \E m \in Lists : \E j \in DOMAIN h.lists[m] : h.lists[m][j] = d /\ (m = b => j # a)
      <4>1. CASE l \in {b, "tcache"}
        <5>1. \E j \in DOMAIN h.lists[b] \ {a} : h.lists[b][j] = d
          BY <1>z, <3>2, <4>1
        <5> QED BY <1>1, <5>1
      <4>2. CASE l \notin {b, "tcache"}
        BY <1>3, <3>2, <4>2
      <4> QED BY <4>1, <4>2
    <3> QED BY <1>0, <1>1, <3>3, FreeCarved DEF OnePlace
  <2>2. ASSUME NEW d \in Free(h), d # c PROVE d \in Free(g)
    <3>1. PICK l \in Lists : \E i \in DOMAIN h.lists[l] : h.lists[l][i] = d
      BY <2>2, FreeCarved
    <3>2. PICK i \in DOMAIN h.lists[l] : h.lists[l][i] = d
      BY <3>1
    <3>3. \E m \in Lists : \E j \in DOMAIN lists[m] : lists[m][j] = d
      <4>1. CASE l = b
        <5>1. i \in DOMAIN h.lists[b] \ {a}
          BY <2>2, <3>2, <4>1
        <5>2. CASE \E u \in DOMAIN x : p[u] = i
          <6>1. PICK u \in DOMAIN x : p[u] = i
            BY <5>2
          <6>2. lists[b][u] = d /\ u \in DOMAIN lists[b]
            BY <1>0, <1>3, <3>2, <4>1, <6>1
          <6> QED BY <1>1, <6>2
        <5>3. CASE \E u \in DOMAIN y : q[u] = i
          <6>1. PICK u \in DOMAIN y : q[u] = i
            BY <5>3
          <6>2. lists["tcache"][u] = d /\ u \in DOMAIN lists["tcache"]
            BY <1>0, <1>3, <3>2, <4>1, <6>1
          <6> QED BY <1>1, <6>2
        <5> QED BY <1>0, <5>1, <5>2, <5>3
      <4>2. CASE l # b
        <5>1. l # "tcache"
          BY <3>2
        <5> QED BY <1>3, <3>2, <4>2, <5>1
      <4> QED BY <4>1, <4>2
    <3> QED BY <1>6, <3>3, FreeCarved
  <2> QED BY <2>1, <2>2
<1>9. h.brk \in Nat /\ h.carved \in Nat
  BY <1>1 DEF Heaps
<1>10. Serves(h, g, c)
  BY <1>6, <1>7, <1>8, <1>9 DEF Serves, SameButLists
<1> QED BY <1>2, <1>10

\* The first chunk of the tcache is taken.
LEMMA TakenFromTcache ==
  ASSUME NEW h, WellFormed(h), NEW s \in FromTcache(h)
  PROVE  Serves(h, s.heap, s.chunk)
<1> DEFINE t == h.lists["tcache"]
           lists == [h.lists EXCEPT !["tcache"] = Tail(t)]
           g == [h EXCEPT !.lists = lists]
<1>1. h \in Heaps /\ h.lists \in [Lists -> Seq(Slots)] /\ OnePlace(h.lists) /\ "tcache" \in Lists
  BY DEF WellFormed, Heaps, Lists
<1>2. t # <<>> /\ s.chunk = Head(t) /\ s.heap = [h EXCEPT !.lists["tcache"] = Tail(@)]
  BY DEF FromTcache
<1>3. s.heap = g
  BY <1>1, <1>2 DEF Heaps
<1>4. /\ Tail(t) \in Seq(Slots) /\ Head(t) = t[1] /\ 1 \in DOMAIN t
      /\ \A i \in DOMAIN Tail(t) : i + 1 \in DOMAIN t /\ Tail(t)[i] = t[i + 1] /\ i \in Nat
      /\ \A i \in DOMAIN t : i # 1 => i - 1 \in DOMAIN Tail(t) /\ Tail(t)[i - 1] = t[i]
  BY <1>1, <1>2
<1>5. /\ lists \in [Lists -> Seq(Slots)] /\ lists["tcache"] = Tail(t)
      /\ \A l \in Lists \ {"tcache"} : lists[l] = h.lists[l]
  BY <1>1, <1>4
<1> HIDE DEF lists
<1>6. OnePlace(lists)
  <2> SUFFICES ASSUME NEW l \in Lists, NEW m \in Lists,
                      NEW i \in DOMAIN lists[l], NEW j \in DOMAIN lists[m],
                      lists[l][i] = lists[m][j]
               PROVE  l = m /\ i = j
    BY DEF OnePlace
  <2>0. \A k, n \in Lists : \A u \in DOMAIN h.lists[k], v \in DOMAIN h.lists[n] :
          h.lists[k][u] = h.lists[n][v] => k = n /\ u = v
    BY <1>1 DEF OnePlace
  <2>1. CASE l = "tcache" /\ m = "tcache"
    <3>1. i + 1 \in DOMAIN t /\ j + 1 \in DOMAIN t /\ t[i + 1] = t[j + 1] /\ i \in Nat /\ j \in Nat
      BY <1>4, <1>5, <2>1
    <3>2. i + 1 = j + 1
      BY <1>1, <2>0, <3>1
    <3> QED BY <2>1, <3>1, <3>2
  <2>5. \A u \in DOMAIN lists["tcache"] : \E v \in DOMAIN t : lists["tcache"][u] = t[v]
    BY <1>4, <1>5
  <2>2. CASE l = "tcache" /\ m # "tcache"
    <3>1. j \in DOMAIN h.lists[m] /\ lists[m][j] = h.lists[m][j]
      BY <1>5, <2>2
    <3>2. PICK v \in DOMAIN t : lists[l][i] = t[v]
      BY <2>2, <2>5
    <3> QED BY <1>1, <2>0, <2>2, <3>1, <3>2
  <2>3. CASE l # "tcache" /\ m = "tcache"
    <3>1. i \in DOMAIN h.lists[l] /\ lists[l][i] = h.lists[l][i]
      BY <1>5, <2>3
    <3>2. PICK v \in DOMAIN t : lists[m][j] = t[v]
      BY <2>3, <2>5
    <3> QED BY <1>1, <2>0, <2>3, <3>1, <3>2
  <2>4. CASE l # "tcache" /\ m # "tcache"
    <3>1. lists[l] = h.lists[l] /\ lists[m] = h.lists[m]
      BY <1>5, <2>4
    <3> QED BY <2>0, <3>1
  <2> QED BY <2>1, <2>2, <2>3, <2>4
<1>7. \A l \in Lists : \A i \in DOMAIN lists[l] : lists[l][i] < Top(h)
  <2> SUFFICES ASSUME NEW l \in Lists, NEW i \in DOMAIN lists[l] PROVE lists[l][i] < Top(h)
    OBVIOUS
  <2>1. \E j \in DOMAIN h.lists[l] : lists[l][i] = h.lists[l][j]
    <3>1. CASE l = "tcache"
      BY <1>4, <1>5, <3>1, ZenonT(60)
    <3>2. CASE l # "tcache"
      BY <1>5, <3>2
    <3> QED BY <3>1, <3>2
  <2> QED BY <2>1 DEF WellFormed
<1>8. WellFormed(g) /\ SameButLists(h, g) /\ g.lists = lists /\ Carved(g) = Carved(h)
  BY <1>5, <1>6, <1>7, Relisted
<1> HIDE DEF g
<1>9. t[1] \in Free(h) /\ t[1] \in Carved(h)
  BY <1>1, <1>4, FreeCarved
<1>10. Free(g) = Free(h) \ {t[1]}
  <2>1. ASSUME NEW d \in Free(g) PROVE d \in Free(h) /\ d # t[1]
    <3>1. PICK l \in Lists : \E i \in DOMAIN lists[l] : lists[l][i] = d
      BY <1>8, <2>1, FreeCarved
    <3>2. PICK i \in DOMAIN lists[l] : lists[l][i] = d
      BY <3>1
    <3>3. \E j \in DOMAIN h.lists[l] : h.lists[l][j] = d /\ (l = "tcache" => j # 1)
      <4>1. CASE l = "tcache"
        <5>1. i + 1 \in DOMAIN t /\ t[i + 1] = d /\ i + 1 # 1
          BY <1>4, <1>5, <3>2, <4>1
        <5> QED BY <4>1, <5>1
      <4>2. CASE l # "tcache"
        BY <1>5, <3>2, <4>2
      <4> QED BY <4>1, <4>2
    <3> QED BY <1>1, <1>4, <3>3, FreeCarved DEF OnePlace
  <2>2. ASSUME NEW d \in Free(h), d # t[1] PROVE d \in Free(g)
    <3>1. PICK l \in Lists : \E i \in DOMAIN h.lists[l] : h.lists[l][i] = d
      BY <2>2, FreeCarved
    <3>2. PICK i \in DOMAIN h.lists[l] : h.lists[l][i] = d
      BY <3>1
    <3>3. \E j \in DOMAIN lists[l] : lists[l][j] = d
      <4>1. CASE l = "tcache"
        <5>1. i # 1
          BY <2>2, <3>2, <4>1
        <5>2. i - 1 \in DOMAIN lists["tcache"] /\ lists["tcache"][i - 1] = d
          BY <1>4, <1>5, <3>2, <4>1, <5>1
        <5> QED BY <4>1, <5>2
      <4>2. CASE l # "tcache"
        BY <1>5, <3>2, <4>2
      <4> QED BY <4>1, <4>2
    <3> QED BY <1>8, <3>3, FreeCarved
  <2> QED BY <2>1, <2>2
<1>11. h.brk \in Nat /\ h.carved \in Nat
  BY <1>1 DEF Heaps
<1>12. Serves(h, g, t[1])
  BY <1>8, <1>9, <1>10, <1>11 DEF Serves, SameButLists
<1> QED BY <1>2, <1>3, <1>4, <1>12

\* A chunk is taken from a bin, and others of it stashed.
LEMMA TakenFromBins ==
  ASSUME NEW h, WellFormed(h), NEW b \in Bins, NEW s \in FromBin(h, b)
  PROVE  Serves(h, s.heap, s.chunk)
<1> DEFINE old   == h.lists[b]
           list  == IF b = "fastbin" THEN old ELSE Reverse(old)
           kept2 == IF b \in {"fastbin", "smallbin"} THEN Stash(Tail(list))
                    ELSE [tcache |-> <<>>, rest |-> Tail(list)]
           x == IF b = "fastbin" THEN kept2.rest ELSE Reverse(kept2.rest)
           y == kept2.tcache
           N == Len(old)
<1>1. old \in Seq(Slots)
  BY DEF WellFormed, Heaps, Lists
<1>2. /\ list # <<>> /\ h.lists["tcache"] = <<>>
      /\ s.chunk = Head(list)
      /\ s.heap = [h EXCEPT !.lists[b] = x, !.lists["tcache"] = y]
  BY DEF FromBin
<1>3. /\ list \in Seq(Slots) /\ Len(list) = N
      /\ \A i \in 1 .. N : list[i] = IF b = "fastbin" THEN old[i] ELSE old[N - i + 1]
  BY <1>1, Reversed
<1> HIDE DEF list
<1>4. N \in Nat \ {0}
  BY <1>1, <1>2, <1>3
<1>5. /\ Tail(list) \in Seq(Slots) /\ Len(Tail(list)) = N - 1
      /\ \A i \in 1 .. N - 1 : Tail(list)[i] = list[i + 1]
  BY <1>2, <1>3, <1>4
<1> DEFINE r == Tail(list)
<1> HIDE DEF r
<1>f. PICK n \in 0 .. Len(r) :
           /\ Stash(r).tcache \in Seq(Slots) /\ Len(Stash(r).tcache) = n
           /\ \A i \in 1 .. n : Stash(r).tcache[i] = r[n + 1 - i]
           /\ Stash(r).rest \in Seq(Slots) /\ Len(Stash(r).rest) = Len(r) - n
           /\ \A i \in 1 .. Len(r) - n : Stash(r).rest[i] = r[n + i]
  <2>1. r \in Seq(Slots)
    BY <1>5 DEF r
  <2> QED BY <2>1, Stashed
<1>6. PICK m \in 0 .. N - 1 :
           /\ y \in Seq(Slots) /\ Len(y) = m
           /\ \A i \in 1 .. m : y[i] = r[m + 1 - i]
           /\ kept2.rest \in Seq(Slots) /\ Len(kept2.rest) = N - 1 - m
           /\ \A i \in 1 .. N - 1 - m : kept2.rest[i] = r[m + i]
  <2>0. r \in Seq(Slots) /\ Len(r) = N - 1
    BY <1>5 DEF r
  <2>1. CASE b \in {"fastbin", "smallbin"}
    <3>1. y = Stash(r).tcache /\ kept2.rest = Stash(r).rest
      BY <2>1 DEF r
    <3> HIDE DEF y, kept2
    <3>2. n \in 0 .. N - 1
      BY <2>0
    <3>3. y \in Seq(Slots) /\ Len(y) = n
      BY <1>f, <3>1
    <3>4. \A i \in 1 .. n : y[i] = r[n + 1 - i]
      BY <1>f, <3>1
    <3>5. kept2.rest \in Seq(Slots) /\ Len(kept2.rest) = N - 1 - n
      BY <1>f, <3>1, <2>0
    <3>6. \A i \in 1 .. N - 1 - n : kept2.rest[i] = r[n + i]
      BY <1>f, <3>1, <2>0
    <3> HIDE DEF N
    <3> QED BY <3>2, <3>3, <3>4, <3>5, <3>6
  <2>2. CASE b \notin {"fastbin", "smallbin"}
    <3>1. y = <<>> /\ kept2.rest = r
      BY <2>2 DEF r
    <3> HIDE DEF y, kept2
    <3>2. /\ y \in Seq(Slots) /\ Len(y) = 0 /\ \A i \in 1 .. 0 : y[i] = r[0 + 1 - i]
      BY <3>1
    <3>3. /\ kept2.rest \in Seq(Slots) /\ Len(kept2.rest) = N - 1 - 0
          /\ \A i \in 1 .. N - 1 - 0 : kept2.rest[i] = r[0 + i]
      BY <1>4, <2>0, <3>1
    <3>4. 0 \in 0 .. N - 1
      BY <1>4
    <3> QED BY <3>2, <3>3, <3>4
  <2> QED BY <2>1, <2>2
<1> DEFINE rest == kept2.rest
<1> HIDE DEF kept2
<1>7. /\ x \in Seq(Slots) /\ Len(x) = N - 1 - m
      /\ \A i \in 1 .. N - 1 - m : x[i] = IF b = "fastbin" THEN rest[i] ELSE rest[N - 1 - m - i + 1]
  <2>0. rest \in Seq(Slots) /\ Len(rest) = N - 1 - m
    BY <1>6
  <2> HIDE DEF rest
  <2>1. /\ Reverse(rest) \in Seq(Slots) /\ Len(Reverse(rest)) = N - 1 - m
        /\ \A i \in 1 .. N - 1 - m : Reverse(rest)[i] = rest[N - 1 - m - i + 1]
    BY <2>0, Reversed
  <2>2. x = IF b = "fastbin" THEN rest ELSE Reverse(rest)
    BY DEF rest
  <2> HIDE DEF x
  <2> QED BY <2>0, <2>1, <2>2
<1> HIDE DEF rest, x, y
<1> DEFINE a == IF b = "fastbin" THEN 1 ELSE N
           p == [i \in 1 .. N - 1 - m |-> IF b = "fastbin" THEN m + i + 1 ELSE i]
           q == [i \in 1 .. m |-> IF b = "fastbin" THEN m + 2 - i ELSE N - (m + 1 - i)]
<1>8. a \in DOMAIN old /\ old[a] = s.chunk /\ DOMAIN old = 1 .. N
  BY <1>1, <1>2, <1>3, <1>4
<1>9. DOMAIN x = 1 .. N - 1 - m /\ DOMAIN y = 1 .. m /\ m \in Nat
  BY <1>4, <1>6, <1>7 DEF y
<1>10. \A i \in DOMAIN x : p[i] \in DOMAIN old \ {a} /\ x[i] = old[p[i]]
  <2> SUFFICES ASSUME NEW i \in 1 .. N - 1 - m
               PROVE  p[i] \in 1 .. N /\ p[i] # a /\ x[i] = old[p[i]]
    BY <1>8, <1>9
  <2>1. CASE b = "fastbin"
    <3>1. x[i] = r[m + i] /\ m + i \in 1 .. N - 1 /\ m + i + 1 \in 1 .. N
      BY <1>4, <1>6, <1>7, <2>1 DEF rest
    <3>2. x[i] = old[m + i + 1]
      BY <1>3, <1>5, <2>1, <3>1 DEF r
    <3> QED BY <1>4, <2>1, <3>1, <3>2
  <2>2. CASE b # "fastbin"
    <3>1. N - 1 - m - i + 1 \in 1 .. N - 1 - m /\ m + (N - 1 - m - i + 1) = N - i /\ N - i \in 1 .. N - 1
          /\ N - i + 1 \in 1 .. N /\ N - (N - i + 1) + 1 = i /\ i \in 1 .. N
      BY <1>4
    <3>2. x[i] = r[N - i]
      BY <1>6, <1>7, <2>2, <3>1 DEF rest
    <3>3. r[N - i] = list[N - i + 1]
      BY <1>5, <3>1 DEF r
    <3>4. list[N - i + 1] = old[i]
      BY <1>3, <2>2, <3>1
    <3> QED BY <1>4, <2>2, <3>1, <3>2, <3>3, <3>4, SMTT(30)
  <2> QED BY <2>1, <2>2
<1>11. \A i \in DOMAIN y : q[i] \in DOMAIN old \ {a} /\ y[i] = old[q[i]]
  <2> SUFFICES ASSUME NEW i \in 1 .. m
               PROVE  q[i] \in 1 .. N /\ q[i] # a /\ y[i] = old[q[i]]
    BY <1>8, <1>9
  <2>1. m + 1 - i \in 1 .. N - 1 /\ m + 1 - i + 1 = m + 2 - i /\ m + 2 - i \in 1 .. N
        /\ N - (m + 1 - i) = N - (m + 2 - i) + 1 /\ N - (m + 1 - i) \in 1 .. N
    BY <1>4
  <2>2. y[i] = r[m + 1 - i] /\ r[m + 1 - i] = list[m + 2 - i]
    BY <1>5, <1>6, <2>1 DEF r, y
  <2>3. CASE b = "fastbin"
    <3>1. list[m + 2 - i] = old[m + 2 - i]
      BY <1>3, <2>1, <2>3
    <3> QED BY <1>4, <2>1, <2>2, <2>3, <3>1
  <2>4. CASE b # "fastbin"
    <3>1. list[m + 2 - i] = old[N - (m + 1 - i)]
      BY <1>3, <2>1, <2>4
    <3> QED BY <1>4, <2>1, <2>2, <2>4, <3>1
  <2> QED BY <2>3, <2>4
<1>12. /\ \A i, j \in DOMAIN x : p[i] = p[j] => i = j
       /\ \A i, j \in DOMAIN y : q[i] = q[j] => i = j
       /\ \A i \in DOMAIN x, j \in DOMAIN y : p[i] # q[j]
  <2>0. DOMAIN x \in SUBSET Nat /\ DOMAIN y \in SUBSET Nat /\ N \in Nat /\ m \in Nat
    BY <1>4, <1>9
  <2>1. \A i \in 1 .. N - 1 - m : p[i] = IF b = "fastbin" THEN m + i + 1 ELSE i
    OBVIOUS
  <2>2. \A i \in 1 .. m : q[i] = IF b = "fastbin" THEN m + 2 - i ELSE N - (m + 1 - i)
    OBVIOUS
  <2> HIDE DEF p, q, N
  <2> QED BY <1>9, <2>0, <2>1, <2>2, SMTT(30)
<1>13. ASSUME NEW j \in DOMAIN old \ {a}
       PROVE  (\E i \in DOMAIN x : p[i] = j) \/ (\E i \in DOMAIN y : q[i] = j)
  <2>1. CASE b = "fastbin" /\ j > m + 1
    <3>1. j - m - 1 \in DOMAIN x /\ p[j - m - 1] = j
      BY <1>4, <1>8, <1>9, <2>1
    <3> QED BY <3>1
  <2>2. CASE b = "fastbin" /\ ~(j > m + 1)
    <3>1. m + 2 - j \in DOMAIN y /\ q[m + 2 - j] = j
      BY <1>4, <1>8, <1>9, <2>2
    <3> QED BY <3>1
  <2>3. CASE b # "fastbin" /\ j <= N - 1 - m
    <3>1. j \in DOMAIN x /\ p[j] = j
      BY <1>4, <1>8, <1>9, <2>3
    <3> QED BY <3>1
  <2>4. CASE b # "fastbin" /\ ~(j <= N - 1 - m)
    <3>1. j \in 1 .. N /\ j # N
      BY <1>8, <2>4
    <3> HIDE DEF N
    <3>2. j - N + m + 1 \in 1 .. m /\ N - (m + 1 - (j - N + m + 1)) = j
      BY <1>4, <2>4, <3>1
    <3> QED BY <1>9, <2>4, <3>2
  <2> QED BY <2>1, <2>2, <2>3, <2>4
<1>14. y \in Seq(Slots) /\ x \in Seq(Slots)
  BY <1>6, <1>7 DEF y
<1> HIDE DEF p, q, a, N
<1>15. Splits(h.lists[b], a, x, y, p, q)
  <2>1. Splits(old, a, x, y, p, q)
    <3> HIDE DEF old
    <3> QED BY <1>8, <1>10, <1>11, <1>12, <1>13, <1>14 DEF Splits
  <2> QED BY <2>1
<1>16. Serves(h, [h EXCEPT !.lists[b] = x, !.lists["tcache"] = y], h.lists[b][a])
  <2> HIDE DEF old
  <2> QED BY <1>2, <1>15, TakenFromBin
<1> QED BY <1>2, <1>8, <1>16

\* Sorting keeps every chunk, in one place.
LEMMA SortedLists ==
  ASSUME NEW h, WellFormed(h)
  PROVE  /\ Sorted(h) \in [Lists -> Seq(Slots)] /\ OnePlace(Sorted(h))
         /\ \A l \in Lists : \A i \in DOMAIN Sorted(h)[l] :
              \E m \in Lists : \E j \in DOMAIN h.lists[m] : Sorted(h)[l][i] = h.lists[m][j]
         /\ \A m \in Lists : \A j \in DOMAIN h.lists[m] :
              \E l \in Lists : \E i \in DOMAIN Sorted(h)[l] : Sorted(h)[l][i] = h.lists[m][j]
<1>h. h.lists \in [Lists -> Seq(Slots)] /\ OnePlace(h.lists) /\ h.class \in Bins \ {"unsorted"}
  BY DEF WellFormed, Heaps
<1>s. SUFFICES ASSUME h.class # "fastbin", Sorted(h) # h.lists
               PROVE  /\ Sorted(h) \in [Lists -> Seq(Slots)] /\ OnePlace(Sorted(h))
                      /\ \A l \in Lists : \A i \in DOMAIN Sorted(h)[l] :
                           \E m \in Lists : \E j \in DOMAIN h.lists[m] :
                             Sorted(h)[l][i] = h.lists[m][j]
                      /\ \A m \in Lists : \A j \in DOMAIN h.lists[m] :
                           \E l \in Lists : \E i \in DOMAIN Sorted(h)[l] :
                             Sorted(h)[l][i] = h.lists[m][j]
  <2>1. h.class = "fastbin" => Sorted(h) = h.lists
    BY DEF Sorted
  <2>2. CASE Sorted(h) = h.lists
    BY <1>h, <2>2
  <2> QED BY <2>1, <2>2
<1> DEFINE k == h.class
           u == h.lists["unsorted"]
           v == h.lists[k]
           z == u \o v
           new == Sorted(h)
<1>1. /\ h.lists \in [Lists -> Seq(Slots)] /\ "unsorted" \in Lists /\ k \in Lists
      /\ k # "unsorted"
  BY <1>h DEF Lists, Bins
<1>2. new = [h.lists EXCEPT !["unsorted"] = <<>>, ![k] = z]
  BY <1>s, <1>1 DEF Sorted
<1>3. u \in Seq(Slots) /\ v \in Seq(Slots)
  BY <1>1
<1> HIDE DEF u, v
<1>4. /\ z \in Seq(Slots) /\ DOMAIN z = 1 .. Len(u) + Len(v)
      /\ DOMAIN u = 1 .. Len(u) /\ DOMAIN v = 1 .. Len(v) /\ Len(u) \in Nat /\ Len(v) \in Nat
      /\ \A i \in 1 .. Len(u) + Len(v) : z[i] = IF i <= Len(u) THEN u[i] ELSE v[i - Len(u)]
  BY <1>3
<1> HIDE DEF z, k, new
<1>5. /\ new \in [Lists -> Seq(Slots)] /\ new["unsorted"] = <<>> /\ new[k] = z
      /\ \A l \in Lists \ {"unsorted", k} : new[l] = h.lists[l]
  <2>1. <<>> \in Seq(Slots)
    OBVIOUS
  <2>2. new["unsorted"] = <<>> /\ new[k] = z
    BY <1>1, <1>2
  <2>3. \A l \in Lists \ {"unsorted", k} : new[l] = h.lists[l]
    BY <1>1, <1>2
  <2>4. DOMAIN new = Lists /\ new = [l \in Lists |-> new[l]]
    BY <1>1, <1>2
  <2>5. \A l \in Lists : new[l] \in Seq(Slots)
    BY <1>1, <1>4, <2>1, <2>2, <2>3
  <2> QED BY <2>2, <2>3, <2>4, <2>5
<1>z. ASSUME NEW i \in DOMAIN z
      PROVE  \/ i \in DOMAIN u /\ z[i] = u[i]
             \/ i > Len(u) /\ i - Len(u) \in DOMAIN v /\ z[i] = v[i - Len(u)]
  BY <1>4
<1>o. \A l, n \in Lists : \A i \in DOMAIN h.lists[l], j \in DOMAIN h.lists[n] :
        h.lists[l][i] = h.lists[n][j] => l = n /\ i = j
  BY DEF WellFormed, OnePlace
<1>uv. /\ \A i \in DOMAIN u, j \in DOMAIN v : u[i] # v[j]
       /\ \A i, j \in DOMAIN u : u[i] = u[j] => i = j
       /\ \A i, j \in DOMAIN v : v[i] = v[j] => i = j
  BY <1>o, <1>1 DEF u, v
<1>w. \A i, j \in DOMAIN z : z[i] = z[j] => i = j
  <2> SUFFICES ASSUME NEW i \in DOMAIN z, NEW j \in DOMAIN z, z[i] = z[j] PROVE i = j
    OBVIOUS
  <2>1. i \in Nat /\ j \in Nat
    BY <1>4
  <2> QED BY <1>z, <1>uv, <1>4, <2>1
<1>6. ASSUME NEW l \in Lists, NEW i \in DOMAIN new[l]
      PROVE  \E m \in Lists : \E j \in DOMAIN h.lists[m] :
               new[l][i] = h.lists[m][j] /\ (l = k => m \in {k, "unsorted"}) /\ (l # k => m = l)
  <2>1. CASE l = k
    <3>1. i \in DOMAIN z /\ new[l][i] = z[i]
      BY <1>5, <2>1
    <3>2. CASE i \in DOMAIN u /\ z[i] = u[i]
      BY <1>1, <2>1, <3>1, <3>2 DEF u
    <3>3. CASE i - Len(u) \in DOMAIN v /\ z[i] = v[i - Len(u)]
      BY <1>1, <2>1, <3>1, <3>3 DEF v
    <3> QED BY <1>z, <3>1, <3>2, <3>3
  <2>2. CASE l # k
    <3>1. l # "unsorted"
      BY <1>5
    <3> QED BY <1>5, <2>2, <3>1
  <2> QED BY <2>1, <2>2
<1>7. OnePlace(new)
  <2> SUFFICES ASSUME NEW l \in Lists, NEW m \in Lists,
                      NEW i \in DOMAIN new[l], NEW j \in DOMAIN new[m], new[l][i] = new[m][j]
               PROVE  l = m /\ i = j
    BY DEF OnePlace
  <2>0. l # "unsorted" /\ m # "unsorted"
    BY <1>5
  <2>1. CASE l = k /\ m = k
    BY <1>5, <1>w, <2>1
  <2>2. CASE ~(l = k /\ m = k)
    <3>1. PICK n \in Lists : \E w \in DOMAIN h.lists[n] :
               new[l][i] = h.lists[n][w] /\ (l = k => n \in {k, "unsorted"}) /\ (l # k => n = l)
      BY <1>6
    <3>2. PICK n2 \in Lists : \E w \in DOMAIN h.lists[n2] :
               new[m][j] = h.lists[n2][w] /\ (m = k => n2 \in {k, "unsorted"}) /\ (m # k => n2 = m)
      BY <1>6
    <3>3. n = n2
      BY <1>o, <3>1, <3>2
    <3>4. l = m /\ l # k
      BY <2>0, <2>2, <3>1, <3>2, <3>3
    <3> QED BY <1>5, <1>o, <2>0, <3>4
  <2> QED BY <2>1, <2>2
<1>8. ASSUME NEW m \in Lists, NEW j \in DOMAIN h.lists[m]
      PROVE  \E l \in Lists : \E i \in DOMAIN new[l] : new[l][i] = h.lists[m][j]
  <2>1. CASE m = k
    <3>1. j + Len(u) \in DOMAIN z /\ z[j + Len(u)] = v[j]
      <4>1. j \in 1 .. Len(v)
        BY <1>4, <2>1 DEF v
      <4>2. j + Len(u) \in 1 .. Len(u) + Len(v) /\ ~(j + Len(u) <= Len(u)) /\ j + Len(u) - Len(u) = j
        BY <1>4, <4>1
      <4>3. PICK w \in 1 .. Len(u) + Len(v) : w = j + Len(u)
        BY <4>2
      <4>4. ~(w <= Len(u)) /\ w - Len(u) = j
        BY <1>4, <4>1, <4>2, <4>3
      <4>5. z[w] = v[w - Len(u)]
        BY <1>4, <4>4
      <4>6. z[w] = v[j]
        BY <4>4, <4>5
      <4> QED BY <1>4, <4>2, <4>3, <4>6
    <3> QED BY <1>1, <1>5, <2>1, <3>1 DEF v
  <2>2. CASE m = "unsorted"
    <3>1. j \in DOMAIN z /\ z[j] = u[j]
      <4>1. j \in 1 .. Len(u)
        BY <1>4, <2>2 DEF u
      <4> QED BY <1>4, <4>1
    <3> QED BY <1>1, <1>5, <2>2, <3>1 DEF u
  <2>3. CASE m \notin {k, "unsorted"}
    BY <1>5, <2>3
  <2> QED BY <2>1, <2>2, <2>3
<1>9. \A l \in Lists : \A i \in DOMAIN new[l] :
        \E m \in Lists : \E j \in DOMAIN h.lists[m] : new[l][i] = h.lists[m][j]
  BY <1>6
<1> QED BY <1>5, <1>7, <1>8, <1>9 DEF new

\* The numbers the words of a heap are told with.
LEMMA Numbers ==
  /\ Start = 6 /\ Unit = 6 /\ Header = 2 /\ MinChunk = 4 /\ Alignment = 2 /\ NULL = 0
  /\ Wild = 5000 /\ Key = 10000
  /\ \A k \in Nat : Chunk(k) = 6 * k /\ Enough(k) = 6 * k + 10
  /\ \A h : h.carved \in Nat => Top(h) = 6 * h.carved + 6
  /\ Chunks \in Nat /\ 1 < Chunks /\ 6 * Chunks + 12 < 1000
  /\ ChainLimit \in Nat /\ TcacheLimit \in Nat /\ TcacheMax \in Nat
  /\ WalkLimit \in Nat /\ Chunks < WalkLimit
  /\ \A c : UserOf(c) = c + 2
<1> USE DEF Start, Unit, Header, MinChunk, Alignment, NULL, Wild, Key, Chunk, Enough, Top, UserOf
<1> QED BY HeapBounds, ChainBound, TcacheBound, BoundsAreNumbers

\* A chunk is cut off the top.
LEMMA TakenFromTop ==
  ASSUME NEW h, WellFormed(h), NEW s \in FromTop(h)
  PROVE  Serves(h, s.heap, s.chunk) /\ s.heap.carved = h.carved + 1 /\ s.chunk = Top(h)
<1> DEFINE need == Enough(h.carved + 1)
           brk  == IF h.brk >= need THEN h.brk
                   ELSE IF h.brk = Start THEN Enough(Chunks - 1) ELSE need
           g == [h EXCEPT !.carved = h.carved + 1, !.lists = Sorted(h), !.brk = brk]
<1>1. h \in Heaps
  BY DEF WellFormed
<1>2. h.carved \in Nat /\ h.carved < Chunks /\ s.chunk = Top(h) /\ s.heap = g
  BY <1>1, HeapBounds DEF FromTop, Heaps
<1>3. /\ h.brk \in Nat /\ h.brk % 2 = 0 /\ h.brk <= 6 * Chunks + 10
      /\ h.carved = 0 => h.brk = 6 /\ h.bad = None
      /\ h.carved > 0 => 6 * h.carved + 10 <= h.brk
  BY <1>1, <1>2, Numbers DEF WellFormed, Heaps
<1>4. /\ brk \in Nat /\ brk % 2 = 0 /\ h.brk <= brk /\ 6 * (h.carved + 1) + 10 <= brk
      /\ brk <= 6 * Chunks + 10
  <2>1. need = 6 * (h.carved + 1) + 10 /\ Enough(Chunks - 1) = 6 * Chunks + 4
    BY <1>2, Numbers
  <2>2. (6 * (h.carved + 1) + 10) % 2 = 0 /\ (6 * Chunks + 4) % 2 = 0
    BY <1>2, Numbers
  <2> HIDE DEF need
  <2>3. CASE h.brk >= need
    BY <1>2, <1>3, <2>1, <2>3
  <2>4. CASE ~(h.brk >= need) /\ h.brk = Start
    <3>1. h.carved = 0
      BY <1>2, <1>3, <2>4, Numbers
    <3>2. brk = 6 * Chunks + 4
      BY <2>1, <2>4
    <3> HIDE DEF brk
    <3> QED BY <1>2, <1>3, <2>2, <3>1, <3>2, Numbers
  <2>5. CASE ~(h.brk >= need) /\ h.brk # Start
    <3>1. brk = 6 * (h.carved + 1) + 10
      BY <2>1, <2>5
    <3> HIDE DEF brk
    <3> QED BY <1>2, <1>3, <2>1, <2>2, <2>5, <3>1, Numbers
  <2> QED BY <2>3, <2>4, <2>5
<1> HIDE DEF brk
<1>5. /\ DOMAIN g = DOMAIN h /\ g.carved = h.carved + 1 /\ g.lists = Sorted(h) /\ g.brk = brk
      /\ g.bad = h.bad /\ g.skew = h.skew /\ g.class = h.class
      /\ g = [f \in DOMAIN h |-> g[f]]
  BY <1>1 DEF Heaps
<1> HIDE DEF g
<1>6. Top(h) = 6 * h.carved + 6 /\ Top(g) = 6 * h.carved + 12 /\ Enough(g.carved) <= brk
  BY <1>2, <1>4, <1>5, Numbers
<1>s. /\ g.lists \in [Lists -> Seq(Slots)] /\ OnePlace(g.lists)
      /\ \A l \in Lists : \A i \in DOMAIN g.lists[l] :
           \E m \in Lists : \E j \in DOMAIN h.lists[m] : g.lists[l][i] = h.lists[m][j]
      /\ \A m \in Lists : \A j \in DOMAIN h.lists[m] :
           \E l \in Lists : \E i \in DOMAIN g.lists[l] : g.lists[l][i] = h.lists[m][j]
  <2>1. g.lists = Sorted(h)
    BY <1>5
  <2> QED BY <2>1, SortedLists
<1>7. g \in Heaps
  <2>1. g.carved \in 0 .. Chunks /\ g.brk \in Nat
    BY <1>2, <1>4, <1>5, HeapBounds
  <2> QED BY <1>1, <1>5, <1>s, <2>1 DEF Heaps
<1>8. \A l \in Lists : \A i \in DOMAIN g.lists[l] : g.lists[l][i] < Top(g)
  <2> SUFFICES ASSUME NEW l \in Lists, NEW i \in DOMAIN g.lists[l] PROVE g.lists[l][i] < Top(g)
    OBVIOUS
  <2>1. PICK m \in Lists : \E j \in DOMAIN h.lists[m] : g.lists[l][i] = h.lists[m][j]
    BY <1>s
  <2>2. PICK j \in DOMAIN h.lists[m] : g.lists[l][i] = h.lists[m][j]
    BY <2>1
  <2>3. h.lists[m][j] < Top(h) /\ h.lists[m][j] \in Slots
    BY <1>1, FreeCarved DEF WellFormed
  <2> QED BY <1>2, <1>6, <2>2, <2>3, SlotsPlaced
<1>9. WellFormed(g)
  <2>1. g.carved # 0 /\ g.carved > 0 /\ Enough(g.carved) <= g.brk
    BY <1>2, <1>5, <1>6
  <2>2. g.brk <= Enough(Chunks) /\ g.brk % 2 = 0
    BY <1>4, <1>5, Numbers
  <2> QED BY <1>7, <1>8, <1>s, <2>1, <2>2 DEF WellFormed
<1>10. Top(h) \in Slots
  <2>1. h.carved + 1 \in 1 .. Chunks /\ 6 * (h.carved + 1) = 6 * h.carved + 6
    BY <1>2, Numbers
  <2> QED BY <1>6, <2>1, SlotsPlaced
<1>11. Carved(g) = Carved(h) \cup {Top(h)}
  <2>1. ASSUME NEW c \in Slots PROVE c < Top(g) <=> c < Top(h) \/ c = Top(h)
    <3>1. PICK k \in 1 .. Chunks : c = 6 * k
      BY SlotsPlaced
    <3>2. k \in Nat
      BY <3>1, HeapBounds
    <3>3. 6 * k < 6 * h.carved + 12 <=> 6 * k < 6 * h.carved + 6 \/ 6 * k = 6 * h.carved + 6
      BY <1>2, <3>2
    <3> QED BY <1>6, <3>1, <3>3
  <2> QED BY <1>10, <2>1 DEF Carved
<1>12. Top(h) \in Carved(g) /\ Top(h) \notin Carved(h) /\ Top(h) \notin Free(h)
  BY <1>6, <1>10, <1>11, <1>2, FreeCarved DEF Carved
<1>13. Free(g) = Free(h)
  <2>1. ASSUME NEW c \in Free(g) PROVE c \in Free(h)
    <3>1. PICK l \in Lists : \E i \in DOMAIN g.lists[l] : g.lists[l][i] = c
      BY <1>9, <2>1, FreeCarved
    <3>2. PICK m \in Lists : \E j \in DOMAIN h.lists[m] : c = h.lists[m][j]
      BY <1>s, <3>1
    <3> QED BY <3>2, FreeCarved
  <2>2. ASSUME NEW c \in Free(h) PROVE c \in Free(g)
    <3>1. PICK l \in Lists : \E i \in DOMAIN h.lists[l] : h.lists[l][i] = c
      BY <2>2, FreeCarved
    <3>2. PICK m \in Lists : \E j \in DOMAIN g.lists[m] : c = g.lists[m][j]
      BY <1>s, <3>1
    <3> QED BY <1>9, <3>2, FreeCarved
  <2> QED BY <2>1, <2>2
<1>14. h.carved <= g.carved
  BY <1>2, <1>5
<1> QED BY <1>2, <1>4, <1>5, <1>9, <1>11, <1>12, <1>13, <1>14 DEF Serves

\* Wherever malloc finds a chunk, it hands out one the program did not hold.
LEMMA ChunkServed ==
  ASSUME NEW h, WellFormed(h), NEW s \in Served(h)
  PROVE  Serves(h, s.heap, s.chunk)
<1>1. s \in FromTcache(h) \/ (\E b \in Bins : s \in FromBin(h, b)) \/ s \in FromTop(h)
  <2>1. s \in UNION {FromBin(h, b) : b \in Bins} => \E b \in Bins : s \in FromBin(h, b)
    OBVIOUS
  <2> QED BY <2>1, SMT DEF Served
<1> QED BY <1>1, TakenFromTcache, TakenFromBins, TakenFromTop

\* The chunk c is put in front of a list of h, which makes it g.
Takes(h, g, c) ==
  /\ WellFormed(g) /\ SameButLists(h, g)
  /\ Carved(g) = Carved(h) /\ Free(g) = Free(h) \cup {c} /\ c \in Carved(h)
  /\ c \notin Free(h)

\* What free puts in a list, the program held.
LEMMA ChunkGiven ==
  ASSUME NEW h, WellFormed(h), NEW c \in Freeable(h)
  PROVE  Takes(h, Given(h, c), c)
<1> DEFINE k == Home(h)
           v == h.lists[k]
           z == <<c>> \o v
           lists == [h.lists EXCEPT ![k] = z]
           g == [h EXCEPT !.lists = lists]
<1>1. /\ h \in Heaps /\ h.lists \in [Lists -> Seq(Slots)] /\ k \in Lists
      /\ c \in Slots /\ c < Top(h) /\ c \notin Free(h)
  BY DEF WellFormed, Heaps, Home, Lists, Bins, Freeable, InUse
<1> HIDE DEF k
<1>2. Given(h, c) = g
  BY <1>1 DEF Given, Heaps, k
<1>3. v \in Seq(Slots)
  BY <1>1
<1>4. /\ z \in Seq(Slots) /\ DOMAIN z = 1 .. Len(v) + 1 /\ DOMAIN v = 1 .. Len(v) /\ Len(v) \in Nat
      /\ \A i \in DOMAIN z : z[i] = IF i = 1 THEN c ELSE v[i - 1]
  <2> HIDE DEF v
  <2> QED BY <1>1, <1>3
<1> HIDE DEF z
<1>5. /\ lists \in [Lists -> Seq(Slots)] /\ lists[k] = z
      /\ \A l \in Lists \ {k} : lists[l] = h.lists[l]
  BY <1>1, <1>4
<1> HIDE DEF lists
<1>6. ASSUME NEW l \in Lists, NEW i \in DOMAIN lists[l], lists[l][i] # c
      PROVE  /\ i \in Nat
             /\ l = k => i - 1 \in DOMAIN h.lists[l] /\ lists[l][i] = h.lists[l][i - 1]
             /\ l # k => i \in DOMAIN h.lists[l] /\ lists[l][i] = h.lists[l][i]
  <2>1. CASE l = k
    <3>1. i \in DOMAIN z /\ z[i] # c /\ lists[l][i] = z[i]
      BY <1>5, <1>6, <2>1
    <3>2. i \in 1 .. Len(v) + 1 /\ i # 1 /\ z[i] = v[i - 1]
      BY <1>4, <3>1
    <3>3. i - 1 \in 1 .. Len(v)
      BY <1>4, <3>2
    <3> QED BY <1>4, <2>1, <3>1, <3>2, <3>3
  <2>2. CASE l # k
    BY <1>1, <1>5, <2>2
  <2> QED BY <2>1, <2>2
<1>7. ASSUME NEW l \in Lists, NEW i \in DOMAIN lists[l], lists[l][i] = c PROVE l = k /\ i = 1
  <2>1. l = k
    <3> SUFFICES ASSUME l # k PROVE FALSE
      OBVIOUS
    <3>1. i \in DOMAIN h.lists[l] /\ h.lists[l][i] = c
      BY <1>5, <1>7
    <3> QED BY <1>1, <3>1, FreeCarved
  <2>2. i = 1
    <3> SUFFICES ASSUME i # 1 PROVE FALSE
      OBVIOUS
    <3>1. i \in 1 .. Len(v) + 1 /\ z[i] = v[i - 1] /\ z[i] = c
      BY <1>4, <1>5, <1>7, <2>1
    <3>2. i - 1 \in DOMAIN v /\ v[i - 1] = c
      BY <1>4, <3>1
    <3> QED BY <1>1, <3>2, FreeCarved
  <2> QED BY <2>1, <2>2
<1>8. OnePlace(lists)
  <2> SUFFICES ASSUME NEW l \in Lists, NEW m \in Lists,
                      NEW i \in DOMAIN lists[l], NEW j \in DOMAIN lists[m], lists[l][i] = lists[m][j]
               PROVE  l = m /\ i = j
    BY DEF OnePlace
  <2>0. \A a, b \in Lists : \A x \in DOMAIN h.lists[a], y \in DOMAIN h.lists[b] :
          h.lists[a][x] = h.lists[b][y] => a = b /\ x = y
    BY DEF WellFormed, OnePlace
  <2>1. CASE lists[l][i] = c
    BY <1>7, <2>1
  <2>2. CASE lists[l][i] # c
    <3>1. PICK x \in DOMAIN h.lists[l] : /\ lists[l][i] = h.lists[l][x] /\ i \in Nat
                                         /\ x = IF l = k THEN i - 1 ELSE i
      BY <1>6, <2>2
    <3>2. PICK y \in DOMAIN h.lists[m] : /\ lists[m][j] = h.lists[m][y] /\ j \in Nat
                                         /\ y = IF m = k THEN j - 1 ELSE j
      BY <1>6, <2>2
    <3>3. h.lists[l][x] = h.lists[m][y]
      BY <3>1, <3>2
    <3>4. l = m /\ x = y
      BY <2>0, <3>3
    <3> QED BY <3>1, <3>2, <3>4
  <2> QED BY <2>1, <2>2
<1>9. \A l \in Lists : \A i \in DOMAIN lists[l] : lists[l][i] < Top(h)
  <2> SUFFICES ASSUME NEW l \in Lists, NEW i \in DOMAIN lists[l], lists[l][i] # c
               PROVE  lists[l][i] < Top(h)
    BY <1>1
  <2>1. \E j \in DOMAIN h.lists[l] : lists[l][i] = h.lists[l][j]
    BY <1>6
  <2> QED BY <2>1 DEF WellFormed
<1>10. WellFormed(g) /\ SameButLists(h, g) /\ g.lists = lists /\ Carved(g) = Carved(h)
  BY <1>5, <1>8, <1>9, Relisted
<1> HIDE DEF g
<1>11. Free(g) = Free(h) \cup {c}
  <2>1. ASSUME NEW d \in Free(g), d # c PROVE d \in Free(h)
    <3>1. PICK l \in Lists : \E i \in DOMAIN lists[l] : lists[l][i] = d
      BY <1>10, FreeCarved
    <3>2. \E j \in DOMAIN h.lists[l] : h.lists[l][j] = d
      BY <1>6, <2>1, <3>1
    <3> QED BY <3>2, FreeCarved
  <2>2. ASSUME NEW d \in Free(h) PROVE d \in Free(g)
    <3>1. PICK l \in Lists : \E i \in DOMAIN h.lists[l] : h.lists[l][i] = d
      BY FreeCarved
    <3>2. PICK i \in DOMAIN h.lists[l] : h.lists[l][i] = d
      BY <3>1
    <3>3. \E j \in DOMAIN lists[l] : lists[l][j] = d
      <4>1. CASE l = k
        <5>1. i \in 1 .. Len(v) /\ v[i] = d
          BY <1>4, <3>2, <4>1
        <5>2. PICK j \in 1 .. Len(v) + 1 : j = i + 1
          BY <1>4, <5>1
        <5>3. j # 1 /\ j - 1 = i
          BY <1>4, <5>1, <5>2
        <5>4. z[j] = v[j - 1] /\ j \in DOMAIN z
          BY <1>4, <5>3
        <5> QED BY <1>5, <4>1, <5>1, <5>3, <5>4
      <4>2. CASE l # k
        BY <1>5, <3>2, <4>2
      <4> QED BY <4>1, <4>2
    <3> QED BY <1>10, <3>3, FreeCarved
  <2>3. c \in Free(g)
    <3>0. 1 \in 1 .. Len(v) + 1
      BY <1>4
    <3>1. 1 \in DOMAIN lists[k] /\ lists[k][1] = c
      BY <1>4, <1>5, <3>0
    <3> QED BY <1>1, <1>10, <3>1, FreeCarved
  <2> QED BY <2>1, <2>2, <2>3
<1>12. c \in Carved(h)
  BY <1>1 DEF Carved
<1> QED BY <1>1, <1>2, <1>10, <1>11, <1>12 DEF Takes

-----------------------------------------------------------------------------
(* The words of a heap                                                     *)

\* A free chunk is in one list, at one place.
LEMMA FreePlace ==
  ASSUME NEW h, WellFormed(h), NEW l \in Lists, NEW i \in DOMAIN h.lists[l]
  PROVE  LET c == h.lists[l][i] IN ListOf(h, c) = l /\ At(h, l, c) = i
<1> DEFINE c == h.lists[l][i]
<1>1. \A k \in Lists : \A j \in DOMAIN h.lists[k] : h.lists[k][j] = c => k = l /\ j = i
  BY DEF WellFormed, OnePlace
<1>2. ListOf(h, c) \in Lists /\ c \in ToSet(h.lists[ListOf(h, c)])
  <2>1. c \in ToSet(h.lists[l])
    BY DEF ToSet
  <2> HIDE DEF c
  <2> QED BY <2>1 DEF ListOf
<1>3. ListOf(h, c) = l
  BY <1>1, <1>2 DEF ToSet
<1>4. At(h, l, c) = i
  <2>1. \E j \in DOMAIN h.lists[l] : h.lists[l][j] = c
    OBVIOUS
  <2> HIDE DEF c
  <2>2. At(h, l, c) \in DOMAIN h.lists[l] /\ h.lists[l][At(h, l, c)] = c
    BY <2>1 DEF At
  <2> QED BY <1>1, <2>2
<1> QED BY <1>3, <1>4

\* The parts of a heap.
LEMMA HeapTyped ==
  ASSUME NEW h, WellFormed(h)
  PROVE  /\ h.carved \in Nat /\ h.carved <= Chunks /\ Top(h) = 6 * h.carved + 6
         /\ h.brk \in Nat /\ h.brk % 2 = 0 /\ h.brk < 1000
         /\ h.carved = 0 => h.brk = 6 /\ h.bad = None
         /\ h.carved > 0 => 6 * h.carved + 10 <= h.brk
         /\ Top(h) <= h.brk
         /\ h.bad # None => h.bad.word \in Nat /\ h.bad.at \in Nat
         /\ h.skew \in {0, 2} /\ h.class \in Bins
         /\ h.lists \in [Lists -> Seq(Slots)]
         /\ \A l \in Lists : h.lists[l] \in Seq(Nat) /\ \A i \in DOMAIN h.lists[l] : h.lists[l][i] \in Nat
         /\ \A l \in Lists : DOMAIN h.lists[l] = 1 .. Len(h.lists[l]) /\ Len(h.lists[l]) \in Nat
<1>1. h \in Heaps
  BY DEF WellFormed
<1>2. h.carved \in Nat /\ h.carved <= Chunks /\ h.brk \in Nat
  BY <1>1, HeapBounds DEF Heaps
<1>3. Top(h) = 6 * h.carved + 6 /\ Enough(h.carved) = 6 * h.carved + 10
  BY <1>2, Numbers
<1>4. h.brk % 2 = 0 /\ h.brk <= Enough(Chunks) /\ Enough(Chunks) < 1000
  BY Numbers DEF WellFormed
<1>5. /\ h.carved = 0 => h.brk = 6 /\ h.bad = None
      /\ h.carved > 0 => 6 * h.carved + 10 <= h.brk
  BY <1>3, Numbers DEF WellFormed
<1>6. /\ h.bad # None => h.bad.word \in Nat /\ h.bad.at \in Nat
      /\ h.skew \in {0, 2} /\ h.class \in Bins
      /\ h.lists \in [Lists -> Seq(Slots)]
  BY <1>1 DEF Heaps
<1>7. Top(h) <= h.brk
  <2>1. CASE h.carved = 0
    BY <1>3, <1>5, <2>1
  <2>2. CASE h.carved # 0
    <3>1. h.carved > 0
      BY <1>2, <2>2
    <3> QED BY <1>2, <1>3, <1>5, <3>1
  <2> QED BY <2>1, <2>2
<1>8. \A l \in Lists : h.lists[l] \in Seq(Slots)
  BY <1>6
<1>9. \A l \in Lists : /\ DOMAIN h.lists[l] = 1 .. Len(h.lists[l]) /\ Len(h.lists[l]) \in Nat
                       /\ \A i \in DOMAIN h.lists[l] : h.lists[l][i] \in Slots
  BY <1>8
<1>10. \A l \in Lists : h.lists[l] \in Seq(Nat)
  <2> SUFFICES ASSUME NEW l \in Lists PROVE h.lists[l] \in Seq(Nat)
    OBVIOUS
  <2> DEFINE v == h.lists[l]
  <2>1. v \in Seq(Slots) /\ DOMAIN v = 1 .. Len(v) /\ Len(v) \in Nat
    BY <1>8, <1>9
  <2>2. \A i \in 1 .. Len(v) : v[i] \in Nat
    BY <1>9, SlotsPlaced
  <2>3. v = [i \in 1 .. Len(v) |-> v[i]]
    BY <2>1
  <2> HIDE DEF v
  <2>4. v \in Seq(Nat)
    BY <2>1, <2>2, <2>3
  <2> QED BY <2>4 DEF v
<1>11. Enough(Chunks) \in Nat
  BY Numbers
<1>12. h.brk < 1000
  BY <1>2, <1>4, <1>11
<1> QED BY <1>2, <1>3, <1>4, <1>5, <1>6, <1>7, <1>9, <1>10, <1>12, SlotsPlaced

\* A neighbour in a list, or its end, is an address.
LEMMA NeighbourTyped ==
  ASSUME NEW s \in Seq(Nat), NEW i, NEW end \in Nat
  PROVE  Neighbour(s, i, end) \in Nat
BY DEF Neighbour

\* What is written is a number.
LEMMA WordTyped ==
  ASSUME NEW h, WellFormed(h), NEW a \in Nat
  PROVE  /\ Word(h, a) \in Nat \cup {None}
         /\ Readable(h, a) => Word(h, a) \in Nat
         /\ Readable(h, a) <=> 6 <= a /\ a < h.brk
<1>1. /\ h.brk \in Nat /\ h.carved \in Nat /\ h.skew \in {0, 2} /\ Top(h) <= h.brk
      /\ h.bad # None => h.bad.word \in Nat /\ h.bad.at \in Nat
      /\ Top(h) = 6 * h.carved + 6
  BY HeapTyped
<1>2. Readable(h, a) <=> 6 <= a /\ a < h.brk
  BY <1>1 DEF Readable, Start
<1>3. \A l \in Lists : /\ h.lists[l] \in Seq(Nat) /\ DOMAIN h.lists[l] = 1 .. Len(h.lists[l])
                       /\ Len(h.lists[l]) \in Nat
                       /\ \A i \in DOMAIN h.lists[l] : h.lists[l][i] \in Nat
  BY HeapTyped
<1>4. \A l : HeaderOf(h, l) \in Nat
  BY <1>1 DEF HeaderOf, FieldOf
<1>5. ASSUME NEW c \in Free(h)
      PROVE  /\ Fd(h, ListOf(h, c), c) \in Nat
             /\ Bk(h, ListOf(h, c), c) \in Nat
  <2>1. PICK l \in Lists : \E i \in DOMAIN h.lists[l] : h.lists[l][i] = c
    BY <1>5, FreeCarved
  <2>2. PICK i \in DOMAIN h.lists[l] : h.lists[l][i] = c
    BY <2>1
  <2>3. ListOf(h, c) = l /\ At(h, l, c) = i
    BY <2>2, FreePlace
  <2>4. /\ Neighbour(h.lists[l], i + 1, NULL) \in Nat
        /\ Neighbour(h.lists[l], i + 1, HeaderOf(h, l)) \in Nat
        /\ Neighbour(h.lists[l], i - 1, HeaderOf(h, l)) \in Nat
    <3>1. NULL \in Nat /\ HeaderOf(h, l) \in Nat /\ h.lists[l] \in Seq(Nat)
      BY <1>3, <1>4 DEF NULL
    <3> HIDE DEF NULL
    <3> QED BY <3>1, NeighbourTyped
  <2>5. i < Len(h.lists[l]) => UserOf(h.lists[l][i + 1]) \in Nat
    <3> SUFFICES ASSUME i < Len(h.lists[l]) PROVE UserOf(h.lists[l][i + 1]) \in Nat
      OBVIOUS
    <3>1. i + 1 \in DOMAIN h.lists[l]
      BY <1>3
    <3>2. h.lists[l][i + 1] \in Nat
      BY <1>3, <3>1
    <3> QED BY <3>2 DEF UserOf, Header
  <2>6. \A p \in Nat : Protect(p) \in Nat
    BY DEF Protect, Key
  <2>7. Fd(h, l, c) \in Nat
    <3>1. NULL \in Nat
      BY DEF NULL
    <3>2. CASE l = "tcache"
      <4>1. Fd(h, l, c) = Protect(IF i < Len(h.lists[l]) THEN UserOf(h.lists[l][i + 1]) ELSE NULL)
        BY <2>3, <3>2 DEF Fd
      <4> QED BY <2>5, <2>6, <3>1, <4>1
    <3>3. CASE l = "fastbin"
      <4>1. Fd(h, l, c) = Protect(Neighbour(h.lists[l], i + 1, NULL))
        BY <2>3, <3>3 DEF Fd
      <4> QED BY <2>4, <2>6, <4>1
    <3>4. CASE l # "tcache" /\ l # "fastbin"
      <4>1. Fd(h, l, c) = Neighbour(h.lists[l], i + 1, HeaderOf(h, l))
        BY <2>3, <3>4 DEF Fd
      <4> QED BY <2>4, <4>1
    <3> QED BY <3>2, <3>3, <3>4
  <2>8. Bk(h, l, c) \in Nat
    BY <2>3, <2>4, Numbers DEF Bk
  <2> QED BY <2>3, <2>7, <2>8
<1>6. Readable(h, a) => Written(h, a) \in Nat
  <2>1. Readable(h, a) => h.brk - Top(h) \in Nat
    BY <1>1, <1>2
  <2>2. \A c \in Free(h) : (a = UserOf(c) => a - Header = c) /\ (a = UserOf(c) + 1 => a - Header - 1 = c)
    <3>1. \A c \in Free(h) : c \in Nat
      BY FreeCarved, SlotsPlaced DEF Carved
    <3> QED BY <3>1 DEF UserOf, Header
  <2> QED BY <1>5, <2>1, <2>2, Numbers DEF Written
<1>7. Readable(h, a) => Word(h, a) \in Nat
  BY <1>1, <1>6 DEF Word
<1>8. Word(h, a) \in Nat \cup {None}
  BY <1>7 DEF Word
<1> QED BY <1>2, <1>7, <1>8

-----------------------------------------------------------------------------
(* The walk                                                                *)

Walkings ==
  [at : Nat, chunks : Seq([addr : Nat, size : Nat]), stop : BOOLEAN, truncated : BOOLEAN]

\* A step of the walk leads from a walk to a walk.
LEMMA WalkStepTyped ==
  ASSUME NEW h, WellFormed(h), NEW end \in Nat, NEW w \in Walkings
  PROVE  WalkStep(h, end, w) \in Walkings
<1>1. CASE w.stop \/ w.at >= end
  BY <1>1 DEF WalkStep
<1>2. CASE ~(w.stop \/ w.at >= end) /\ (Len(w.chunks) >= WalkLimit \/ ~Readable(h, w.at + 1))
  BY <1>2 DEF WalkStep, Walkings
<1>3. CASE ~(w.stop \/ w.at >= end) /\ ~(Len(w.chunks) >= WalkLimit \/ ~Readable(h, w.at + 1))
  <2> DEFINE size == Normalize(Word(h, w.at + 1))
  <2>1. w.at + 1 \in Nat /\ w.at \in Nat
    BY DEF Walkings
  <2>2. Word(h, w.at + 1) \in Nat
    BY <1>3, <2>1, WordTyped
  <2>3. size \in Nat
    BY <2>2, Numbers DEF Normalize
  <2>4. WalkStep(h, end, w) = Listing(w, end, size)
    BY <1>3 DEF WalkStep
  <2> HIDE DEF size
  <2>5. Append(w.chunks, [addr |-> w.at, size |-> size]) \in Seq([addr : Nat, size : Nat])
    BY <2>1, <2>3 DEF Walkings
  <2> DEFINE bad == size < MinChunk \/ w.at + size > end
  <2>6. bad \in BOOLEAN /\ w.at + size \in Nat
    BY <2>1, <2>3
  <2>7. Listing(w, end, size) =
          [at |-> w.at + size, stop |-> bad, truncated |-> bad,
           chunks |-> Append(w.chunks, [addr |-> w.at, size |-> size])]
    BY DEF Listing
  <2> HIDE DEF bad
  <2>8. Listing(w, end, size) \in Walkings
    BY <2>5, <2>6, <2>7 DEF Walkings
  <2> QED BY <2>4, <2>8
<1> QED BY <1>1, <1>2, <1>3

\* A walk is what its steps make of the start.
LEMMA WalkMade ==
  ASSUME NEW h, WellFormed(h), NEW end \in Nat
  PROVE  \E f \in [0 .. WalkLimit + 1 -> Walkings] :
           /\ f[0] = [at |-> 6, chunks |-> <<>>, stop |-> FALSE, truncated |-> FALSE]
           /\ \A n \in 1 .. WalkLimit + 1 : f[n] = WalkStep(h, end, f[n - 1])
           /\ Walk(h, end) = SnapshotOf(end, f[WalkLimit + 1])
<1> DEFINE b == [at |-> Start, chunks |-> <<>>, stop |-> FALSE, truncated |-> FALSE]
           N == WalkLimit + 1
           step == [w \in Walkings |-> WalkStep(h, end, w)]
           F(f) == f = [n \in 0 .. N |-> IF n = 0 THEN b ELSE WalkStep(h, end, f[n - 1])]
           g == CHOOSE f : F(f)
<1>0. WalkLimit \in Nat /\ Start = 6
  BY Numbers
<1>1. N \in Nat /\ b \in Walkings /\ step \in [Walkings -> Walkings]
  <2>1. \A w \in Walkings : WalkStep(h, end, w) \in Walkings
    BY WalkStepTyped
  <2>2. b \in Walkings
    BY <1>0 DEF Walkings
  <2>3. N \in Nat
    BY <1>0
  <2> HIDE DEF b, N
  <2> QED BY <2>1, <2>2, <2>3
<1>2. Walk(h, end) = SnapshotOf(end, g[N])
  BY DEF Walk
<1> HIDE DEF N, b
<1>3. PICK f \in [0 .. N -> Walkings] : f[0] = b /\ \A n \in 1 .. N : f[n] = step[f[n - 1]]
  <2> HIDE DEF step
  <2>1. \E f : Iteration(f, Walkings, b, step, N)
    BY <1>1, Iterates
  <2> QED BY <2>1 DEF Iteration
<1>4. \A n \in 1 .. N : f[n] = WalkStep(h, end, f[n - 1])
  <2> SUFFICES ASSUME NEW n \in 1 .. N PROVE f[n] = WalkStep(h, end, f[n - 1])
    OBVIOUS
  <2>1. n - 1 \in 0 .. N
    BY <1>1
  <2>2. f[n - 1] \in Walkings
    BY <1>3, <2>1
  <2> QED BY <1>3, <2>2
<1>5. F(f)
  <2> HIDE DEF step
  <2> QED BY <1>1, <1>3, <1>4
<1>6. F(g)
  <2> HIDE DEF F
  <2> QED BY <1>5
<1>7. g \in [0 .. N -> Walkings] /\ g[0] = b /\ \A n \in 1 .. N : g[n] = WalkStep(h, end, g[n - 1])
  <2>0. g = [n \in 0 .. N |-> IF n = 0 THEN b ELSE WalkStep(h, end, g[n - 1])]
    BY <1>6
  <2> HIDE DEF g, step
  <2>1. DOMAIN g = 0 .. N /\ g = [n \in 0 .. N |-> g[n]]
    BY ONLY <2>0
  <2>2. g[0] = b /\ \A n \in 1 .. N : g[n] = WalkStep(h, end, g[n - 1])
    BY <1>1, <2>0
  <2>3. \A n \in 1 .. N : g[n - 1] \in Walkings => g[n] = step[g[n - 1]]
    BY <2>2 DEF step
  <2>4. Iteration(g, Walkings, b, step, N)
    BY <1>1, <2>1, <2>2, <2>3, Unfolds
  <2> QED BY <2>2, <2>4 DEF Iteration
<1> HIDE DEF g
<1>8. /\ g[0] = [at |-> 6, chunks |-> <<>>, stop |-> FALSE, truncated |-> FALSE]
      /\ \A n \in 1 .. WalkLimit + 1 : g[n] = WalkStep(h, end, g[n - 1])
      /\ Walk(h, end) = SnapshotOf(end, g[WalkLimit + 1])
  BY <1>0, <1>2, <1>7 DEF N, b
<1>9. g \in [0 .. WalkLimit + 1 -> Walkings]
  BY <1>7 DEF N
<1> QED BY <1>8, <1>9

\* Which word is which: the chunks do not overlap.
LEMMA WordsApart ==
  ASSUME NEW h, WellFormed(h), NEW i \in Nat
  PROVE  /\ \A c \in Slots : 6 * i + 1 = c + 1 => c = 6 * i
         /\ \A c \in Slots : 6 * i + 1 # UserOf(c) /\ 6 * i + 1 # UserOf(c) + 1
         /\ \A c \in Slots : /\ 6 * i + 2 # c + 1 /\ 6 * i + 3 # c + 1
                             /\ 6 * i + 2 # UserOf(c) + 1 /\ 6 * i + 3 # UserOf(c)
                             /\ 6 * i + 2 = UserOf(c) => c = 6 * i
                             /\ 6 * i + 3 = UserOf(c) + 1 => c = 6 * i
         /\ 6 * i + 1 = Top(h) + 1 => i = h.carved + 1
         /\ 6 * i + 2 # Top(h) + 1 /\ 6 * i + 3 # Top(h) + 1
<1>1. ASSUME NEW k \in Nat
      PROVE  /\ 6 * i + 1 = 6 * k + 1 => 6 * k = 6 * i
             /\ 6 * i + 1 # 6 * k + 2 /\ 6 * i + 1 # 6 * k + 3
             /\ 6 * i + 2 # 6 * k + 1 /\ 6 * i + 3 # 6 * k + 1
             /\ 6 * i + 2 # 6 * k + 3 /\ 6 * i + 3 # 6 * k + 2
             /\ 6 * i + 2 = 6 * k + 2 => 6 * k = 6 * i
             /\ 6 * i + 3 = 6 * k + 3 => 6 * k = 6 * i
  OBVIOUS
<1>2. ASSUME NEW c \in Slots
      PROVE  \E k \in Nat : c = 6 * k /\ UserOf(c) = 6 * k + 2 /\ UserOf(c) + 1 = 6 * k + 3 /\ c + 1 = 6 * k + 1
  <2>1. PICK k \in 1 .. Chunks : c = 6 * k
    BY SlotsPlaced
  <2>2. k \in Nat
    BY HeapBounds
  <2> QED BY <2>1, <2>2 DEF UserOf, Header
<1>3. h.carved \in Nat /\ Top(h) = 6 * h.carved + 6
  BY HeapTyped
<1>4. /\ 6 * i + 1 = Top(h) + 1 => i = h.carved + 1
      /\ 6 * i + 2 # Top(h) + 1 /\ 6 * i + 3 # Top(h) + 1
  BY <1>3
<1> QED BY <1>1, <1>2, <1>4

\* The size words the allocator keeps.
LEMMA SizeWord ==
  ASSUME NEW h, WellFormed(h), NEW i \in 1 .. h.carved + 1, h.carved > 0,
         h.bad = None \/ h.bad.at # 6 * i + 1
  PROVE  Word(h, 6 * i + 1) = (IF i <= h.carved THEN 6 ELSE h.brk - Top(h))
<1>1. /\ h.carved \in Nat /\ h.carved <= Chunks /\ Top(h) = 6 * h.carved + 6 /\ h.brk \in Nat
      /\ 6 * h.carved + 10 <= h.brk
  BY HeapTyped
<1>2. i \in Nat /\ 1 <= i /\ i <= h.carved + 1
  BY <1>1
<1>3. Readable(h, 6 * i + 1)
  BY <1>1, <1>2, WordTyped
<1>4. Word(h, 6 * i + 1) = Written(h, 6 * i + 1)
  BY <1>3 DEF Word
<1>5. Free(h) \subseteq Slots
  BY FreeCarved DEF Carved
<1>6. CASE i <= h.carved
  <2>1. 6 * i \in Slots /\ 6 * i < Top(h)
    <3>1. i \in 1 .. Chunks
      BY <1>1, <1>2, <1>6, HeapBounds
    <3> QED BY <1>1, <1>2, <1>6, <3>1, SlotsPlaced
  <2>2. \E c \in Slots : c < Top(h) /\ 6 * i + 1 = c + 1
    BY <2>1
  <2>3. /\ 6 * i + 1 # Top(h) + 1
        /\ ~\E c \in Free(h) : 6 * i + 1 = UserOf(c)
        /\ ~\E c \in Free(h) : 6 * i + 1 = UserOf(c) + 1
    BY <1>1, <1>2, <1>5, <1>6, WordsApart
  <2>4. Written(h, 6 * i + 1) = Unit
    BY <2>2, <2>3 DEF Written
  <2> QED BY <1>4, <1>6, <2>4, Numbers
<1>7. CASE ~(i <= h.carved)
  <2>1. i = h.carved + 1 /\ 6 * i + 1 = Top(h) + 1
    BY <1>1, <1>2, <1>7
  <2>2. ~\E c \in Slots : c < Top(h) /\ 6 * i + 1 = c + 1
    <3>1. \A c \in Slots : 6 * i + 1 = c + 1 => c = 6 * i
      BY <1>2, WordsApart
    <3> QED BY <1>1, <2>1, <3>1
  <2>3. /\ ~\E c \in Free(h) : 6 * i + 1 = UserOf(c)
        /\ ~\E c \in Free(h) : 6 * i + 1 = UserOf(c) + 1
    BY <1>2, <1>5, WordsApart
  <2>4. Written(h, 6 * i + 1) = h.brk - Top(h)
    <3> DEFINE a == 6 * i + 1
    <3>1. a = Top(h) + 1
      BY <2>1
    <3>2. ~\E c \in Slots : c < Top(h) /\ a = c + 1
      BY <2>2
    <3>3. (~\E c \in Free(h) : a = UserOf(c)) /\ (~\E c \in Free(h) : a = UserOf(c) + 1)
      BY <2>3
    <3> HIDE DEF a
    <3>4. Written(h, a) = h.brk - Top(h)
      BY <3>1, <3>2, <3>3 DEF Written
    <3> QED BY <3>4 DEF a
  <2> QED BY <1>4, <1>7, <2>4
<1> QED BY <1>6, <1>7

\* A walk made so far of a heap nobody overwrote.
Walking(w, h, end) ==
  /\ w \in Walkings
  /\ Len(w.chunks) <= h.carved + 1
  /\ \A i \in 1 .. Len(w.chunks) :
       /\ w.chunks[i].addr = 6 * i
       /\ w.chunks[i].size = IF i <= h.carved THEN 6 ELSE h.brk - Top(h)
  /\ w.at = IF Len(w.chunks) <= h.carved THEN 6 * Len(w.chunks) + 6 ELSE h.brk
  /\ w.stop => w.at > end
  /\ w.truncated => w.at > end

\* Each step of such a walk lists the next chunk, as long as there is one.
LEMMA WalkingStep ==
  ASSUME NEW h, WellFormed(h), h.carved > 0, h.bad = None,
         NEW end \in Nat, end <= h.brk, NEW w, Walking(w, h, end)
  PROVE  /\ Walking(WalkStep(h, end, w), h, end)
         /\ w.at >= end => WalkStep(h, end, w) = w
         /\ w.at < end => Len(WalkStep(h, end, w).chunks) = Len(w.chunks) + 1
<1>1. /\ h.carved \in Nat /\ h.carved <= Chunks /\ Top(h) = 6 * h.carved + 6 /\ h.brk \in Nat
      /\ 6 * h.carved + 10 <= h.brk /\ h.brk % 2 = 0
  BY HeapTyped
<1>2. /\ w.chunks \in Seq([addr : Nat, size : Nat]) /\ w.at \in Nat /\ Len(w.chunks) \in Nat
      /\ w.stop \in BOOLEAN
  BY DEF Walking, Walkings
<1>3. CASE w.at >= end
  <2>1. WalkStep(h, end, w) = w
    BY <1>3 DEF WalkStep
  <2> QED BY <1>2, <1>3, <2>1
<1>4. CASE ~(w.at >= end)
  <2> DEFINE m == Len(w.chunks)
             size == IF m + 1 <= h.carved THEN 6 ELSE h.brk - Top(h)
  <2>0. m \in Nat
    BY <1>2
  <2>1. ~w.stop /\ m <= h.carved /\ w.at = 6 * (m + 1) /\ 6 * m + 6 = 6 * (m + 1)
    BY <1>1, <1>2, <1>4 DEF Walking
  <2>2. ~(m >= WalkLimit)
    BY <1>1, <2>0, <2>1, HeapBounds
  <2>3. Word(h, w.at + 1) = size
    <3>1. m + 1 \in 1 .. h.carved + 1
      BY <1>1, <2>0, <2>1
    <3>2. PICK i \in 1 .. h.carved + 1 : i = m + 1
      BY <3>1
    <3>3. Word(h, 6 * i + 1) = (IF i <= h.carved THEN 6 ELSE h.brk - Top(h))
      BY SizeWord
    <3> QED BY <2>1, <3>2, <3>3
  <2> HIDE DEF m
  <2>4. Readable(h, w.at + 1)
    <3>1. w.at + 1 \in Nat /\ 6 <= w.at + 1 /\ w.at + 1 < h.brk
      BY <1>1, <1>2, <2>0, <2>1
    <3> QED BY <3>1, WordTyped
  <2>5. size \in Nat /\ ~(size < MinChunk) /\ Normalize(size) = size
    <3>1. CASE m + 1 <= h.carved
      BY <3>1, Numbers DEF Normalize
    <3>2. CASE ~(m + 1 <= h.carved)
      <4>1. PICK z \in Nat : z = h.brk - Top(h)
        BY <1>1
      <4>2. z >= 4 /\ z % 2 = 0
        BY <1>1, <4>1
      <4>3. (z \div 2) * 2 = z
        BY <4>2
      <4> QED BY <3>2, <4>1, <4>2, <4>3, Numbers DEF Normalize
    <3> QED BY <3>1, <3>2
  <2>6. w.at + size = IF m + 1 <= h.carved THEN 6 * (m + 1) + 6 ELSE h.brk
    <3>1. CASE m + 1 <= h.carved
      BY <2>0, <2>1, <3>1
    <3>2. CASE ~(m + 1 <= h.carved)
      <4>1. m = h.carved
        BY <1>1, <2>0, <2>1, <3>2
      <4> QED BY <1>1, <2>0, <2>1, <3>2, <4>1
    <3> QED BY <3>1, <3>2
  <2> HIDE DEF size
  <2> DEFINE x == WalkStep(h, end, w)
             one == [addr |-> w.at, size |-> size]
  <2>7. x = Listing(w, end, size)
    BY <1>4, <2>1, <2>2, <2>3, <2>4, <2>5 DEF WalkStep, m
  <2>8. /\ x.at = w.at + size /\ x.chunks = Append(w.chunks, one)
        /\ x.stop => w.at + size > end
        /\ x.truncated => w.at + size > end
    <3> DEFINE bad == size < MinChunk \/ w.at + size > end
    <3>1. x = [at |-> w.at + size, stop |-> bad, truncated |-> bad, chunks |-> Append(w.chunks, one)]
      BY <2>7 DEF Listing
    <3>2. bad => w.at + size > end
      BY <2>5
    <3> HIDE DEF bad, x, one
    <3>3. x.at = w.at + size /\ x.chunks = Append(w.chunks, one) /\ x.stop = bad /\ x.truncated = bad
      BY <3>1
    <3> QED BY <3>2, <3>3
  <2>9. x \in Walkings
    BY WalkStepTyped DEF Walking
  <2> HIDE DEF x
  <2>10. /\ Len(x.chunks) = m + 1
         /\ \A i \in 1 .. m : x.chunks[i] = w.chunks[i]
         /\ x.chunks[m + 1] = one
    BY <1>2, <2>8 DEF m
  <2>11. one.addr = 6 * (m + 1) /\ one.size = size
    BY <2>1
  <2> HIDE DEF one
  <2>12. \A i \in 1 .. m + 1 :
           /\ x.chunks[i].addr = 6 * i
           /\ x.chunks[i].size = IF i <= h.carved THEN 6 ELSE h.brk - Top(h)
    <3> SUFFICES ASSUME NEW i \in 1 .. m + 1
                 PROVE  /\ x.chunks[i].addr = 6 * i
                        /\ x.chunks[i].size = IF i <= h.carved THEN 6 ELSE h.brk - Top(h)
      OBVIOUS
    <3>1. CASE i = m + 1
      BY <2>10, <2>11, <3>1 DEF size
    <3>2. CASE i # m + 1
      <4>1. i \in 1 .. m
        BY <2>0, <3>2
      <4> QED BY <2>10, <4>1 DEF Walking, m
    <3> QED BY <3>1, <3>2
  <2>13. Walking(x, h, end)
    <3>1. Len(x.chunks) <= h.carved + 1
      BY <1>1, <2>0, <2>1, <2>10
    <3>2. x.at = IF Len(x.chunks) <= h.carved THEN 6 * Len(x.chunks) + 6 ELSE h.brk
      BY <2>6, <2>8, <2>10
    <3>3. (x.stop => x.at > end) /\ (x.truncated => x.at > end)
      BY <2>8
    <3>4. 1 .. Len(x.chunks) = 1 .. m + 1
      BY <2>10
    <3> QED BY <2>9, <2>12, <3>1, <3>2, <3>3, <3>4 DEF Walking
  <2> QED BY <1>2, <1>4, <2>10, <2>13 DEF m, x
<1> QED BY <1>3, <1>4

\* The walk of a heap nobody overwrote lists its chunks one after the other, with their
\* sizes, the top last; up to the end of the heap, it lists them all.
LEMMA SoundWalk ==
  ASSUME NEW h, WellFormed(h), h.carved > 0, h.bad = None, NEW end \in Nat, end <= h.brk
  PROVE  LET w == Walk(h, end) IN
         /\ w \in Walks /\ w.end = end
         /\ Len(w.chunks) <= h.carved + 1
         /\ \A i \in 1 .. Len(w.chunks) :
              /\ w.chunks[i].addr = 6 * i
              /\ w.chunks[i].size = IF i <= h.carved THEN 6 ELSE h.brk - Top(h)
         /\ end = h.brk => Len(w.chunks) = h.carved + 1 /\ ~w.truncated
<1>1. /\ h.carved \in Nat /\ h.carved <= Chunks /\ Top(h) = 6 * h.carved + 6 /\ h.brk \in Nat
      /\ 6 * h.carved + 10 <= h.brk /\ WalkLimit \in Nat /\ h.carved < WalkLimit
  BY HeapTyped, HeapBounds
<1>2. PICK f \in [0 .. WalkLimit + 1 -> Walkings] :
           /\ f[0] = [at |-> 6, chunks |-> <<>>, stop |-> FALSE, truncated |-> FALSE]
           /\ \A n \in 1 .. WalkLimit + 1 : f[n] = WalkStep(h, end, f[n - 1])
           /\ Walk(h, end) = SnapshotOf(end, f[WalkLimit + 1])
  BY WalkMade
<1> DEFINE N == WalkLimit + 1
           S == {n \in 0 .. N : /\ Walking(f[n], h, end)
                                /\ f[n].at >= end \/ Len(f[n].chunks) = n}
<1>3. 0 \in S
  BY <1>1, <1>2 DEF Walking
<1>4. ASSUME NEW n \in 0 .. N - 1, n \in S PROVE n + 1 \in S
  <2>1. PICK k \in 1 .. N : k = n + 1
    BY <1>1
  <2>2. f[k] = WalkStep(h, end, f[k - 1]) /\ k - 1 = n
    BY <1>2, <2>1
  <2> DEFINE u == f[n]
             v == f[k]
  <2>3. Walking(u, h, end) /\ (u.at >= end \/ Len(u.chunks) = n) /\ v = WalkStep(h, end, u)
    BY <1>4, <2>2
  <2> HIDE DEF u, v
  <2>4. Walking(v, h, end) /\ (v = u \/ Len(v.chunks) = Len(u.chunks) + 1) /\ (u.at >= end => v = u)
    <3>1. u.at \in Nat
      BY <2>3 DEF Walking, Walkings
    <3> QED BY <2>3, <3>1, WalkingStep
  <2>5. v.at >= end \/ Len(v.chunks) = k
    <3>1. u.at \in Nat
      BY <2>3 DEF Walking, Walkings
    <3>2. CASE u.at >= end
      BY <2>3, <2>4, <3>2
    <3>3. CASE u.at < end
      BY <2>1, <2>3, <3>3, WalkingStep
    <3> QED BY <3>1, <3>2, <3>3
  <2> QED BY <2>1, <2>4, <2>5 DEF v
<1> DEFINE w == f[N]
<1>5. Walking(w, h, end) /\ (w.at >= end \/ Len(w.chunks) = N)
  <2>1. N \in Nat /\ N \in 0 .. N
    BY <1>1
  <2> HIDE DEF S, N
  <2>2. N \in S
    BY <1>3, <1>4, <2>1, Induct
  <2> QED BY <2>2 DEF S
<1>6. Walk(h, end) = SnapshotOf(end, w)
  BY <1>2
<1> HIDE DEF w, S
<1>7. /\ w \in Walkings /\ w.at \in Nat /\ Len(w.chunks) \in Nat /\ w.at >= end
  <2>1. w \in Walkings /\ Len(w.chunks) <= h.carved + 1
    BY <1>5 DEF Walking
  <2>2. w.at \in Nat /\ Len(w.chunks) \in Nat
    BY <2>1 DEF Walkings
  <2> HIDE DEF N
  <2>3. Len(w.chunks) # N
    BY <1>1, <2>1, <2>2 DEF N
  <2> QED BY <1>5, <2>1, <2>2, <2>3
<1>8. SnapshotOf(end, w) \in Walks
  BY <1>7 DEF Walkings, Walks, SnapshotOf
<1>9. end = h.brk => Len(w.chunks) = h.carved + 1 /\ ~w.truncated
  BY <1>1, <1>5, <1>7, SMTT(30) DEF Walking
<1> QED BY <1>5, <1>6, <1>8, <1>9 DEF SnapshotOf, Walking

\* Every walk is a snapshot of the heap.
LEMMA WalkTyped ==
  ASSUME NEW h, WellFormed(h), NEW end \in Nat
  PROVE  Walk(h, end) \in Walks /\ Walk(h, end).end = end
<1>1. PICK f \in [0 .. WalkLimit + 1 -> Walkings] : Walk(h, end) = SnapshotOf(end, f[WalkLimit + 1])
  BY WalkMade
<1>2. WalkLimit + 1 \in 0 .. WalkLimit + 1
  BY HeapBounds
<1>3. f[WalkLimit + 1] \in Walkings
  BY <1>1, <1>2
<1> QED BY <1>1, <1>3 DEF SnapshotOf, Walks, Walkings

\* The size a walk gives a chunk is a number, if it gives one.
LEMMA WalkedSizeTyped ==
  ASSUME NEW walk \in Walks, NEW c
  PROVE  WalkedSize(c, walk) \in Nat \cup {None}
<1> DEFINE i == CHOOSE j \in DOMAIN walk.chunks : walk.chunks[j].addr = c
<1>1. CASE Walked(c, walk)
  <2>1. i \in DOMAIN walk.chunks
    BY <1>1 DEF Walked
  <2>2. WalkedSize(c, walk) = walk.chunks[i].size
    BY <1>1 DEF WalkedSize
  <2> HIDE DEF i
  <2>3. walk.chunks \in Seq([addr : Nat, size : Nat])
    BY DEF Walks
  <2>4. walk.chunks[i] \in [addr : Nat, size : Nat]
    <3> DEFINE R == [addr : Nat, size : Nat]
               s == walk.chunks
    <3>1. s \in Seq(R) /\ i \in DOMAIN s
      BY <2>1, <2>3
    <3> HIDE DEF R, s
    <3>2. DOMAIN s = 1 .. Len(s)
      BY <3>1
    <3>3. s[i] \in R
      BY <3>1, <3>2
    <3> QED BY <3>3 DEF R, s
  <2> QED BY <2>2, <2>4
<1>2. CASE ~Walked(c, walk)
  BY <1>2 DEF WalkedSize
<1> QED BY <1>1, <1>2

-----------------------------------------------------------------------------
(* The readers of the bins                                                 *)

Readings == [cur : Nat, nodes : Seq(ChainNodes), end : ChainEnds]

\* A node read is one, with a link that is a number.
LEMMA NodeTyped ==
  ASSUME NEW h, WellFormed(h), NEW walk \in Walks, NEW t, NEW c \in Nat, Readable(h, UserOf(c))
  PROVE  /\ Node(h, walk, t, c) \in ChainNodes
         /\ Node(h, walk, t, c).chunk = c /\ Node(h, walk, t, c).user = UserOf(c)
         /\ Node(h, walk, t, c).fd = Word(h, UserOf(c)) /\ Word(h, UserOf(c)) \in Nat
         /\ Node(h, walk, t, c).bk = Word(h, UserOf(c) + 1)
         /\ Node(h, walk, t, c).size = WalkedSize(c, walk)
         /\ Node(h, walk, t, c).freed = KnownFreed(t, UserOf(c))
         /\ Reveal(Word(h, UserOf(c))) \in Nat
<1>1. UserOf(c) \in Nat /\ UserOf(c) + 1 \in Nat
  BY DEF UserOf, Header
<1>2. Word(h, UserOf(c)) \in Nat /\ Word(h, UserOf(c) + 1) \in Nat \cup {None}
  BY <1>1, WordTyped
<1>3. WalkedSize(c, walk) \in Nat \cup {None}
  BY WalkedSizeTyped
<1>4. KnownFreed(t, UserOf(c)) \in Answers
  BY DEF KnownFreed, Answers
<1>5. Reveal(Word(h, UserOf(c))) \in Nat
  BY <1>2, Numbers DEF Reveal
<1> QED BY <1>1, <1>2, <1>3, <1>4, <1>5 DEF Node, ChainNodes

\* A node is read, or the reading ends.
LEMMA ReadingParts ==
  ASSUME NEW r \in Readings, NEW node \in ChainNodes, NEW next \in Nat, NEW stop, NEW walk
  PROVE  Follow(r, node, next, stop, walk) \in Readings
<1>1. Append(r.nodes, node) \in Seq(ChainNodes)
  BY DEF Readings
<1>2. (IF next = stop THEN "complete"
       ELSE IF Plausible(next, walk) THEN "reading" ELSE "unknown_next") \in ChainEnds
  BY DEF ChainEnds
<1> QED BY <1>1, <1>2 DEF Follow, Readings

\* A walk that stops leaves a reading.
LEMMA StopTyped ==
  ASSUME NEW r \in Readings, NEW end \in ChainEnds
  PROVE  Stop(r, end) \in Readings
BY DEF Stop, Readings

\* The steps of a fastbin's reading.
LEMMA FastbinStepTyped ==
  ASSUME NEW h, WellFormed(h), NEW walk \in Walks, NEW t, NEW r \in Readings
  PROVE  FastbinStep(h, walk, t, r) \in Readings
<1>1. r.cur \in Nat
  BY DEF Readings
<1>2. ASSUME NEW end \in {"truncated", "cycle", "unknown_next"} PROVE Stop(r, end) \in Readings
  BY StopTyped DEF ChainEnds
<1>3. ASSUME Readable(h, UserOf(r.cur)) PROVE FollowHidden(r, Node(h, walk, t, r.cur), walk) \in Readings
  BY <1>1, <1>3, NodeTyped, ReadingParts DEF FollowHidden
<1> QED BY <1>2, <1>3 DEF FastbinStep

\* The steps of a linked bin's reading.
LEMMA LinkedStepTyped ==
  ASSUME NEW h, WellFormed(h), NEW walk \in Walks, NEW t, NEW bin, NEW r \in Readings
  PROVE  LinkedStep(h, walk, t, bin, r) \in Readings
<1>1. r.cur \in Nat
  BY DEF Readings
<1>2. ASSUME NEW end \in {"complete", "truncated", "cycle", "unknown_next"}
      PROVE  Stop(r, end) \in Readings
  BY StopTyped DEF ChainEnds
<1>3. ASSUME Readable(h, UserOf(r.cur))
      PROVE  FollowFd(r, Node(h, walk, t, r.cur), FieldOf(bin), walk) \in Readings
  BY <1>1, <1>3, NodeTyped, ReadingParts DEF FollowFd
<1>4. 0 \in LinkWords(bin) /\ UserOf(r.cur) + 0 = UserOf(r.cur)
  BY <1>1 DEF LinkWords, UserOf, Header
<1> QED BY <1>2, <1>3, <1>4 DEF LinkedStep

\* The steps of a reading, from the head of the bin on.
ReadsFastbin(f, h, walk, t, head) ==
  /\ f \in [0 .. ChainLimit + 1 -> Readings] /\ f[0] = Begin(head)
  /\ \A n \in 1 .. ChainLimit + 1 : f[n] = FastbinStep(h, walk, t, f[n - 1])

ReadsLinked(f, h, walk, t, bin, head) ==
  /\ f \in [0 .. ChainLimit + 1 -> Readings] /\ f[0] = Begin(head)
  /\ \A n \in 1 .. ChainLimit + 1 : f[n] = LinkedStep(h, walk, t, bin, f[n - 1])

\* A reading of a fastbin is what its steps make of the head.
LEMMA FastbinMade ==
  ASSUME NEW h, WellFormed(h), NEW walk \in Walks, NEW t, NEW head \in Nat
  PROVE  \E f :
           /\ ReadsFastbin(f, h, walk, t, head)
           /\ FastbinChain(h, walk, t, head) = FastbinOf(head, f[ChainLimit + 1])
<1> DEFINE b == Begin(head)
           N == ChainLimit + 1
           step == [r \in Readings |-> FastbinStep(h, walk, t, r)]
           F(f) == f = [n \in 0 .. N |-> IF n = 0 THEN b ELSE FastbinStep(h, walk, t, f[n - 1])]
           g == CHOOSE f : F(f)
<1>1. N \in Nat /\ b \in Readings /\ step \in [Readings -> Readings]
  <2>1. \A r \in Readings : FastbinStep(h, walk, t, r) \in Readings
    BY FastbinStepTyped
  <2>2. b \in Readings
    BY DEF Begin, Readings, ChainEnds
  <2>3. N \in Nat
    BY ChainBound
  <2> HIDE DEF b, N
  <2> QED BY <2>1, <2>2, <2>3
<1>2. FastbinChain(h, walk, t, head) = FastbinOf(head, g[N])
  BY DEF FastbinChain
<1> HIDE DEF N, b
<1>3. PICK f \in [0 .. N -> Readings] : f[0] = b /\ \A n \in 1 .. N : f[n] = step[f[n - 1]]
  <2> HIDE DEF step
  <2>1. \E f : Iteration(f, Readings, b, step, N)
    BY <1>1, Iterates
  <2> QED BY <2>1 DEF Iteration
<1>4. \A n \in 1 .. N : f[n] = FastbinStep(h, walk, t, f[n - 1])
  <2> SUFFICES ASSUME NEW n \in 1 .. N PROVE f[n] = FastbinStep(h, walk, t, f[n - 1])
    OBVIOUS
  <2>1. n - 1 \in 0 .. N
    BY <1>1
  <2>2. f[n - 1] \in Readings
    BY <1>3, <2>1
  <2> QED BY <1>3, <2>2
<1>5. F(f)
  <2> HIDE DEF step
  <2> QED BY <1>1, <1>3, <1>4
<1>6. F(g)
  <2> HIDE DEF F
  <2> QED BY <1>5
<1>7. g \in [0 .. N -> Readings] /\ g[0] = b /\ \A n \in 1 .. N : g[n] = FastbinStep(h, walk, t, g[n - 1])
  <2>0. g = [n \in 0 .. N |-> IF n = 0 THEN b ELSE FastbinStep(h, walk, t, g[n - 1])]
    BY <1>6
  <2> HIDE DEF g, step
  <2>1. DOMAIN g = 0 .. N /\ g = [n \in 0 .. N |-> g[n]]
    BY ONLY <2>0
  <2>2. g[0] = b /\ \A n \in 1 .. N : g[n] = FastbinStep(h, walk, t, g[n - 1])
    BY <1>1, <2>0
  <2>3. \A n \in 1 .. N : g[n - 1] \in Readings => g[n] = step[g[n - 1]]
    BY <2>2 DEF step
  <2>4. Iteration(g, Readings, b, step, N)
    BY <1>1, <2>1, <2>2, <2>3, Unfolds
  <2> QED BY <2>2, <2>4 DEF Iteration
<1> HIDE DEF g
<1> QED BY <1>2, <1>7 DEF N, b, ReadsFastbin

\* A reading of a linked bin is what its steps make of the head.
LEMMA LinkedMade ==
  ASSUME NEW h, WellFormed(h), NEW walk \in Walks, NEW t, NEW bin, NEW head \in Nat, NEW tail
  PROVE  \E f :
           /\ ReadsLinked(f, h, walk, t, bin, head)
           /\ LinkedChain(h, walk, t, bin, head, tail) = LinkedOf(bin, head, head = FieldOf(bin) /\ tail = FieldOf(bin), f[ChainLimit + 1])
<1> DEFINE b == Begin(head)
           N == ChainLimit + 1
           step == [r \in Readings |-> LinkedStep(h, walk, t, bin, r)]
           F(f) == f = [n \in 0 .. N |-> IF n = 0 THEN b ELSE LinkedStep(h, walk, t, bin, f[n - 1])]
           g == CHOOSE f : F(f)
<1>1. N \in Nat /\ b \in Readings /\ step \in [Readings -> Readings]
  <2>1. \A r \in Readings : LinkedStep(h, walk, t, bin, r) \in Readings
    BY LinkedStepTyped
  <2>2. b \in Readings
    BY DEF Begin, Readings, ChainEnds
  <2>3. N \in Nat
    BY ChainBound
  <2> HIDE DEF b, N
  <2> QED BY <2>1, <2>2, <2>3
<1>2. LinkedChain(h, walk, t, bin, head, tail) = LinkedOf(bin, head, head = FieldOf(bin) /\ tail = FieldOf(bin), g[N])
  BY DEF LinkedChain
<1> HIDE DEF N, b
<1>3. PICK f \in [0 .. N -> Readings] : f[0] = b /\ \A n \in 1 .. N : f[n] = step[f[n - 1]]
  <2> HIDE DEF step
  <2>1. \E f : Iteration(f, Readings, b, step, N)
    BY <1>1, Iterates
  <2> QED BY <2>1 DEF Iteration
<1>4. \A n \in 1 .. N : f[n] = LinkedStep(h, walk, t, bin, f[n - 1])
  <2> SUFFICES ASSUME NEW n \in 1 .. N PROVE f[n] = LinkedStep(h, walk, t, bin, f[n - 1])
    OBVIOUS
  <2>1. n - 1 \in 0 .. N
    BY <1>1
  <2>2. f[n - 1] \in Readings
    BY <1>3, <2>1
  <2> QED BY <1>3, <2>2
<1>5. F(f)
  <2> HIDE DEF step
  <2> QED BY <1>1, <1>3, <1>4
<1>6. F(g)
  <2> HIDE DEF F
  <2> QED BY <1>5
<1>7. g \in [0 .. N -> Readings] /\ g[0] = b /\ \A n \in 1 .. N : g[n] = LinkedStep(h, walk, t, bin, g[n - 1])
  <2>0. g = [n \in 0 .. N |-> IF n = 0 THEN b ELSE LinkedStep(h, walk, t, bin, g[n - 1])]
    BY <1>6
  <2> HIDE DEF g, step
  <2>1. DOMAIN g = 0 .. N /\ g = [n \in 0 .. N |-> g[n]]
    BY ONLY <2>0
  <2>2. g[0] = b /\ \A n \in 1 .. N : g[n] = LinkedStep(h, walk, t, bin, g[n - 1])
    BY <1>1, <2>0
  <2>3. \A n \in 1 .. N : g[n - 1] \in Readings => g[n] = step[g[n - 1]]
    BY <2>2 DEF step
  <2>4. Iteration(g, Readings, b, step, N)
    BY <1>1, <2>1, <2>2, <2>3, Unfolds
  <2> QED BY <2>2, <2>4 DEF Iteration
<1> HIDE DEF g
<1> QED BY <1>2, <1>7 DEF N, b, ReadsLinked

\* The ends of a bin's list are addresses.
LEMMA EndsTyped ==
  ASSUME NEW h, WellFormed(h), NEW b \in Bins
  PROVE  /\ HeadOf(h, b) \in Nat /\ TailOf(h, b) \in Nat /\ HeaderOf(h, b) \in Nat
         /\ 1000 < FieldOf(b) /\ FieldOf(b) \in Nat /\ FieldOf(b) % 2 = 0 /\ FieldOf(b) < 1050
         /\ HeaderOf(h, b) = FieldOf(b) - h.skew
<1>1. h.skew \in {0, 2} /\ h.lists[b] \in Seq(Nat)
  BY HeapTyped DEF Lists
<1>2. 1000 < FieldOf(b) /\ FieldOf(b) \in Nat /\ FieldOf(b) % 2 = 0 /\ FieldOf(b) < 1050
  BY DEF FieldOf, Bins
<1>3. HeaderOf(h, b) \in Nat /\ HeaderOf(h, b) = FieldOf(b) - h.skew
  BY <1>1, <1>2 DEF HeaderOf
<1>4. NULL \in Nat
  BY DEF NULL
<1> HIDE DEF NULL
<1>5. HeadOf(h, b) \in Nat
  <2> DEFINE end == IF b = "fastbin" THEN NULL ELSE HeaderOf(h, b)
  <2>1. end \in Nat
    BY <1>3, <1>4
  <2> HIDE DEF end
  <2>2. Neighbour(h.lists[b], 1, end) \in Nat
    BY <1>1, <2>1, NeighbourTyped
  <2> QED BY <2>2 DEF HeadOf, end
<1>6. TailOf(h, b) \in Nat
  BY <1>1, <1>3, NeighbourTyped DEF TailOf
<1> QED BY <1>2, <1>3, <1>5, <1>6

\* A chain read is one, of what was read last.
LEMMA ChainsTyped ==
  ASSUME NEW r \in Readings, NEW head \in Nat, NEW bin, NEW empty \in BOOLEAN
  PROVE  /\ FastbinOf(head, r) \in Chains /\ FastbinOf(head, r).nodes = r.nodes
         /\ FastbinOf(head, r).end = r.end /\ FastbinOf(head, r).head = head
         /\ LinkedOf(bin, head, empty, r) \in Chains /\ LinkedOf(bin, head, empty, r).nodes = r.nodes
         /\ LinkedOf(bin, head, empty, r).end = r.end /\ LinkedOf(bin, head, empty, r).head = head
         /\ LinkedOf(bin, head, empty, r).empty = empty
         /\ LinkedOf(bin, head, empty, r).consistent = (empty \/ Consistent(r.nodes, r.end, bin))
<1>1. (empty \/ Consistent(r.nodes, r.end, bin)) \in BOOLEAN
  BY DEF Consistent
<1>2. r.nodes \in Seq(ChainNodes) /\ r.end \in ChainEnds
  BY DEF Readings
<1>3. FastbinOf(head, r) \in Chains
  BY <1>2 DEF FastbinOf, Chains
<1>4. LinkedOf(bin, head, empty, r) \in Chains
  BY <1>1, <1>2 DEF LinkedOf, Chains
<1> QED BY <1>3, <1>4 DEF FastbinOf, LinkedOf

\* The readers give back chains.
LEMMA ReadersTyped ==
  ASSUME NEW h, WellFormed(h), NEW walk \in Walks, NEW t, NEW head \in Nat, NEW bin, NEW tail
  PROVE  FastbinChain(h, walk, t, head) \in Chains /\ LinkedChain(h, walk, t, bin, head, tail) \in Chains
<1>0. ChainLimit + 1 \in 0 .. ChainLimit + 1
  BY ChainBound
<1>1. FastbinChain(h, walk, t, head) \in Chains
  <2>1. PICK f : /\ ReadsFastbin(f, h, walk, t, head)
                 /\ FastbinChain(h, walk, t, head) = FastbinOf(head, f[ChainLimit + 1])
    BY FastbinMade
  <2>2. f[ChainLimit + 1] \in Readings
    BY <1>0, <2>1 DEF ReadsFastbin
  <2> DEFINE r == f[ChainLimit + 1]
  <2>3. \A e \in BOOLEAN : FastbinOf(head, r) \in Chains
    <3> HIDE DEF r
    <3> QED BY <2>2, ChainsTyped DEF r
  <2>4. TRUE \in BOOLEAN
    OBVIOUS
  <2> QED BY <2>1, <2>3, <2>4
<1>2. LinkedChain(h, walk, t, bin, head, tail) \in Chains
  <2> DEFINE empty == head = FieldOf(bin) /\ tail = FieldOf(bin)
  <2>1. PICK f : /\ ReadsLinked(f, h, walk, t, bin, head)
                 /\ LinkedChain(h, walk, t, bin, head, tail) = LinkedOf(bin, head, empty, f[ChainLimit + 1])
    BY LinkedMade
  <2>2. f[ChainLimit + 1] \in Readings
    BY <1>0, <2>1 DEF ReadsLinked
  <2>3. empty \in BOOLEAN
    OBVIOUS
  <2> HIDE DEF empty
  <2> QED BY <2>1, <2>2, <2>3, ChainsTyped
<1> QED BY <1>1, <1>2

\* The place of a bin in the array, and the heads found there.
LEMMA RegularTyped ==
  ASSUME NEW h, NEW limit \in Nat
  PROVE  /\ \A x \in RegularBins(h, limit) :
              x.role \in Linked /\ x.fd = HeadOf(h, x.role) /\ x.bk = TailOf(h, x.role)
         /\ limit > 3 => \E x \in RegularBins(h, limit) : x.role = "smallbin"
         /\ limit > 70 => \E x \in RegularBins(h, limit) : x.role = "largebin"
<1>1. P!Role(0) = "unsorted" /\ P!Role(3) = "smallbin" /\ P!Role(70) = "largebin"
  BY DEF P!Role, P!GlibcIndex
<1>2. \A i \in Places : P!Role(i) \in Linked
  BY <1>1 DEF Places, Linked, Bins
<1>3. \A i \in Places : i < limit =>
        [role |-> P!Role(i), fd |-> HeadOf(h, P!Role(i)), bk |-> TailOf(h, P!Role(i))] \in RegularBins(h, limit)
  BY DEF RegularBins
<1>4. \A x \in RegularBins(h, limit) :
        \E i \in Places : x = [role |-> P!Role(i), fd |-> HeadOf(h, P!Role(i)), bk |-> TailOf(h, P!Role(i))]
  BY DEF RegularBins
<1>5. \A x \in RegularBins(h, limit) :
        x.role \in Linked /\ x.fd = HeadOf(h, x.role) /\ x.bk = TailOf(h, x.role)
  BY <1>2, <1>4
<1>6. limit > 3 => \E x \in RegularBins(h, limit) : x.role = "smallbin"
  <2>1. 3 \in Places
    BY DEF Places
  <2> QED BY <1>1, <1>3, <2>1
<1>7. limit > 70 => \E x \in RegularBins(h, limit) : x.role = "largebin"
  <2>1. 70 \in Places
    BY DEF Places
  <2> QED BY <1>1, <1>3, <2>1
<1> QED BY <1>5, <1>6, <1>7

\* The chain a bin is read as, if it is.
LEMMA ChainRead ==
  ASSUME NEW h, WellFormed(h), NEW walk \in Walks, NEW t, NEW limit \in Nat, NEW b \in Bins
  PROVE  \E chain \in {None, IF b = "fastbin" THEN FastbinChain(h, walk, t, HeadOf(h, b))
                             ELSE LinkedChain(h, walk, t, b, HeadOf(h, b), TailOf(h, b))} :
           /\ ReadBin(h, walk, t, limit, b) = Judged(b, chain, walk.end)
           /\ b = "fastbin" => (chain = None <=> HeadOf(h, b) = NULL)
           /\ chain = None /\ b # "fastbin" =>
                (b = "smallbin" /\ ~(limit > 3)) \/ (b = "largebin" /\ ~(limit > 70))
<1> DEFINE linked == LinkedChain(h, walk, t, b, HeadOf(h, b), TailOf(h, b))
           fast == FastbinChain(h, walk, t, HeadOf(h, b))
           heads == {x \in RegularBins(h, limit) : x.role = b}
           first == CHOOSE x \in heads : TRUE
<1>0. linked # None /\ fast # None
  <2>1. linked \in Chains /\ fast \in Chains
    BY EndsTyped, ReadersTyped, ZenonT(60)
  <2> QED BY <2>1, NoneIsNoSnapshot
<1>1. CASE b = "fastbin"
  <2>1. ReadBin(h, walk, t, limit, b) = Judged(b, FastbinsSnapshot(h, walk, t), walk.end)
    BY <1>1 DEF ReadBin
  <2>2. FastbinsSnapshot(h, walk, t) = IF HeadOf(h, b) = NULL THEN None ELSE fast
    BY <1>1 DEF FastbinsSnapshot
  <2> HIDE DEF fast, linked
  <2> QED BY <1>0, <1>1, <2>1, <2>2 DEF fast
<1>2. CASE b = "unsorted"
  <2>1. ReadBin(h, walk, t, limit, b) = Judged(b, UnsortedSnapshot(h, walk, t), walk.end)
    BY <1>2 DEF ReadBin
  <2>2. UnsortedSnapshot(h, walk, t) = linked
    BY <1>2 DEF UnsortedSnapshot, UnsortedChain
  <2> HIDE DEF fast, linked
  <2> QED BY <1>0, <1>2, <2>1, <2>2 DEF linked
<1>3. ASSUME heads # {} PROVE first.fd = HeadOf(h, b) /\ first.bk = TailOf(h, b)
  <2>1. first \in heads
    BY <1>3
  <2> QED BY <2>1, RegularTyped
<1>4. CASE b = "smallbin"
  <2>1. ReadBin(h, walk, t, limit, b) = Judged(b, SmallbinsSnapshot(h, walk, t, limit), walk.end)
    BY <1>4 DEF ReadBin
  <2>2. SmallbinsSnapshot(h, walk, t, limit) =
          IF heads = {} THEN None ELSE LinkedChain(h, walk, t, b, first.fd, first.bk)
    BY <1>4 DEF SmallbinsSnapshot, SmallbinChain
  <2>3. limit > 3 => heads # {}
    BY <1>4, RegularTyped
  <2> HIDE DEF fast, heads, first
  <2>4. SmallbinsSnapshot(h, walk, t, limit) = IF heads = {} THEN None ELSE linked
    BY <1>3, <2>2
  <2> HIDE DEF linked
  <2> QED BY <1>0, <1>4, <2>1, <2>3, <2>4 DEF linked
<1>5. CASE b = "largebin"
  <2>1. ReadBin(h, walk, t, limit, b) = Judged(b, LargebinsSnapshot(h, walk, t, limit), walk.end)
    BY <1>5 DEF ReadBin
  <2>2. LargebinsSnapshot(h, walk, t, limit) =
          IF heads = {} THEN None ELSE LinkedChain(h, walk, t, b, first.fd, first.bk)
    BY <1>5 DEF LargebinsSnapshot, LargebinChain
  <2>3. limit > 70 => heads # {}
    BY <1>5, RegularTyped
  <2> HIDE DEF fast, heads, first
  <2>4. LargebinsSnapshot(h, walk, t, limit) = IF heads = {} THEN None ELSE linked
    BY <1>3, <2>2
  <2> HIDE DEF linked
  <2> QED BY <1>0, <1>5, <2>1, <2>3, <2>4 DEF linked
<1> QED BY <1>1, <1>2, <1>4, <1>5 DEF Bins

\* A verdict is one of three.
LEMMA VerdictTyped ==
  ASSUME NEW answers
  PROVE  /\ Verdict(answers) \in Verdicts
         /\ Verdict(answers) = "plausible" <=> "no" \notin answers /\ "unknown" \notin answers
         /\ Verdict(answers) = "suspicious" <=> "no" \in answers
BY DEF Verdict, Verdicts

\* A bin read is a snapshot.
LEMMA JudgedTyped ==
  ASSUME NEW b \in Bins, NEW chain \in Chains \cup {None}, NEW end
  PROVE  /\ Judged(b, chain, end) \in Snapshots /\ Judged(b, chain, end).chain = chain
         /\ Judged(b, chain, end) # None
         /\ chain = None => Judged(b, chain, end).verdict = None
<1> DEFINE v == IF chain = None THEN None
               ELSE IF b = "fastbin" THEN ValidateFastbins(chain, end)
               ELSE IF b = "unsorted" THEN ValidateUnsorted(chain, end)
               ELSE IF chain.empty THEN None
               ELSE IF b = "smallbin" THEN ValidateSmallbins(chain)
               ELSE ValidateLargebins(chain)
<1>1. Judged(b, chain, end) = [chain |-> chain, verdict |-> v]
  BY DEF Judged
<1>2. /\ ValidateFastbins(chain, end) \in Verdicts /\ ValidateUnsorted(chain, end) \in Verdicts
      /\ ValidateSmallbins(chain) \in Verdicts /\ ValidateLargebins(chain) \in Verdicts
  BY VerdictTyped DEF ValidateFastbins, ValidateUnsorted, ValidateSmallbins, ValidateLargebins
<1>3. v \in Verdicts \cup {None} /\ (chain = None => v = None)
  BY <1>2
<1> HIDE DEF v
<1>4. Judged(b, chain, end) \in Snapshots
  BY <1>1, <1>3 DEF Snapshots
<1> QED BY <1>1, <1>3, <1>4, NoneIsNoSnapshot

\* Reading a bin gives a snapshot.
LEMMA ReadBinTyped ==
  ASSUME NEW h, WellFormed(h), NEW walk \in Walks, NEW t, NEW limit \in Nat, NEW b \in Bins
  PROVE  ReadBin(h, walk, t, limit, b) \in Snapshots /\ ReadBin(h, walk, t, limit, b) # None
<1> DEFINE c == IF b = "fastbin" THEN FastbinChain(h, walk, t, HeadOf(h, b))
                ELSE LinkedChain(h, walk, t, b, HeadOf(h, b), TailOf(h, b))
<1>1. PICK chain \in {None, c} : ReadBin(h, walk, t, limit, b) = Judged(b, chain, walk.end)
  BY ChainRead
<1>2. c \in Chains
  BY EndsTyped, ReadersTyped, ZenonT(60)
<1> HIDE DEF c
<1> QED BY <1>1, <1>2, JudgedTyped

\* A snapshot that lists no chunk and gives no alarm, unless the header of the bin is
\* not where the profile says.
Bare(b, snapshot, aligned) ==
  /\ snapshot \in Snapshots
  /\ snapshot.chain # None =>
       /\ b # "fastbin" /\ snapshot.chain.nodes = <<>> /\ snapshot.chain.end # "cycle"
       /\ aligned => snapshot.chain.end # "unknown_next"
  /\ aligned \/ snapshot.chain = None => snapshot.verdict # "suspicious"

\* No address of the arena is one of the heap.
LEMMA ArenaApart ==
  ASSUME NEW h, WellFormed(h), NEW walk \in Walks, walk.end <= h.brk, NEW p \in Nat, 1000 <= p
  PROVE  ~Plausible(p, walk)
<1>1. h.brk \in Nat /\ h.brk < 1000 /\ walk.end \in Nat
  BY HeapTyped DEF Walks
<1> QED BY <1>1 DEF Plausible, PointsIntoHeap

\* An empty linked bin is read as one, unless its header lies below its fd word.
LEMMA EmptyChain ==
  ASSUME NEW h, WellFormed(h), NEW walk \in Walks, walk.end <= h.brk, NEW t,
         NEW b \in Linked, h.lists[b] = <<>>
  PROVE  LET c == LinkedChain(h, walk, t, b, HeadOf(h, b), TailOf(h, b)) IN
         /\ c \in Chains /\ c.nodes = <<>> /\ c.empty = (h.skew = 0) /\ c.consistent = c.empty
         /\ c.end = IF h.skew = 0 THEN "complete"
                    ELSE IF ChainLimit = 0 THEN "truncated" ELSE "unknown_next"
<1> DEFINE head == HeadOf(h, b)
           tail == TailOf(h, b)
           empty == head = FieldOf(b) /\ tail = FieldOf(b)
           e == IF h.skew = 0 THEN "complete" ELSE IF ChainLimit = 0 THEN "truncated" ELSE "unknown_next"
           N == ChainLimit + 1
<1>0. b \in Bins /\ b # "fastbin" /\ ChainLimit \in Nat /\ h.skew \in {0, 2} /\ walk.end \in Nat
  BY ChainBound, HeapTyped DEF Linked, Bins, Walks
<1>1. head = HeaderOf(h, b) /\ tail = HeaderOf(h, b) /\ head \in Nat /\ 1000 <= head
  BY <1>0, EndsTyped DEF HeadOf, TailOf, Neighbour
<1>2. head = FieldOf(b) <=> h.skew = 0
  BY <1>0, <1>1, EndsTyped
<1>3. empty \in BOOLEAN /\ empty = (h.skew = 0)
  BY <1>1, <1>2
<1>3a. PICK f : /\ ReadsLinked(f, h, walk, t, b, head)
                /\ LinkedChain(h, walk, t, b, head, tail) = LinkedOf(b, head, empty, f[N])
  <2> HIDE DEF head, tail
  <2> QED BY <1>1, LinkedMade
<1>4. /\ f \in [0 .. N -> Readings] /\ f[0] = Begin(head)
      /\ \A n \in 1 .. N : f[n] = LinkedStep(h, walk, t, b, f[n - 1])
      /\ LinkedChain(h, walk, t, b, head, tail) = LinkedOf(b, head, empty, f[N])
  BY <1>3a DEF ReadsLinked
<1> DEFINE last == [cur |-> head, nodes |-> <<>>, end |-> e]
<1>5. LinkedStep(h, walk, t, b, Begin(head)) = last
  <2>1. ~Plausible(head, walk)
    BY <1>1, ArenaApart
  <2>2. Begin(head).end = "reading" /\ Begin(head).cur = head /\ Begin(head).nodes = <<>>
    BY DEF Begin
  <2>3. Len(Begin(head).nodes) >= ChainLimit <=> ChainLimit = 0
    BY <1>0, <2>2
  <2>4. head \notin Visited(Begin(head).nodes)
    BY <2>2 DEF Visited
  <2>5. \A x : Stop(Begin(head), x) = [cur |-> head, nodes |-> <<>>, end |-> x]
    BY <2>2 DEF Stop
  <2> HIDE DEF head
  <2> QED BY <1>2, <2>1, <2>2, <2>3, <2>4, <2>5 DEF LinkedStep
<1>6. LinkedStep(h, walk, t, b, last) = last
  <2>1. last.end # "reading"
    OBVIOUS
  <2> HIDE DEF last
  <2> QED BY <2>1 DEF LinkedStep
<1> DEFINE S == {n \in 0 .. N : n > 0 => f[n] = last}
<1> HIDE DEF head, tail, empty, last
<1>7. 0 \in S
  BY <1>0
<1>8. ASSUME NEW n \in 0 .. N - 1, n \in S PROVE n + 1 \in S
  <2>1. PICK m \in 1 .. N : m = n + 1
    BY <1>0
  <2>2. f[m] = LinkedStep(h, walk, t, b, f[m - 1]) /\ m - 1 = n
    BY <1>4, <2>1
  <2>3. CASE n = 0
    BY <1>0, <1>4, <1>5, <2>1, <2>2, <2>3
  <2>4. CASE n # 0
    BY <1>0, <1>6, <1>8, <2>1, <2>2, <2>4
  <2> QED BY <2>3, <2>4
<1>9. f[N] = last
  <2>1. N \in Nat /\ N > 0 /\ N \in 0 .. N
    BY <1>0
  <2> HIDE DEF N, S
  <2>2. N \in S
    BY <1>7, <1>8, <2>1, Induct
  <2> QED BY <2>1, <2>2 DEF S
<1>10. last \in Readings
  <2>1. N \in 0 .. N
    BY <1>0
  <2> QED BY <1>4, <1>9, <2>1
<1>11. ~Consistent(last.nodes, last.end, b)
  BY DEF Consistent, last
<1> DEFINE c == LinkedOf(b, head, empty, last)
<1>12. /\ c \in Chains /\ c.nodes = last.nodes /\ c.end = last.end /\ c.empty = empty
       /\ c.consistent = empty
  <2>0. c \in Chains
    BY <1>1, <1>3, <1>10, ChainsTyped, ZenonT(60)
  <2>1. c.nodes = last.nodes /\ c.end = last.end /\ c.empty = empty
    BY DEF LinkedOf
  <2>2. c.consistent = (empty \/ Consistent(last.nodes, last.end, b))
    BY DEF LinkedOf
  <2> HIDE DEF c
  <2>3. (empty \/ Consistent(last.nodes, last.end, b)) = empty
    BY <1>3, <1>11
  <2> QED BY <2>0, <2>1, <2>2, <2>3
<1> HIDE DEF c
<1>13. LinkedChain(h, walk, t, b, head, tail) = c
  BY <1>4, <1>9 DEF c
<1>14. last.nodes = <<>> /\ last.end = e
  BY DEF last
<1> QED BY <1>3, <1>12, <1>13, <1>14 DEF head, tail

\* A bin that is empty is read as one.
LEMMA EmptyBinRead ==
  ASSUME NEW h, WellFormed(h), NEW walk \in Walks, walk.end <= h.brk, NEW t, NEW limit \in Nat,
         NEW b \in Bins, h.lists[b] = <<>>
  PROVE  Bare(b, ReadBin(h, walk, t, limit, b), h.skew = 0)
<1> DEFINE c == LinkedChain(h, walk, t, b, HeadOf(h, b), TailOf(h, b))
           s == ReadBin(h, walk, t, limit, b)
<1>1. PICK chain \in {None, IF b = "fastbin" THEN FastbinChain(h, walk, t, HeadOf(h, b)) ELSE c} :
           /\ s = Judged(b, chain, walk.end)
           /\ b = "fastbin" => (chain = None <=> HeadOf(h, b) = NULL)
  <2> HIDE DEF c
  <2> QED BY ChainRead DEF c
<1>2. s \in Snapshots
  BY ReadBinTyped
<1>3. CASE chain = None
  <2>1. s.chain = None /\ s.verdict = None
    <3>1. s = Judged(b, None, walk.end)
      BY <1>1, <1>3
    <3> HIDE DEF s
    <3> QED BY <3>1 DEF Judged
  <2>2. None # "suspicious"
    BY NoneIsNoSnapshot DEF Verdicts
  <2> HIDE DEF s
  <2> DEFINE aligned == h.skew = 0
  <2> HIDE DEF aligned
  <2>3. Bare(b, s, aligned)
    BY <1>2, <2>1, <2>2 DEF Bare
  <2> QED BY <2>3 DEF s, aligned
<1>4. CASE chain # None
  <2>1. b # "fastbin" /\ b \in Linked /\ chain = c
    <3>1. b = "fastbin" => HeadOf(h, b) = NULL
      BY DEF HeadOf, Neighbour
    <3> QED BY <1>1, <1>4, <3>1 DEF Linked
  <2>2. /\ c \in Chains /\ c.nodes = <<>> /\ c.empty = (h.skew = 0) /\ c.consistent = c.empty
        /\ c.end = IF h.skew = 0 THEN "complete"
                   ELSE IF ChainLimit = 0 THEN "truncated" ELSE "unknown_next"
    BY <2>1, EmptyChain
  <2> HIDE DEF c, s
  <2>3. s.chain = c
    BY <1>1, <2>1, <2>2, JudgedTyped
  <2>4. ASSUME h.skew = 0 PROVE s.verdict # "suspicious"
    <3>1. c.empty /\ c.consistent /\ c.end = "complete"
      BY <2>2, <2>4
    <3>2. ASSUME b = "unsorted" PROVE ValidateUnsorted(c, walk.end) # "suspicious"
      <4>1. ConsistentAnswer(c) = "yes" /\ ChainComplete(c.end) = "yes"
        BY <3>1 DEF ConsistentAnswer, ChainComplete
      <4> QED BY <3>1, <4>1, VerdictTyped DEF ValidateUnsorted
    <3>3. s.verdict = IF b = "unsorted" THEN ValidateUnsorted(c, walk.end) ELSE None
      <4>1. s = Judged(b, c, walk.end) /\ c # None
        BY <1>1, <1>4, <2>1
      <4> QED BY <2>1, <3>1, <4>1 DEF Judged
    <3>4. None # "suspicious"
      BY NoneIsNoSnapshot DEF Verdicts
    <3> QED BY <3>2, <3>3, <3>4
  <2>5. /\ s \in Snapshots /\ b # "fastbin" /\ s.chain.nodes = <<>> /\ s.chain.end # "cycle"
        /\ h.skew = 0 => s.chain.end # "unknown_next" /\ s.verdict # "suspicious"
    BY <1>2, <2>1, <2>2, <2>3, <2>4
  <2> DEFINE aligned == h.skew = 0
  <2>6. aligned => s.chain.end # "unknown_next" /\ s.verdict # "suspicious"
    BY <2>5
  <2> HIDE DEF aligned
  <2>7. s.chain # None
    BY <2>2, <2>3, NoneIsNoSnapshot
  <2>8. Bare(b, s, aligned)
    BY <2>5, <2>6, <2>7 DEF Bare
  <2> QED BY <2>8 DEF s, aligned
<1> QED BY <1>3, <1>4

-----------------------------------------------------------------------------
(* The session                                                             *)

\* The tracker knows the chunks cut off the top of h, and which of them are free.
Tracks(t, h) ==
  /\ DOMAIN t = {UserOf(c) : c \in Carved(h)}
  /\ \A c \in Carved(h) : t[UserOf(c)].state = IF c \in Free(h) THEN "Freed" ELSE "Allocated"

View(b) == CASE b = "fastbin"  -> "fastbins"  [] b = "unsorted" -> "unsorted_bin"
             [] b = "smallbin" -> "smallbins" [] OTHER          -> "largebins"

\* Of a session whose calls were all traced: the heap is found, and the bins read, with
\* its first chunk, while they are empty.
Traced ==
  /\ mapping = None <=> heap.carved = 0
  /\ Tracks(tracked, heap)
  /\ heap.carved > 0 /\ "chunks" \in config.texts /\ Offsets =>
       \A b \in Bins : Shows(View(b)) => kept[b] # None
  /\ \A b \in Bins : kept[b] = None \/ Bare(b, kept[b], Aligned)

Inv ==
  /\ setup \in Setups /\ config \in L!Parse(setup.line, Program)
  /\ events \in Nat /\ hiddenCalls \in Nat
  /\ WellFormed(heap)
  /\ mapping = None \/ (mapping \in Nat /\ mapping % 2 = 0 /\ Start < mapping /\ mapping <= heap.brk)
  /\ kept \in [Bins -> Snapshots \cup {None}]
  /\ hiddenCalls = 0 => Traced

\* An event in the heap h, with what the trackers hold after it.
Told(h, t, o, e) ==
  /\ heap' = h /\ WellFormed(h)
  /\ h.bad = heap.bad /\ h.skew = heap.skew /\ heap.brk <= h.brk /\ heap.carved <= h.carved
  /\ heap.carved = 0 => Free(h) = {}
  /\ hiddenCalls = 0 => Tracks(t, h) /\ e.note # "double free"
  /\ UNCHANGED <<setup, config, hiddenCalls>> /\ events' = events + 1
  /\ Emit(h, t, o, e)

\* Chunks differ in their user addresses.
LEMMA UsersApart ==
  ASSUME NEW c \in Slots, NEW d \in Slots, UserOf(c) = UserOf(d)
  PROVE  c = d
BY SlotsPlaced DEF UserOf, Header

\* A chunk the program holds is tracked as allocated.
LEMMA HeldKnown ==
  ASSUME NEW h, NEW t, Tracks(t, h), NEW c \in Carved(h)
  PROVE  KnownFreed(t, UserOf(c)) = IF c \in Free(h) THEN "yes" ELSE "no"
BY DEF Tracks, KnownFreed

\* The tracker follows an allocation.
LEMMA ServedTracked ==
  ASSUME NEW h, NEW g, NEW c, Serves(h, g, c), NEW t, Tracks(t, h)
  PROVE  Tracks(Returned(t, g, c), g)
<1>1. /\ c \in Carved(g) /\ Carved(g) = Carved(h) \cup {c} /\ Free(g) = Free(h) \ {c}
      /\ Carved(g) \subseteq Slots
  BY DEF Serves, Carved
<1> DEFINE r == Returned(t, g, c)
<1>2. /\ DOMAIN r = DOMAIN t \cup {UserOf(c)}
      /\ \A u \in DOMAIN r : u # UserOf(c) => r[u] = t[u]
      /\ r[UserOf(c)].state = "Allocated"
  BY DEF Returned, Known
<1> HIDE DEF r
<1>3. DOMAIN r = {UserOf(d) : d \in Carved(g)}
  BY <1>1, <1>2 DEF Tracks
<1>4. ASSUME NEW d \in Carved(g)
      PROVE  r[UserOf(d)].state = IF d \in Free(g) THEN "Freed" ELSE "Allocated"
  <2>1. CASE d = c
    BY <1>1, <1>2, <2>1
  <2>2. CASE d # c
    <3>1. UserOf(d) # UserOf(c)
      BY <1>1, <2>2, UsersApart
    <3>2. UserOf(d) \in DOMAIN r /\ d \in Carved(h) /\ (d \in Free(g) <=> d \in Free(h))
      BY <1>1, <1>3, <2>2
    <3> QED BY <1>2, <3>1, <3>2 DEF Tracks
  <2> QED BY <2>1, <2>2
<1> QED BY <1>3, <1>4 DEF Tracks, r

\* The tracker follows a free.
LEMMA GivenTracked ==
  ASSUME NEW h, NEW g, NEW c, Takes(h, g, c), NEW t, Tracks(t, h)
  PROVE  Tracks(GivenBack(t, c), g)
<1>1. /\ c \in Carved(h) /\ Carved(g) = Carved(h) /\ Free(g) = Free(h) \cup {c}
      /\ Carved(g) \subseteq Slots
  BY DEF Takes, Carved
<1> DEFINE r == GivenBack(t, c)
<1>0. UserOf(c) \in DOMAIN t
  BY <1>1 DEF Tracks
<1>2. /\ DOMAIN r = DOMAIN t
      /\ \A u \in DOMAIN r : u # UserOf(c) => r[u] = t[u]
      /\ r[UserOf(c)].state = "Freed"
  BY <1>0 DEF GivenBack, Known
<1> HIDE DEF r
<1>3. DOMAIN r = {UserOf(d) : d \in Carved(g)}
  BY <1>1, <1>2 DEF Tracks
<1>4. ASSUME NEW d \in Carved(g)
      PROVE  r[UserOf(d)].state = IF d \in Free(g) THEN "Freed" ELSE "Allocated"
  <2>1. CASE d = c
    BY <1>1, <1>2, <2>1
  <2>2. CASE d # c
    <3>1. UserOf(d) # UserOf(c)
      BY <1>1, <2>2, UsersApart
    <3>2. UserOf(d) \in DOMAIN r /\ d \in Carved(h) /\ (d \in Free(g) <=> d \in Free(h))
      BY <1>1, <1>3, <2>2
    <3> QED BY <1>2, <3>1, <3>2 DEF Tracks
  <2> QED BY <2>1, <2>2
<1> QED BY <1>3, <1>4 DEF Tracks, r

\* A realloc that moves: the new chunk is served before the old one is given.
LEMMA MovedTracked ==
  ASSUME NEW h, WellFormed(h), NEW c \in Freeable(h), NEW s \in Served(h),
         ~Frozen(s.heap, Home(s.heap))
  PROVE  /\ Serves(h, s.heap, s.chunk) /\ Takes(s.heap, Given(s.heap, c), c) /\ c # s.chunk
         /\ \A t : Tracks(t, h) =>
              Tracks(Returned(GivenBack(t, c), Given(s.heap, c), s.chunk), Given(s.heap, c))
<1> DEFINE k == s.heap
           b == s.chunk
           g == Given(k, c)
<1>1. Serves(h, k, b)
  BY ChunkServed
<1>2. c \in Slots /\ c \in Carved(h) /\ c \notin Free(h) /\ ~Touches(h, c)
  BY DEF Freeable, InUse, Carved
<1>3. /\ b \in Free(h) \/ b \notin Carved(h)
      /\ Carved(k) = Carved(h) \cup {b} /\ Free(k) = Free(h) \ {b} /\ k.bad = h.bad /\ b \in Carved(k)
      /\ WellFormed(k)
  BY <1>1 DEF Serves
<1> HIDE DEF k, b
<1>4. c # b
  BY <1>2, <1>3
<1>5. c \in Freeable(k)
  <2>1. c \in Carved(k) /\ c \notin Free(k)
    BY <1>2, <1>3
  <2>2. ~Touches(k, c)
    BY <1>2, <1>3 DEF Touches
  <2>3. ~Frozen(k, Home(k))
    BY DEF k
  <2> QED BY <2>1, <2>2, <2>3 DEF Freeable, InUse, Carved
<1>6. Takes(k, g, c)
  BY <1>3, <1>5, ChunkGiven
<1>7. Carved(g) = Carved(h) \cup {b} /\ Free(g) = (Free(h) \ {b}) \cup {c}
  BY <1>3, <1>6 DEF Takes
<1> HIDE DEF g
<1>8. ASSUME NEW t, Tracks(t, h)
      PROVE  Tracks(Returned(GivenBack(t, c), g, b), g)
  <2> DEFINE r == GivenBack(t, c)
             q == Returned(r, g, b)
  <2>0. UserOf(c) \in DOMAIN t
    BY <1>2, <1>8 DEF Tracks
  <2>1. /\ DOMAIN r = DOMAIN t
        /\ \A u \in DOMAIN r : u # UserOf(c) => r[u] = t[u]
        /\ r[UserOf(c)].state = "Freed"
    BY <2>0 DEF GivenBack, Known
  <2> HIDE DEF r
  <2>2. /\ DOMAIN q = DOMAIN r \cup {UserOf(b)}
        /\ \A u \in DOMAIN q : u # UserOf(b) => q[u] = r[u]
        /\ q[UserOf(b)].state = "Allocated"
    BY DEF Returned, Known
  <2> HIDE DEF q
  <2>3. DOMAIN q = {UserOf(d) : d \in Carved(g)}
    BY <1>7, <1>8, <2>1, <2>2 DEF Tracks
  <2>4. Carved(g) \subseteq Slots /\ b \in Slots
    BY <1>3 DEF Carved
  <2>5. ASSUME NEW d \in Carved(g)
        PROVE  q[UserOf(d)].state = IF d \in Free(g) THEN "Freed" ELSE "Allocated"
    <3>1. UserOf(d) \in DOMAIN q /\ d \in Slots
      BY <2>3, <2>4
    <3>2. CASE d = b
      <4>1. d \notin Free(g)
        BY <1>4, <1>7, <3>2
      <4> QED BY <2>2, <3>2, <4>1
    <3>3. CASE d = c
      <4>1. UserOf(d) # UserOf(b) /\ d \in Free(g)
        BY <1>2, <1>4, <1>7, <2>4, <3>3, UsersApart
      <4> QED BY <2>1, <2>2, <3>1, <3>3, <4>1
    <3>4. CASE d # b /\ d # c
      <4>1. UserOf(d) # UserOf(b) /\ UserOf(d) # UserOf(c)
        BY <1>2, <2>4, <3>1, <3>4, UsersApart
      <4>2. d \in Carved(h) /\ (d \in Free(g) <=> d \in Free(h))
        BY <1>7, <3>4
      <4>3. q[UserOf(d)] = t[UserOf(d)]
        BY <2>1, <2>2, <3>1, <4>1
      <4> QED BY <1>8, <4>2, <4>3 DEF Tracks
    <3> QED BY <3>2, <3>3, <3>4
  <2> QED BY <2>3, <2>5 DEF Tracks, q, r
<1> QED BY <1>1, <1>4, <1>6, <1>8 DEF g, k, b

\* Before the first chunk is cut there is nothing free, and nothing in use.
LEMMA NothingCarved ==
  ASSUME NEW h, WellFormed(h), h.carved = 0
  PROVE  Carved(h) = {} /\ Free(h) = {} /\ Freeable(h) = {} /\ Overwrites(h) = {}
         /\ \A l \in Lists : h.lists[l] = <<>>
<1>1. Top(h) = 6
  BY HeapTyped
<1>2. Carved(h) = {}
  BY <1>1, SlotsPlaced DEF Carved
<1>3. Free(h) = {}
  BY <1>2, FreeCarved
<1>4. ASSUME NEW l \in Lists PROVE h.lists[l] = <<>> /\ ToSet(h.lists[l]) = {}
  <2>1. h.lists[l] \in Seq(Slots)
    BY HeapTyped, ZenonT(60)
  <2>2. ToSet(h.lists[l]) = {}
    BY <1>3 DEF Free
  <2> DEFINE v == h.lists[l]
  <2> HIDE DEF v
  <2>3. DOMAIN v = 1 .. Len(v) /\ Len(v) \in Nat /\ \A i \in DOMAIN v : v[i] \in ToSet(v)
    BY <2>1 DEF ToSet, v
  <2>4. Len(v) = 0
    <3>1. ASSUME Len(v) # 0 PROVE FALSE
      <4>1. 1 \in DOMAIN v
        BY <2>3, <3>1
      <4>2. v[1] \in ToSet(v) /\ ToSet(v) = {}
        BY <2>2, <2>3, <4>1 DEF v
      <4> QED BY <4>2
    <3> QED BY <3>1
  <2>5. v = <<>>
    BY <2>1, <2>4 DEF v
  <2> QED BY <2>2, <2>5 DEF v
<1>5. {x \in Slots : x < Top(h)} = {}
  BY <1>2 DEF Carved
<1>6. Words(h) = {}
  <2>1. \A b \in Bins : ToSet(h.lists[b]) = {}
    BY <1>4 DEF Lists
  <2> SUFFICES ASSUME NEW w \in Words(h) PROVE FALSE
    OBVIOUS
  <2>2. \/ \E c \in {x \in Slots : x < Top(h)} : TRUE
        \/ \E b \in Bins : \E c \in ToSet(h.lists[b]) : TRUE
    <3> DEFINE A == {[at |-> c + 1, word |-> x] : c \in {x \in Slots : x < Top(h)}, x \in {0, 2 * Unit}}
               B(b) == {[at |-> UserOf(c) + i, word |-> IF b = "fastbin" THEN Protect(x) ELSE x] :
                          c \in ToSet(h.lists[b]), i \in 0 .. (IF b = "fastbin" THEN 0 ELSE 1),
                          x \in Targets(h, b)}
    <3>1. w \in A \/ \E b \in Bins : w \in B(b)
      BY DEF Words
    <3>2. w \in A => \E c \in {x \in Slots : x < Top(h)} : TRUE
      OBVIOUS
    <3>3. \A b \in Bins : w \in B(b) => \E c \in ToSet(h.lists[b]) : TRUE
      OBVIOUS
    <3> QED BY <3>1, <3>2, <3>3
  <2> QED BY <1>5, <2>1, <2>2
<1> QED BY <1>2, <1>3, <1>4, <1>5, <1>6 DEF Freeable, InUse, Overwrites

\* Every event is one of a well formed heap, which the trackers follow.
LEMMA EventTold ==
  ASSUME Inv, TracedMalloc \/ TracedFree \/ TracedRealloc \/ TracedNull
  PROVE  \E h, t, o, e : Told(h, t, o, e)
<1>1. WellFormed(heap) /\ (hiddenCalls = 0 => Tracks(tracked, heap))
  BY DEF Inv, Traced
<1>2. UNCHANGED <<setup, config, hiddenCalls>> /\ events' = events + 1
  BY DEF TracedMalloc, TracedFree, TracedRealloc, TracedNull, Event
<1>3. CASE TracedMalloc
  <2>1. PICK s \in Served(heap) :
          /\ heap' = s.heap
          /\ Emit(s.heap, Returned(tracked, s.heap, s.chunk), observed, Allocates(s.chunk))
    BY <1>3 DEF TracedMalloc
  <2>2. Serves(heap, s.heap, s.chunk)
    BY <1>1, ChunkServed
  <2>3. hiddenCalls = 0 => Tracks(Returned(tracked, s.heap, s.chunk), s.heap)
    BY <1>1, <2>2, ServedTracked
  <2>4. Allocates(s.chunk).note # "double free"
    BY NoneIsNoAnswer DEF Allocates, EventOf
  <2>5. heap.carved = 0 => Free(s.heap) = {}
    BY <1>1, <2>2, NothingCarved DEF Serves
  <2>6. Told(s.heap, Returned(tracked, s.heap, s.chunk), observed, Allocates(s.chunk))
    BY <1>2, <2>1, <2>2, <2>3, <2>4, <2>5 DEF Told, Serves
  <2> QED BY <2>6
<1>4. CASE TracedFree
  <2>1. PICK c \in Freeable(heap) :
          /\ heap' = Given(heap, c)
          /\ Emit(Given(heap, c), GivenBack(tracked, c), ObserveEvent(observed, Given(heap, c), c),
                  Frees(c))
    BY <1>4 DEF TracedFree
  <2> DEFINE g == Given(heap, c)
  <2>2. Takes(heap, g, c)
    BY <1>1, ChunkGiven
  <2> HIDE DEF g
  <2>3. hiddenCalls = 0 => Tracks(GivenBack(tracked, c), g)
    BY <1>1, <2>2, GivenTracked
  <2>4. hiddenCalls = 0 => Frees(c).note # "double free"
    <3>1. hiddenCalls = 0 => KnownFreed(tracked, UserOf(c)) = "no"
      BY <1>1, <2>2, HeldKnown DEF Takes
    <3> QED BY <3>1, NoneIsNoAnswer DEF Frees, EventOf
  <2>5. heap.carved # 0
    BY <1>1, NothingCarved
  <2>6. g.carved = heap.carved /\ g.brk = heap.brk /\ g.bad = heap.bad /\ g.skew = heap.skew /\ WellFormed(g)
    BY <2>2 DEF Takes, SameButLists
  <2>7. heap.brk <= g.brk /\ heap.carved <= g.carved
    BY <1>1, <2>6, HeapTyped
  <2>8. Told(g, GivenBack(tracked, c), ObserveEvent(observed, g, c), Frees(c))
    BY <1>2, <2>1, <2>3, <2>4, <2>5, <2>6, <2>7 DEF Told, g
  <2> QED BY <2>8
<1>5. CASE TracedRealloc
  <2>1. PICK c \in Freeable(heap), s \in Served(heap) :
          /\ ~Frozen(s.heap, Home(s.heap)) /\ heap' = Given(s.heap, c)
          /\ Emit(Given(s.heap, c), Returned(GivenBack(tracked, c), Given(s.heap, c), s.chunk),
                  observed, Allocates(s.chunk))
    BY <1>5 DEF TracedRealloc
  <2> DEFINE g == Given(s.heap, c)
             t == Returned(GivenBack(tracked, c), g, s.chunk)
  <2>2. Serves(heap, s.heap, s.chunk) /\ Takes(s.heap, g, c)
    BY <1>1, <2>1, MovedTracked
  <2>3. hiddenCalls = 0 => Tracks(t, g)
    BY <1>1, <2>1, MovedTracked
  <2> HIDE DEF g
  <2>4. Allocates(s.chunk).note # "double free"
    BY NoneIsNoAnswer DEF Allocates, EventOf
  <2>5. heap.carved # 0
    BY <1>1, NothingCarved
  <2>6. /\ g.carved = s.heap.carved /\ g.brk = s.heap.brk /\ g.bad = heap.bad /\ g.skew = heap.skew
        /\ WellFormed(g) /\ heap.brk <= s.heap.brk /\ heap.carved <= s.heap.carved
    BY <2>2 DEF Takes, Serves, SameButLists
  <2>7. heap.brk <= g.brk /\ heap.carved <= g.carved
    BY <2>6
  <2>8. Told(g, t, observed, Allocates(s.chunk))
    BY <1>2, <2>1, <2>3, <2>4, <2>5, <2>6, <2>7 DEF Told, g
  <2> QED BY <2>8
<1>6. CASE TracedNull
  <2>1. heap' = heap /\ Emit(heap, tracked, observed, FreesNothing)
    BY <1>6 DEF TracedNull
  <2>2. heap.brk \in Nat /\ heap.carved \in Nat
    BY <1>1, HeapTyped
  <2>3. FreesNothing.note # "double free"
    BY DEF FreesNothing, EventOf
  <2>4. heap.carved = 0 => Free(heap) = {}
    BY <1>1, NothingCarved
  <2>5. PICK h : h = heap
    OBVIOUS
  <2>6. heap' = h /\ Emit(h, tracked, observed, FreesNothing)
    BY <2>1, <2>5
  <2>7. /\ WellFormed(h) /\ h.bad = heap.bad /\ h.skew = heap.skew /\ heap.brk <= h.brk
        /\ heap.carved <= h.carved /\ (heap.carved = 0 => Free(h) = {})
        /\ (hiddenCalls = 0 => Tracks(tracked, h))
    BY <1>1, <2>2, <2>4, <2>5
  <2>8. Told(h, tracked, observed, FreesNothing)
    BY <1>2, <2>3, <2>6, <2>7 DEF Told
  <2> QED BY <2>8
<1> QED BY <1>3, <1>4, <1>5, <1>6

\* What an event sets.
LEMMA EmitSets ==
  ASSUME NEW h, NEW t, NEW o, NEW e, Emit(h, t, o, e)
  PROVE  LET walk == Snapshot(h, Discovered(h))
             now  == ReadNow(walk)
         IN  /\ mapping' = Discovered(h) /\ tracked' = t /\ observed' = o
             /\ kept' = [b \in Bins |-> IF b \in now THEN ReadBin(h, walk, t, L!Limit(config), b)
                                        ELSE kept[b]]
             /\ wasIn' = [b \in Bins |-> IF b \in now THEN h.lists[b] ELSE wasIn[b]]
             /\ Tell(events + 1, h, t, o, e, Discovered(h), walk, now,
                     ReportOn(h, t, o, OnlyIf("chunks" \in config.texts, walk), kept'),
                     Summary(Seen(o), kept', t))
<1> QED BY DEF Emit, EmitAfter, EmitAt

\* A bin is read at the first event that can.
LEMMA ReadOnce ==
  ASSUME NEW walk, NEW b \in Bins
  PROVE  b \in ReadNow(walk) <=> CanRead(walk) /\ Shows(View(b)) /\ kept[b] = None
BY DEF ReadNow, FastbinsRecord, UnsortedBinRecord, SmallbinsRecord, LargebinsRecord, Due, View, Bins

\* The options of a session are in order.
LEMMA OptionsTyped ==
  ASSUME setup \in Setups, config \in L!Parse(setup.line, Program)
  PROVE  L!Limit(config) \in Nat /\ config.stored["--max-layout-chunks"] \in Nat
BY ConfigNumbers

\* The walk an event makes.
LEMMA EventWalk ==
  ASSUME NEW h, WellFormed(h), Inv, heap.brk <= h.brk
  PROVE  LET end == Discovered(h)
             walk == Snapshot(h, end)
         IN  /\ end = None \/ (end \in Nat /\ end % 2 = 0 /\ Start < end /\ end <= h.brk)
             /\ mapping # None => end = mapping
             /\ mapping = None => end = IF h.carved = 0 THEN None ELSE h.brk
             /\ walk = None <=> end = None
             /\ end # None => walk = Walk(h, end) /\ walk \in Walks /\ walk.end = end
<1> DEFINE end == Discovered(h)
<1>1. /\ h.brk \in Nat /\ h.carved \in Nat /\ h.brk % 2 = 0 /\ heap.brk \in Nat
      /\ h.carved = 0 => h.brk = 6
      /\ h.carved > 0 => 6 * h.carved + 10 <= h.brk
  BY HeapTyped DEF Inv
<1>2. h.brk = Start <=> h.carved = 0
  BY <1>1 DEF Start
<1>3. h.carved # 0 => Start < h.brk
  BY <1>1 DEF Start
<1>4. mapping = None => end = IF h.carved = 0 THEN None ELSE h.brk
  BY <1>2 DEF Discovered
<1>5. mapping # None => end = mapping
  BY DEF Discovered
<1>6. end = None \/ (end \in Nat /\ end % 2 = 0 /\ Start < end /\ end <= h.brk)
  <2>1. CASE mapping = None
    BY <1>1, <1>3, <1>4, <2>1
  <2>2. CASE mapping # None
    <3>1. mapping \in Nat /\ mapping % 2 = 0 /\ Start < mapping /\ mapping <= heap.brk
      BY <2>2 DEF Inv
    <3> QED BY <1>1, <1>5, <2>2, <3>1
  <2> QED BY <2>1, <2>2
<1> HIDE DEF end
<1>7. end # None => Walk(h, end) \in Walks /\ Walk(h, end).end = end
  BY <1>6, WalkTyped
<1>8. Snapshot(h, end) = IF end = None THEN None ELSE Walk(h, end)
  BY DEF Snapshot
<1>9. end # None => Walk(h, end) # None
  BY <1>7, NoneIsNothing
<1> QED BY <1>4, <1>5, <1>6, <1>7, <1>8, <1>9 DEF end

\* Every event keeps the invariant.
LEMMA ToldKeeps ==
  ASSUME Inv, NEW h, NEW t, NEW o, NEW e, Told(h, t, o, e)
  PROVE  Inv'
<1> DEFINE end == Discovered(h)
           walk == Snapshot(h, end)
           limit == L!Limit(config)
<1>1. /\ heap' = h /\ WellFormed(h) /\ h.skew = heap.skew /\ heap.brk <= h.brk
      /\ heap.carved <= h.carved /\ (heap.carved = 0 => Free(h) = {})
      /\ (hiddenCalls = 0 => Tracks(t, h)) /\ Emit(h, t, o, e)
      /\ UNCHANGED <<setup, config, hiddenCalls>> /\ events' = events + 1
  BY DEF Told
<1>2. /\ end = None \/ (end \in Nat /\ end % 2 = 0 /\ Start < end /\ end <= h.brk)
      /\ mapping # None => end = mapping
      /\ mapping = None => end = IF h.carved = 0 THEN None ELSE h.brk
      /\ walk = None <=> end = None
      /\ end # None => walk \in Walks /\ walk.end = end
  BY <1>1, EventWalk
<1>3. /\ mapping' = end /\ tracked' = t
      /\ kept' = [b \in Bins |-> IF b \in ReadNow(walk) THEN ReadBin(h, walk, t, limit, b)
                                 ELSE kept[b]]
  BY <1>1, EmitSets
<1> HIDE DEF end, walk, limit
<1>4. limit \in Nat
  BY OptionsTyped DEF Inv, limit
<1>5. ASSUME NEW b \in Bins, b \in ReadNow(walk)
      PROVE  /\ kept[b] = None /\ kept'[b] = ReadBin(h, walk, t, limit, b)
             /\ kept'[b] \in Snapshots /\ kept'[b] # None
             /\ walk \in Walks /\ walk.end <= h.brk
             /\ "chunks" \in config.texts /\ Offsets /\ Shows(View(b))
  <2>1. walk # None /\ kept[b] = None /\ "chunks" \in config.texts /\ Offsets /\ Shows(View(b))
    BY <1>5, ReadOnce DEF CanRead
  <2>2. walk \in Walks /\ walk.end <= h.brk
    BY <1>2, <2>1
  <2>3. ReadBin(h, walk, t, limit, b) \in Snapshots
    BY <1>1, <1>4, <2>2, ReadBinTyped
  <2> QED BY <1>3, <1>5, <2>1, <2>2, <2>3, NoneIsNoSnapshot
<1>6. kept' \in [Bins -> Snapshots \cup {None}]
  <2>1. ASSUME NEW b \in Bins PROVE kept'[b] \in Snapshots \cup {None}
    <3>1. CASE b \in ReadNow(walk)
      BY <1>5, <3>1
    <3>2. CASE b \notin ReadNow(walk)
      BY <1>3, <3>2 DEF Inv
    <3> QED BY <3>1, <3>2
  <2>2. kept' = [b \in Bins |-> kept'[b]]
    BY <1>3
  <2> QED BY <2>1, <2>2
<1>7. ASSUME hiddenCalls' = 0 PROVE Traced'
  <2>0. hiddenCalls = 0 /\ Traced
    BY <1>1, <1>7 DEF Inv
  <2>1. mapping' = None <=> heap'.carved = 0
    <3>1. heap.carved \in Nat /\ h.carved \in Nat /\ h.brk \in Nat
      BY <1>1, HeapTyped DEF Inv
    <3>2. mapping = None <=> heap.carved = 0
      BY <2>0 DEF Traced
    <3>3. CASE mapping = None
      BY <1>1, <1>2, <1>3, <3>1, <3>3, NoneIsNothing
    <3>4. CASE mapping # None
      BY <1>1, <1>2, <1>3, <3>1, <3>2, <3>4
    <3> QED BY <3>3, <3>4
  <2>2. Tracks(tracked', heap')
    BY <1>1, <1>3, <2>0
  <2>3. Offsets' = Offsets
    BY <1>1 DEF Offsets, Profile
  <2>4. ASSUME heap'.carved > 0, "chunks" \in config'.texts, Offsets', NEW b \in Bins, Shows(View(b))'
        PROVE  kept'[b] # None
    <3>1. "chunks" \in config.texts /\ Offsets /\ Shows(View(b))
      BY <1>1, <2>3, <2>4 DEF Shows
    <3>2. walk # None
      BY <1>1, <1>2, <1>3, <2>1, <2>4, HeapTyped
    <3>3. CASE kept[b] = None
      BY <1>5, <3>1, <3>2, <3>3, ReadOnce DEF CanRead
    <3>4. CASE kept[b] # None
      BY <1>3, <3>4, ReadOnce
    <3> QED BY <3>3, <3>4
  <2>5. ASSUME NEW b \in Bins PROVE kept'[b] = None \/ Bare(b, kept'[b], Aligned')
    <3>1. Aligned' = Aligned /\ Aligned = (h.skew = 0)
      BY <1>1 DEF Aligned
    <3>2. CASE b \notin ReadNow(walk)
      <4>1. kept'[b] = kept[b]
        BY <1>3, <3>2
      <4> QED BY <2>0, <3>1, <4>1 DEF Traced
    <3>3. CASE b \in ReadNow(walk)
      <4>1. heap.carved = 0
        <5>1. ~(heap.carved > 0)
          BY <1>5, <2>0, <3>3 DEF Traced
        <5> QED BY <5>1, HeapTyped DEF Inv
      <4>2. h.lists[b] = <<>>
        <5>1. b \in Lists /\ ToSet(h.lists[b]) = {} /\ h.lists[b] \in Seq(Slots)
          <6>1. b \in Lists /\ h.lists[b] \in Seq(Slots)
            BY <1>1, HeapTyped DEF Lists
          <6>2. Free(h) = {}
            BY <1>1, <4>1
          <6> QED BY <6>1, <6>2 DEF Free
        <5> DEFINE v == h.lists[b]
        <5> HIDE DEF v
        <5>2. DOMAIN v = 1 .. Len(v) /\ Len(v) \in Nat /\ \A i \in DOMAIN v : v[i] \in ToSet(v)
          BY <5>1 DEF ToSet, v
        <5>3. ASSUME Len(v) # 0 PROVE FALSE
          <6>1. 1 \in DOMAIN v
            BY <5>2, <5>3
          <6> QED BY <5>1, <5>2, <6>1 DEF v
        <5>4. v = <<>>
          BY <5>1, <5>3 DEF v
        <5> QED BY <5>4 DEF v
      <4>3. Bare(b, ReadBin(h, walk, t, limit, b), h.skew = 0)
        BY <1>1, <1>4, <1>5, <3>3, <4>2, EmptyBinRead
      <4>4. kept'[b] = ReadBin(h, walk, t, limit, b)
        BY <1>5, <3>3
      <4> DEFINE aligned == h.skew = 0
                 s == ReadBin(h, walk, t, limit, b)
      <4>5. Bare(b, s, aligned) /\ kept'[b] = s /\ Aligned' = aligned
        BY <3>1, <4>3, <4>4
      <4> HIDE DEF aligned, s
      <4> QED BY <4>5
    <3> QED BY <3>2, <3>3
  <2> QED BY <2>1, <2>2, <2>4, <2>5 DEF Traced
<1>8. mapping' = None \/ (mapping' \in Nat /\ mapping' % 2 = 0 /\ Start < mapping' /\ mapping' <= heap'.brk)
  BY <1>1, <1>2, <1>3
<1> QED BY <1>1, <1>6, <1>7, <1>8 DEF Inv

\* A call nobody traced keeps the invariant.
LEMMA HiddenKeeps ==
  ASSUME Inv, UntracedMalloc \/ UntracedFree
  PROVE  Inv' /\ hiddenCalls' > 0 /\ UNCHANGED <<setup, config, events, trace>> /\ WellFormed(heap')
<1>1. hiddenCalls' = hiddenCalls + 1 /\ UNCHANGED <<setup, config, events, trace>>
  BY DEF UntracedMalloc, UntracedFree, Hidden
<1>2. hiddenCalls \in Nat /\ hiddenCalls' \in Nat /\ hiddenCalls' # 0 /\ hiddenCalls' > 0
  BY <1>1 DEF Inv
<1>3. WellFormed(heap') /\ heap.brk <= heap'.brk
  <2>0. WellFormed(heap) /\ heap.brk \in Nat
    BY HeapTyped DEF Inv
  <2>1. CASE UntracedMalloc
    <3>1. PICK s \in Served(heap) : heap' = s.heap
      BY <2>1 DEF UntracedMalloc
    <3> QED BY <2>0, <3>1, ChunkServed DEF Serves
  <2>2. CASE UntracedFree
    <3>1. PICK c \in Freeable(heap) : heap' = Given(heap, c)
      BY <2>2 DEF UntracedFree
    <3>2. Takes(heap, heap', c)
      BY <2>0, <3>1, ChunkGiven
    <3> QED BY <2>0, <3>2 DEF Takes, SameButLists
  <2> QED BY <2>1, <2>2
<1>4. mapping' = None \/ (mapping' \in Nat /\ mapping' % 2 = 0 /\ Start < mapping' /\ mapping' <= heap'.brk)
  <2>1. mapping' = mapping /\ heap.brk \in Nat /\ heap'.brk \in Nat
    BY <1>1, <1>3, HeapTyped DEF Inv, trace
  <2> QED BY <1>3, <2>1 DEF Inv
<1>5. kept' \in [Bins -> Snapshots \cup {None}]
  BY <1>1 DEF Inv, trace
<1> QED BY <1>1, <1>2, <1>3, <1>4, <1>5 DEF Inv

\* The words the program overwrites are words of the heap.
LEMMA OverwriteKeeps ==
  ASSUME Inv, Overwrite
  PROVE  /\ Inv' /\ heap'.bad # None /\ UNCHANGED <<setup, config, events, hiddenCalls, trace>>
         /\ heap.bad = None
<1>1. PICK w \in Overwrites(heap) : heap' = [heap EXCEPT !.bad = w]
  BY DEF Overwrite
<1>2. /\ heap.bad = None /\ UNCHANGED <<setup, config, events, hiddenCalls, trace>> /\ WellFormed(heap)
  BY DEF Overwrite, Inv
<1>3. w \in [at : Nat, word : Nat]
  <2> DEFINE A == {[at |-> c + 1, word |-> x] : c \in {x \in Slots : x < Top(heap)}, x \in {0, 2 * Unit}}
             B(b) == {[at |-> UserOf(c) + i, word |-> IF b = "fastbin" THEN Protect(x) ELSE x] :
                        c \in ToSet(heap.lists[b]), i \in 0 .. (IF b = "fastbin" THEN 0 ELSE 1),
                        x \in Targets(heap, b)}
  <2>1. w \in A \/ \E b \in Bins : w \in B(b)
    BY DEF Overwrites, Words
  <2>2. CASE w \in A
    <3>1. PICK c \in Slots, x \in {0, 2 * Unit} : w = [at |-> c + 1, word |-> x]
      BY <2>2
    <3>2. c \in Nat /\ x \in Nat
      BY SlotsPlaced DEF Unit
    <3> QED BY <3>1, <3>2
  <2>3. ASSUME NEW b \in Bins, w \in B(b) PROVE w \in [at : Nat, word : Nat]
    <3>1. PICK c \in ToSet(heap.lists[b]), i \in 0 .. (IF b = "fastbin" THEN 0 ELSE 1),
               x \in Targets(heap, b) :
            w = [at |-> UserOf(c) + i, word |-> IF b = "fastbin" THEN Protect(x) ELSE x]
      BY <2>3
    <3>2. c \in Slots
      <4>1. c \in Free(heap)
        BY DEF Free, Lists
      <4> QED BY <1>2, <4>1, FreeCarved DEF Carved
    <3>3. c \in Nat /\ i \in Nat
      BY <3>2, SlotsPlaced
    <3>4. x \in Nat
      <4>1. heap.skew \in {0, 2} /\ Chunk(1) + 1 = 7
        BY <1>2, HeapTyped DEF Chunk, Unit
      <4>2. HeaderOf(heap, b) \in Nat
        BY <4>1 DEF HeaderOf, FieldOf
      <4>3. \A y \in Slots : y \in Nat
        BY SlotsPlaced
      <4> QED BY <4>1, <4>2, <4>3 DEF Targets, Wild, NULL
    <3>5. UserOf(c) + i \in Nat /\ Protect(x) \in Nat
      BY <3>3, <3>4 DEF UserOf, Header, Protect, Key
    <3> QED BY <3>1, <3>4, <3>5
  <2> QED BY <2>1, <2>2, <2>3
<1>4. heap.carved # 0
  BY <1>2, NothingCarved
<1>5. /\ heap' \in Heaps /\ heap'.lists = heap.lists /\ heap'.carved = heap.carved
      /\ heap'.brk = heap.brk /\ heap'.skew = heap.skew /\ heap'.bad = w
  <2>1. heap \in Heaps
    BY <1>2 DEF WellFormed
  <2> QED BY <1>1, <1>3, <2>1 DEF Heaps
<1>6. Top(heap') = Top(heap) /\ Free(heap') = Free(heap) /\ Carved(heap') = Carved(heap)
  BY <1>5 DEF Top, Free, Carved
<1>7. WellFormed(heap')
  BY <1>2, <1>4, <1>5, <1>6 DEF WellFormed
<1>8. heap'.bad # None
  BY <1>3, <1>5, NoneIsNothing
<1>9. hiddenCalls = 0 => Traced'
  <2> SUFFICES ASSUME hiddenCalls = 0 PROVE Traced'
    OBVIOUS
  <2>1. Traced
    BY DEF Inv
  <2>2. Tracks(tracked, heap')
    BY <1>6, <2>1 DEF Traced, Tracks
  <2>3. Aligned' = Aligned /\ Offsets' = Offsets
    BY <1>2, <1>5 DEF Aligned, Offsets, Profile
  <2>4. UNCHANGED <<mapping, kept, config, tracked>> /\ heap'.carved = heap.carved
    BY <1>2, <1>5 DEF trace
  <2> QED BY <2>1, <2>2, <2>3, <2>4 DEF Traced, Shows
<1> QED BY <1>2, <1>5, <1>7, <1>8, <1>9 DEF Inv, trace

\* The session begins well.
LEMMA Begins ==
  ASSUME Init
  PROVE  Inv
<1>1. /\ setup \in Setups /\ config \in L!Parse(setup.line, Program)
      /\ heap = [lists |-> [l \in Lists |-> <<>>], carved |-> 0, brk |-> Start, bad |-> None,
                 skew |-> setup.skew, class |-> setup.class]
      /\ tracked = [u \in {} |-> 0] /\ mapping = None /\ kept = [b \in Bins |-> None]
      /\ events = 0 /\ hiddenCalls = 0
  BY DEF Init
<1>2. setup.skew \in {0, 2} /\ setup.class \in Bins \ {"unsorted"}
  BY <1>1, SetupsTyped
<1>3. WellFormed(heap)
  <2>1. heap \in Heaps
    BY <1>1, <1>2, HeapBounds DEF Heaps, Start
  <2>2. \A l \in Lists : heap.lists[l] = <<>>
    BY <1>1
  <2>3. OnePlace(heap.lists)
    BY <2>2 DEF OnePlace
  <2>4. heap.brk <= Enough(Chunks) /\ heap.brk % 2 = 0
    BY <1>1, Numbers, HeapBounds DEF Start
  <2> QED BY <1>1, <2>1, <2>2, <2>3, <2>4 DEF WellFormed
<1>4. Carved(heap) = {}
  BY <1>1, <1>3, NothingCarved
<1>5. Tracks(tracked, heap)
  BY <1>1, <1>4 DEF Tracks
<1>6. Traced
  BY <1>1, <1>5 DEF Traced
<1> QED BY <1>1, <1>3, <1>6 DEF Inv

\* In every session, traced or not: the heap is well formed, the mapping found lies within
\* it, and with every call traced the tracker knows each chunk and the bins are read with
\* the first (app.rs:7043-7222, tracker.rs:114-170).
THEOREM InvAlways == Spec => []Inv
<1>1. Init => Inv
  BY Begins
<1>2. Inv /\ [Next]_vars => Inv'
  <2> SUFFICES ASSUME Inv, [Next]_vars PROVE Inv'
    OBVIOUS
  <2>1. CASE TracedMalloc \/ TracedFree \/ TracedRealloc \/ TracedNull
    <3>1. PICK h, t, o, e : Told(h, t, o, e)
      BY <2>1, EventTold
    <3> QED BY <3>1, ToldKeeps
  <2>2. CASE UntracedMalloc \/ UntracedFree
    BY <2>2, HiddenKeeps
  <2>3. CASE Overwrite
    BY <2>3, OverwriteKeeps
  <2>4. CASE UNCHANGED vars
    <3>1. UNCHANGED <<setup, config, events, heap, tracked, mapping, kept, hiddenCalls>>
      BY <2>4 DEF vars, world, trace
    <3>2. Traced' = Traced
      BY <3>1 DEF Traced, Shows, Offsets, Profile, Aligned
    <3> QED BY <3>1, <3>2 DEF Inv
  <2> QED BY <2>1, <2>2, <2>3, <2>4 DEF Next
<1> QED BY <1>1, <1>2, PTL DEF Spec

\* The bins are read before the program freed anything: no snapshot lists a chunk
\* (app.rs:7528, 7677, 7784, 7869).
THEOREM PredateFrees == Spec => []SnapshotsPredateFrees
<1>1. Inv => SnapshotsPredateFrees
  <2> SUFFICES ASSUME Inv, hiddenCalls = 0, NEW b \in Bins PROVE Nodes(kept[b]) = <<>>
    BY DEF SnapshotsPredateFrees
  <2>1. kept[b] = None \/ Bare(b, kept[b], Aligned)
    BY DEF Inv, Traced
  <2> QED BY <2>1 DEF Nodes, Bare
<1> QED BY <1>1, InvAlways, PTL

-----------------------------------------------------------------------------
(* The records of an event                                                 *)

\* The elements of two sequences put together.
LEMMA Joined ==
  ASSUME NEW S, NEW s \in Seq(S), NEW t \in Seq(S)
  PROVE  s \o t \in Seq(S) /\ ToSet(s \o t) = ToSet(s) \cup ToSet(t)
<1> DEFINE z == s \o t
<1>1. z \in Seq(S) /\ Len(z) = Len(s) + Len(t)
  OBVIOUS
<1>2. \A i \in 1 .. Len(z) : z[i] = IF i <= Len(s) THEN s[i] ELSE t[i - Len(s)]
  OBVIOUS
<1> HIDE DEF z
<1>3. Len(s) \in Nat /\ Len(t) \in Nat /\ DOMAIN s = 1 .. Len(s) /\ DOMAIN t = 1 .. Len(t) /\ DOMAIN z = 1 .. Len(z)
  BY <1>1
<1>4. \A x \in ToSet(z) : x \in ToSet(s) \cup ToSet(t)
  <2> SUFFICES ASSUME NEW i \in 1 .. Len(z) PROVE z[i] \in ToSet(s) \cup ToSet(t)
    BY <1>3 DEF ToSet
  <2>1. CASE i <= Len(s)
    BY <1>2, <1>3, <2>1 DEF ToSet
  <2>2. CASE ~(i <= Len(s))
    <3>1. i - Len(s) \in DOMAIN t
      BY <1>1, <1>3, <2>2
    <3> QED BY <1>2, <2>2, <3>1 DEF ToSet
  <2> QED BY <2>1, <2>2
<1>5. \A x \in ToSet(s) : x \in ToSet(z)
  <2> SUFFICES ASSUME NEW i \in 1 .. Len(s) PROVE s[i] \in ToSet(z)
    BY <1>3 DEF ToSet
  <2>1. i \in 1 .. Len(z) /\ z[i] = s[i]
    BY <1>1, <1>2, <1>3
  <2> QED BY <1>3, <2>1 DEF ToSet
<1>6. \A x \in ToSet(t) : x \in ToSet(z)
  <2> SUFFICES ASSUME NEW i \in 1 .. Len(t) PROVE t[i] \in ToSet(z)
    BY <1>3 DEF ToSet
  <2>1. PICK j \in 1 .. Len(z) : j = i + Len(s)
    BY <1>1, <1>3
  <2>2. ~(j <= Len(s)) /\ j - Len(s) = i
    BY <1>3, <2>1
  <2>3. z[j] = t[i]
    BY <1>2, <2>2
  <2> QED BY <1>3, <2>3 DEF ToSet
<1> QED BY <1>1, <1>4, <1>5, <1>6 DEF z

\* Records of event id, each of a kind of K.
Telling(s, K, id) ==
  s \in Seq(ToSet(s)) /\ \A r \in ToSet(s) : r.kind \in K /\ r.event = id

\* What the records of an event are made of: nothing,
LEMMA TellingNothing ==
  ASSUME NEW K, NEW id
  PROVE  Telling(<<>>, K, id) /\ ToSet(<<>>) = {}
BY DEF Telling, ToSet

\* one record,
LEMMA TellingOne ==
  ASSUME NEW K, NEW id, NEW kind \in K, NEW body
  PROVE  Telling(<<Record(kind, id, body)>>, K, id)
         /\ ToSet(<<Record(kind, id, body)>>) = {Record(kind, id, body)}
<1> DEFINE r == Record(kind, id, body)
<1>1. r.kind = kind /\ r.event = id
  BY DEF Record
<1> HIDE DEF r
<1>2. ToSet(<<r>>) = {r} /\ <<r>> \in Seq({r})
  BY DEF ToSet
<1> QED BY <1>1, <1>2 DEF Telling, r

\* both,
LEMMA TellingBoth ==
  ASSUME NEW K, NEW id, NEW s, NEW t, Telling(s, K, id), Telling(t, K, id)
  PROVE  Telling(s \o t, K, id) /\ ToSet(s \o t) = ToSet(s) \cup ToSet(t)
<1> DEFINE S == ToSet(s) \cup ToSet(t)
<1>1. s \in Seq(S) /\ t \in Seq(S)
  BY DEF Telling
<1> HIDE DEF S
<1>2. s \o t \in Seq(S) /\ ToSet(s \o t) = ToSet(s) \cup ToSet(t)
  BY <1>1, Joined
<1> QED BY <1>2 DEF Telling, S

\* some if a condition holds.
LEMMA TellingIf ==
  ASSUME NEW K, NEW id, NEW s, NEW c \in BOOLEAN, c => Telling(s, K, id)
  PROVE  Telling(If(c, s), K, id) /\ \A r \in ToSet(If(c, s)) : c /\ r \in ToSet(s)
<1>1. CASE c
  BY <1>1 DEF If
<1>2. CASE ~c
  BY <1>2, TellingNothing DEF If
<1> QED BY <1>1, <1>2

\* Records of some kinds are records of more kinds.
LEMMA TellingMore ==
  ASSUME NEW K, NEW M, K \subseteq M, NEW id, NEW s, Telling(s, K, id)
  PROVE  Telling(s, M, id)
BY DEF Telling

\* What no property asks about.
Plain ==
  Kinds \ (Ends \cup {"event", "heap_layout", "heap_scan", "tcache_comparison",
                     "allocator_source_summary", "allocator_source_delta"})

\* The plain kinds are kinds.
LEMMA PlainKinds ==
  /\ \A kind \in ArenaKinds \cup ExperimentKinds \cup BinKinds \cup ValidationKinds : kind \in Plain
  /\ "allocator_warnings" \in Plain /\ "allocator_source_summary" \in Kinds
  /\ "allocator_source_delta" \in Kinds
  /\ "observed_tcache_chains" \in Plain /\ "tcache_struct_candidate" \in Plain
  /\ "tcache_validation" \in Plain /\ "heap_layout" \in Kinds /\ "heap_scan" \in Kinds
  /\ "tcache_comparison" \in Kinds /\ Plain \subseteq Kinds
BY DEF Plain, Kinds, ArenaKinds, ExperimentKinds, BinKinds, ValidationKinds, SourceKinds, ScanKinds,
       ChunkKinds, TcacheKinds, Ends

\* What is told of the arena is plain,
LEMMA ArenaPlain ==
  ASSUME NEW id, NEW h, NEW walk
  PROVE  /\ Telling(TopRecords(id, h, walk), Plain, id)
         /\ \A top : Telling(ArenaRecords(id, top), Plain, id)
<1>1. ASSUME NEW source PROVE Telling(<<TopRecord(id, TopBody(h, walk, source))>>, Plain, id)
  <2> DEFINE body == TopBody(h, walk, source)
             kind == IF CleanView(body) THEN "main_arena_view" ELSE "main_arena_top_candidate"
  <2>1. TopRecord(id, body) = Record(kind, id, body)
    BY DEF TopRecord
  <2>2. kind \in Plain
    BY PlainKinds DEF ArenaKinds
  <2> HIDE DEF kind
  <2> QED BY <2>1, <2>2, TellingOne
<1>2. Telling(TopRecords(id, h, walk), Plain, id)
  <2> DEFINE source == ByOption("--main-arena-top-offset", "user_offset", "glibc_profile")
             c == Shows("top") /\ Once({"main_arena_view", "main_arena_top_candidate"})
                    /\ L!TopKnown(config, Profile) /\ walk # None
             s == <<TopRecord(id, TopBody(h, walk, source))>>
  <2>1. TopRecords(id, h, walk) = If(c, s)
    BY DEF TopRecords
  <2>2. Telling(s, Plain, id) /\ c \in BOOLEAN
    BY <1>1
  <2> HIDE DEF c, s
  <2> QED BY <2>1, <2>2, TellingIf
<1>3. ASSUME NEW top PROVE Telling(ArenaRecords(id, top), Plain, id)
  <2> DEFINE source == ByOption("--main-arena-offset", "user_offset", "libc_symbol")
             c == Shows("main_arena") /\ Once({"main_arena_view", "main_arena_candidate"})
                    /\ \A i \in DOMAIN top : top[i].kind # "main_arena_view"
             s == <<MainArena(id, source)>>
  <2>1. ArenaRecords(id, top) = If(c, s)
    BY DEF ArenaRecords
  <2>2. Telling(s, Plain, id) /\ c \in BOOLEAN
    <3>1. "main_arena_candidate" \in Plain
      BY PlainKinds DEF ArenaKinds
    <3> QED BY <3>1, TellingOne DEF MainArena
  <2> HIDE DEF c, s
  <2> QED BY <2>1, <2>2, TellingIf
<1> QED BY <1>2, <1>3

\* what is told of an experiment,
LEMMA ExperimentPlain ==
  ASSUME NEW id, NEW view, NEW kind \in Plain, NEW walk, NEW candidates
  PROVE  Telling(ExperimentRecords(id, view, kind, walk, candidates), Plain, id)
<1> DEFINE c == Shows(view) /\ Once({kind}) /\ walk # None
           s == <<Experiment(kind, id, candidates)>>
<1>1. ExperimentRecords(id, view, kind, walk, candidates) = If(c, s)
  BY DEF ExperimentRecords
<1>2. Telling(s, Plain, id) /\ c \in BOOLEAN
  BY TellingOne DEF Experiment
<1> HIDE DEF c, s
<1> QED BY <1>1, <1>2, TellingIf

\* of a bin,
LEMMA BinPlain ==
  ASSUME NEW id, NEW b, NEW now, NEW k
  PROVE  Telling(OfBin(id, b, now, k), Plain, id)
<1> DEFINE c == b \in now
           snapshot == k[b]
           s == <<Record(KindOf(b), id, OneOf(snapshot.chain))>>
           v == <<Record(ValidationKind(b), id, <<snapshot.verdict>>)>>
           d == IF snapshot.verdict = None THEN <<>> ELSE v
<1>1. OfBin(id, b, now, k) = If(c, s \o d)
  BY DEF OfBin, BinRecords
<1>2. KindOf(b) \in Plain /\ ValidationKind(b) \in Plain
  BY PlainKinds DEF KindOf, ValidationKind, BinKinds, ValidationKinds
<1>3. Telling(s, Plain, id) /\ Telling(v, Plain, id)
  BY <1>2, TellingOne
<1>4. c \in BOOLEAN
  OBVIOUS
<1> HIDE DEF c, s, v, snapshot
<1>5. Telling(d, Plain, id)
  BY <1>3, TellingNothing
<1> HIDE DEF d
<1> QED BY <1>1, <1>3, <1>4, <1>5, TellingBoth, TellingIf

\* and of the display of chunks.
LEMMA ChunksPlain ==
  ASSUME NEW id, NEW h, NEW t, NEW walk, NEW now, NEW k
  PROVE  Telling(ChunkRecords(id, h, t, walk, now, k), Plain, id)
<1> DEFINE a == ExperimentRecords(id, "fastbin_experiment", "fastbin_experiment", walk,
                                  FastbinExperiment(h, walk, t, Offsets))
           b == RegularRecords(id, h, walk)
           c == ExperimentRecords(id, "unsorted_experiment", "unsorted_bin_experiment", walk,
                                  UnsortedBinExperiment(h, walk, t))
           d == ExperimentRecords(id, "bin_experiment", "bin_experiment", walk,
                                  BinExperiment(h, walk, t))
           f == OfBin(id, "fastbin", now, k)
           u == OfBin(id, "unsorted", now, k)
           m == OfBin(id, "smallbin", now, k)
           l == OfBin(id, "largebin", now, k)
<1>1. ChunkRecords(id, h, t, walk, now, k) = a \o f \o u \o b \o m \o l \o c \o d
  BY DEF ChunkRecords
<1>2. /\ "fastbin_experiment" \in Plain /\ "unsorted_bin_experiment" \in Plain
      /\ "bin_experiment" \in Plain /\ "regular_bins" \in Plain
  BY PlainKinds DEF ExperimentKinds, BinKinds
<1>3. Telling(a, Plain, id) /\ Telling(c, Plain, id) /\ Telling(d, Plain, id)
  BY <1>2, ExperimentPlain
<1>4. Telling(f, Plain, id) /\ Telling(u, Plain, id) /\ Telling(m, Plain, id) /\ Telling(l, Plain, id)
  BY BinPlain
<1>5. Telling(b, Plain, id)
  <2> DEFINE e == CanRead(walk) /\ Shows("regular_bins") /\ Once({"regular_bins"})
             s == <<RegularBinsRecord(id, h, L!Limit(config))>>
  <2>1. b = If(e, s)
    BY DEF RegularRecords
  <2>2. Telling(s, Plain, id) /\ e \in BOOLEAN
    BY <1>2, TellingOne DEF RegularBinsRecord
  <2> HIDE DEF e, s
  <2> QED BY <2>1, <2>2, TellingIf
<1> HIDE DEF a, b, c, d, f, u, m, l
<1>6. Telling(a \o f \o u, Plain, id)
  BY <1>3, <1>4, TellingBoth
<1>7. Telling(a \o f \o u \o b \o m, Plain, id)
  <2>1. Telling(a \o f \o u \o b, Plain, id)
    BY <1>5, <1>6, TellingBoth
  <2> QED BY <1>4, <2>1, TellingBoth
<1>8. Telling(a \o f \o u \o b \o m \o l \o c, Plain, id)
  <2>1. Telling(a \o f \o u \o b \o m \o l, Plain, id)
    BY <1>4, <1>7, TellingBoth
  <2> QED BY <1>3, <2>1, TellingBoth
<1>9. Telling(a \o f \o u \o b \o m \o l \o c \o d, Plain, id)
  BY <1>3, <1>8, TellingBoth
<1> QED BY <1>1, <1>9

\* Records of event id; of the kinds a property asks about, only those in the sets given.
Tellings(s, id, layout, comparison, scan) ==
  /\ Telling(s, Kinds, id)
  /\ \A r \in ToSet(s) : /\ r.kind = "heap_layout" => r \in layout
                         /\ r.kind = "tcache_comparison" => r \in comparison
                         /\ r.kind = "heap_scan" => r \in scan

\* Plain records say nothing of layout, comparison or scan.
LEMMA PlainTelling ==
  ASSUME NEW s, NEW id, Telling(s, Plain, id), NEW layout, NEW comparison, NEW scan
  PROVE  Tellings(s, id, layout, comparison, scan)
<1>1. \A r \in ToSet(s) : r.kind \in Plain
  BY DEF Telling
<1>2. Telling(s, Kinds, id)
  BY PlainKinds, TellingMore
<1> QED BY <1>1, <1>2 DEF Tellings, Plain

\* Records that tell so, followed by records that tell so, tell so.
LEMMA TellingsBoth ==
  ASSUME NEW s, NEW t, NEW id, NEW layout, NEW comparison, NEW scan,
         Tellings(s, id, layout, comparison, scan), Tellings(t, id, layout, comparison, scan)
  PROVE  Tellings(s \o t, id, layout, comparison, scan)
<1>1. Telling(s \o t, Kinds, id) /\ ToSet(s \o t) = ToSet(s) \cup ToSet(t)
  BY TellingBoth DEF Tellings
<1> QED BY <1>1 DEF Tellings

\* So do they if they are told under a condition.
LEMMA TellingsIf ==
  ASSUME NEW s, NEW id, NEW layout, NEW comparison, NEW scan, NEW c \in BOOLEAN,
         c => Tellings(s, id, layout, comparison, scan)
  PROVE  Tellings(If(c, s), id, layout, comparison, scan)
<1>1. CASE c
  BY <1>1 DEF If
<1>2. CASE ~c
  BY <1>2, TellingNothing DEF If, Tellings
<1> QED BY <1>1, <1>2

\* A record that is one of the three.
LEMMA TellingsOne ==
  ASSUME NEW id, NEW kind \in Kinds, NEW body, NEW layout, NEW comparison, NEW scan,
         kind = "heap_layout" => Record(kind, id, body) \in layout,
         kind = "tcache_comparison" => Record(kind, id, body) \in comparison,
         kind = "heap_scan" => Record(kind, id, body) \in scan
  PROVE  Tellings(<<Record(kind, id, body)>>, id, layout, comparison, scan)
<1>1. Record(kind, id, body).kind = kind
  BY DEF Record
<1>2. /\ Telling(<<Record(kind, id, body)>>, Kinds, id)
      /\ ToSet(<<Record(kind, id, body)>>) = {Record(kind, id, body)}
  BY TellingOne
<1> QED BY <1>1, <1>2 DEF Tellings

\* One sequence after the other.
LEMMA Concatenated ==
  ASSUME NEW S, NEW s \in Seq(S), NEW t \in Seq(S)
  PROVE  /\ s \o t \in Seq(S) /\ Len(s \o t) = Len(s) + Len(t)
         /\ \A i \in 1 .. Len(s) + Len(t) :
              (s \o t)[i] = IF i <= Len(s) THEN s[i] ELSE t[i - Len(s)]
OBVIOUS

\* A pair is one after the other.
LEMMA TwoTuples ==
  ASSUME NEW a, NEW b
  PROVE  <<a, b>> = <<a>> \o <<b>>
<1> DEFINE S == {a, b}
           x == <<a>>
           y == <<b>>
           z == x \o y
<1>1. x \in Seq(S) /\ y \in Seq(S) /\ Len(x) = 1 /\ Len(y) = 1 /\ x[1] = a /\ y[1] = b
  OBVIOUS
<1> HIDE DEF x, y, S
<1>2. /\ z \in Seq(S) /\ Len(z) = Len(x) + Len(y)
      /\ \A i \in 1 .. Len(x) + Len(y) : z[i] = IF i <= Len(x) THEN x[i] ELSE y[i - Len(x)]
  BY <1>1, Concatenated
<1> HIDE DEF z
<1>4. Len(z) = 2
  BY <1>1, <1>2
<1>5. z[1] = a
  BY <1>1, <1>2
<1>6. z[2] = b
  BY <1>1, <1>2
<1>7. z = <<a, b>>
  <2> DEFINE w == <<a, b>>
  <2>1. w \in Seq(S) /\ Len(w) = 2 /\ w[1] = a /\ w[2] = b
    BY DEF S
  <2> HIDE DEF w
  <2>2. \A i \in 1 .. 2 : z[i] = w[i]
    <3>1. \A i \in 1 .. 2 : i = 1 \/ i = 2
      OBVIOUS
    <3> QED BY <1>5, <1>6, <2>1, <3>1
  <2>3. z = [i \in 1 .. 2 |-> z[i]] /\ w = [i \in 1 .. 2 |-> w[i]]
    <3>1. ASSUME NEW v \in Seq(S) PROVE v = [i \in 1 .. Len(v) |-> v[i]]
      OBVIOUS
    <3>2. z = [i \in 1 .. Len(z) |-> z[i]] /\ w = [i \in 1 .. Len(w) |-> w[i]]
      BY <1>2, <2>1, <3>1
    <3> QED BY <1>4, <2>1, <3>2
  <2>4. z = w
    BY <2>2, <2>3
  <2> QED BY <2>4 DEF w
<1> QED BY <1>7 DEF x, y, z

\* The layout, the comparison with the tcache struct and the scan are told of at most
\* once by an event, as what they are.
LEMMA RelatedTold ==
  ASSUME NEW id, NEW h, NEW t, NEW o, NEW end, NEW walk, NEW now, NEW k, NEW report, NEW sum
  PROVE  /\ Telling(Related(id, h, t, o, end, walk, now, k, report, sum), Kinds, id)
         /\ \A r \in ToSet(Related(id, h, t, o, end, walk, now, k, report, sum)) :
              /\ r.kind = "heap_layout" =>
                   /\ walk # None
                   /\ r = HeapLayout(id, walk, t, Seen(o), k, config.stored["--max-layout-chunks"])
              /\ r.kind = "tcache_comparison" =>
                   Shows("tcache") /\ r = TcacheComparison(id, StructBin(h), o)
              /\ r.kind = "heap_scan" => report # None /\ r = ScanRecord(id, report)
<1> DEFINE layout == HeapLayout(id, walk, t, Seen(o), k, config.stored["--max-layout-chunks"])
           comparison == TcacheComparison(id, StructBin(h), o)
           scan == ScanRecord(id, report)
           l == {x \in {layout} : walk # None}
           c == {x \in {comparison} : Shows("tcache")}
           s == {x \in {scan} : report # None}
           T(x) == Tellings(x, id, l, c, s)
           chunks == "chunks" \in config.texts
           top == TopRecords(id, h, walk)
           arena == ArenaRecords(id, top)
           experiment == ExperimentRecords(id, "arena_experiment", "main_arena_experiment", walk,
                                           MainArenaExperiment(h, walk))
           CR == ChunkRecords(id, h, t, walk, now, k)
           LR == LayoutRecords(id, t, o, walk, k)
           WR == WarningRecords(id, t, o, k, sum)
           SR == ScanRecords(id, report)
           TR == StructRecords(id, h, t, o, end, walk)
           rest == If(config.texts # {}, If(chunks, CR \o LR) \o WR \o SR \o If(chunks, TR))
           rel == Related(id, h, t, o, end, walk, now, k, report, sum)
<1>1. rel = top \o arena \o experiment \o rest
  BY DEF Related
<1>2. T(top) /\ T(arena) /\ T(experiment) /\ T(CR)
  <2>1. Telling(top, Plain, id) /\ Telling(arena, Plain, id)
    BY ArenaPlain
  <2>2. Telling(experiment, Plain, id)
    <3>1. "main_arena_experiment" \in Plain
      BY PlainKinds DEF ArenaKinds
    <3> QED BY <3>1, ExperimentPlain
  <2>3. Telling(CR, Plain, id)
    BY ChunksPlain
  <2> HIDE DEF top, arena, experiment, CR, l, c, s
  <2> QED BY <2>1, <2>2, <2>3, PlainTelling
<1>3. T(LR)
  <2> DEFINE p == "layout" \in config.texts /\ walk # None
             x == <<layout>>
             q == Shows("tcache")
             y == <<ObservedTcacheChains(id, o)>>
  <2>1. LR = If(p, x) \o If(q, y)
    BY DEF LayoutRecords
  <2>2. p => T(x)
    <3> SUFFICES ASSUME p PROVE T(x)
      OBVIOUS
    <3>1. PICK body : layout = Record("heap_layout", id, body)
      BY DEF HeapLayout
    <3>2. layout \in l
      OBVIOUS
    <3> HIDE DEF l, c, s, layout
    <3> QED BY <3>1, <3>2, PlainKinds, TellingsOne
  <2>3. T(y)
    <3>1. Telling(y, Plain, id)
      BY PlainKinds, TellingOne DEF ObservedTcacheChains
    <3> HIDE DEF l, c, s, y
    <3> QED BY <3>1, PlainTelling
  <2>4. p \in BOOLEAN /\ q \in BOOLEAN
    BY DEF Shows
  <2> HIDE DEF p, x, q, y, l, c, s, LR
  <2>5. T(If(p, x)) /\ T(If(q, y))
    BY <2>2, <2>3, <2>4, TellingsIf
  <2> QED BY <2>1, <2>5, TellingsBoth
<1>4. T(WR)
  <2> DEFINE delta == Diff(summary, sum)
             warnings == Warnings(Seen(o), k, t)
             a == <<Record("allocator_source_summary", id, sum)>>
             b == <<Record("allocator_source_delta", id, delta)>>
             w == <<Record("allocator_warnings", id, warnings)>>
             d == IF warnings = {} THEN <<>> ELSE w
             p == WarningsOn
  <2>1. WR = If(p, (a \o b) \o d)
    <3>1. WR = If(p, <<Record("allocator_source_summary", id, sum),
                       Record("allocator_source_delta", id, delta)>> \o d)
      BY DEF WarningRecords, SourceRecords
    <3> QED BY <3>1, TwoTuples
  <2>2. Telling(w, Plain, id)
    BY PlainKinds, TellingOne
  <2>3. p \in BOOLEAN
    BY DEF WarningsOn
  <2>4. T(a) /\ T(b)
    <3> HIDE DEF l, c, s
    <3> QED BY PlainKinds, TellingsOne
  <2> HIDE DEF a, b, w, p, warnings, l, c, s
  <2>5. Telling(d, Plain, id)
    BY <2>2, TellingNothing
  <2> HIDE DEF d
  <2>6. T((a \o b) \o d)
    <3>1. T(d)
      BY <2>5, PlainTelling
    <3>2. T(a \o b)
      BY <2>4, TellingsBoth
    <3> QED BY <3>1, <3>2, TellingsBoth
  <2> HIDE DEF WR
  <2> QED BY <2>1, <2>3, <2>6, TellingsIf
<1>5. T(SR)
  <2> DEFINE p == report # None
             x == <<scan>>
  <2>1. SR = If(p, x)
    BY DEF ScanRecords
  <2>2. p => T(x)
    <3> SUFFICES ASSUME p PROVE T(x)
      OBVIOUS
    <3>1. scan = Record("heap_scan", id, report) /\ scan \in s
      BY DEF ScanRecord
    <3> HIDE DEF l, c, s, scan
    <3> QED BY <3>1, PlainKinds, TellingsOne
  <2>3. p \in BOOLEAN
    OBVIOUS
  <2> HIDE DEF p, x, l, c, s, SR
  <2> QED BY <2>1, <2>2, <2>3, TellingsIf
<1>6. T(TR)
  <2> DEFINE bin == StructBin(h)
             p == Shows("tcache_struct") /\ walk # None
             q == Once({"tcache_struct_candidate"})
             x == <<TcacheStruct(id, bin)>>
             v == Shows("tcache")
             y == <<comparison>>
             z == <<TcacheValidation(id, bin, o, t, end)>>
  <2>1. TR = If(p, If(q, x) \o If(v, y \o z))
    <3>1. TR = If(p, If(q, x) \o If(v, <<comparison, TcacheValidation(id, bin, o, t, end)>>))
      BY DEF StructRecords
    <3> QED BY <3>1, TwoTuples
  <2>2. T(x) /\ T(z)
    <3>1. Telling(x, Plain, id) /\ Telling(z, Plain, id)
      BY PlainKinds, TellingOne DEF TcacheStruct, TcacheValidation
    <3> HIDE DEF l, c, s, x, z
    <3> QED BY <3>1, PlainTelling
  <2>3. v => T(y)
    <3> SUFFICES ASSUME v PROVE T(y)
      OBVIOUS
    <3>1. PICK body : comparison = Record("tcache_comparison", id, body)
      BY DEF TcacheComparison
    <3>2. comparison \in c
      OBVIOUS
    <3> HIDE DEF l, c, s, comparison
    <3> QED BY <3>1, <3>2, PlainKinds, TellingsOne
  <2>4. p \in BOOLEAN /\ q \in BOOLEAN /\ v \in BOOLEAN
    BY DEF Shows, Once
  <2> HIDE DEF p, q, x, v, y, z, l, c, s, TR
  <2>5. v => T(y \o z)
    BY <2>2, <2>3, TellingsBoth
  <2>6. T(If(v, y \o z)) /\ T(If(q, x))
    BY <2>2, <2>4, <2>5, TellingsIf
  <2>7. T(If(q, x) \o If(v, y \o z))
    BY <2>6, TellingsBoth
  <2> QED BY <2>1, <2>4, <2>7, TellingsIf
<1>7. chunks \in BOOLEAN /\ (config.texts # {}) \in BOOLEAN
  OBVIOUS
<1>8. T(rel)
  <2> HIDE DEF l, c, s, chunks, top, arena, experiment, CR, LR, WR, SR, TR, rel
  <2>1. T(If(chunks, CR \o LR)) /\ T(If(chunks, TR))
    <3>1. T(CR \o LR)
      BY <1>2, <1>3, TellingsBoth
    <3> QED BY <1>6, <1>7, <3>1, TellingsIf
  <2>2. T(If(chunks, CR \o LR) \o WR \o SR \o If(chunks, TR))
    <3>1. T(If(chunks, CR \o LR) \o WR)
      BY <1>4, <2>1, TellingsBoth
    <3>2. T(If(chunks, CR \o LR) \o WR \o SR)
      BY <1>5, <3>1, TellingsBoth
    <3> QED BY <2>1, <3>2, TellingsBoth
  <2>3. T(rest)
    BY <1>7, <2>2, TellingsIf
  <2> HIDE DEF rest
  <2>4. T(top \o arena)
    BY <1>2, TellingsBoth
  <2>5. T(top \o arena \o experiment)
    BY <1>2, <2>4, TellingsBoth
  <2> QED BY <1>1, <2>3, <2>5, TellingsBoth
<1> QED BY <1>8 DEF Tellings

\* What is told of an event, among the records a property asks about.
LEMMA EventRelated ==
  ASSUME Inv, NEW h, NEW t, NEW o, NEW e, Told(h, t, o, e)
  PROVE  LET walk   == Snapshot(h, Discovered(h))
             report == ReportOn(h, t, o, OnlyIf("chunks" \in config.texts, walk), kept')
         IN  /\ Telling(related', Kinds, events')
             /\ matched' = StopOn(e, report)
             /\ \A r \in ToSet(related') :
                  /\ r.kind = "heap_layout" =>
                       /\ walk # None
                       /\ r = HeapLayout(events + 1, walk, t, Seen(o), kept',
                                         config.stored["--max-layout-chunks"])
                  /\ r.kind = "tcache_comparison" =>
                       Shows("tcache") /\ r = TcacheComparison(events + 1, StructBin(h), o)
                  /\ r.kind = "heap_scan" =>
                       report # None /\ r = ScanRecord(events + 1, report)
<1> DEFINE end == Discovered(h)
           walk == Snapshot(h, end)
           now == ReadNow(walk)
           report == ReportOn(h, t, o, OnlyIf("chunks" \in config.texts, walk), kept')
           sum == Summary(Seen(o), kept', t)
<1>1. Emit(h, t, o, e) /\ events' = events + 1
  BY DEF Told
<1>2. Tell(events + 1, h, t, o, e, end, walk, now, report, sum)
  BY <1>1, EmitSets
<1>3. PICK k : k = kept'
  OBVIOUS
<1> HIDE DEF end, walk, now, report, sum
<1>4. /\ related' = Related(events + 1, h, t, o, end, walk, now, k, report, sum)
      /\ matched' = StopOn(e, report)
  BY <1>2, <1>3 DEF Tell
<1>5. /\ Telling(related', Kinds, events + 1)
      /\ \A r \in ToSet(related') :
           /\ r.kind = "heap_layout" =>
                /\ walk # None
                /\ r = HeapLayout(events + 1, walk, t, Seen(o), k, config.stored["--max-layout-chunks"])
           /\ r.kind = "tcache_comparison" =>
                Shows("tcache") /\ r = TcacheComparison(events + 1, StructBin(h), o)
           /\ r.kind = "heap_scan" => report # None /\ r = ScanRecord(events + 1, report)
  BY <1>4, RelatedTold
<1> QED BY <1>1, <1>3, <1>4, <1>5 DEF end, walk, report

\* The top, and the chunks a walk lists, of a heap the tracker follows.
LEMMA ChunkTold ==
  ASSUME NEW h, WellFormed(h), NEW t, Tracks(t, h), NEW i \in 1 .. h.carved + 1
  PROVE  CASE StateOf(t, UserOf(6 * i)) = "allocated" -> 6 * i \in InUse(h)
           [] StateOf(t, UserOf(6 * i)) = "freed"     -> 6 * i \in Free(h)
           [] OTHER                                   -> 6 * i = Top(h)
<1> DEFINE c == 6 * i
<1>1. h.carved \in Nat /\ h.carved <= Chunks /\ Top(h) = 6 * h.carved + 6 /\ Chunks \in Nat
  BY HeapTyped, HeapBounds
<1>2. CASE i <= h.carved
  <2>1. i \in 1 .. Chunks /\ c < Top(h)
    BY <1>1, <1>2
  <2>2. c \in Slots
    BY <2>1, SlotsPlaced
  <2>3. c \in Carved(h)
    BY <2>1, <2>2 DEF Carved
  <2> HIDE DEF c
  <2>4. KnownFreed(t, UserOf(c)) = IF c \in Free(h) THEN "yes" ELSE "no"
    BY <2>3, HeldKnown
  <2>5. StateOf(t, UserOf(c)) = IF c \in Free(h) THEN "freed" ELSE "allocated"
    BY <2>4 DEF StateOf
  <2>6. c \notin Free(h) => c \in InUse(h)
    BY <2>1, <2>2 DEF InUse
  <2> QED BY <2>5, <2>6 DEF c
<1>3. CASE ~(i <= h.carved)
  <2>1. i = h.carved + 1 /\ c = Top(h)
    BY <1>1, <1>3
  <2>2. UserOf(c) \notin DOMAIN t
    <3>1. \A d \in Carved(h) : UserOf(d) # UserOf(c)
      BY <1>1, <2>1, SlotsPlaced DEF Carved, UserOf, Header
    <3> QED BY <3>1 DEF Tracks
  <2> HIDE DEF c
  <2>3. StateOf(t, UserOf(c)) = "unknown"
    BY <2>2 DEF StateOf, KnownFreed
  <2> QED BY <2>1, <2>3 DEF c
<1> QED BY <1>2, <1>3

\* The layout told at an event is that of the heap.
LEMMA LayoutTold ==
  ASSUME Inv, NEW h, NEW t, NEW o, NEW e, Told(h, t, o, e)
  PROVE  LayoutTells'
<1> DEFINE end == Discovered(h)
           walk == Snapshot(h, end)
           limit == config.stored["--max-layout-chunks"]
<1> SUFFICES ASSUME Untouched', NEW r \in ToSet(related'), r.kind = "heap_layout",
                    NEW c \in ToSet(r.body.chunks)
             PROVE  CASE c.state = "allocated" -> c.chunk \in InUse(heap')
                      [] c.state = "freed"     -> c.chunk \in Free(heap')
                      [] OTHER                 -> c.chunk = Top(heap')
  BY DEF LayoutTells, Said
<1>1. /\ heap' = h /\ WellFormed(h) /\ hiddenCalls' = 0 /\ hiddenCalls = 0 /\ h.bad = None /\ Tracks(t, h)
      /\ heap.brk <= h.brk /\ Emit(h, t, o, e)
  BY DEF Told, Untouched
<1>2. walk # None /\ r = HeapLayout(events + 1, walk, t, Seen(o), kept', limit)
  <2> HIDE DEF limit
  <2> QED BY EventRelated DEF limit
<1>3. walk = Walk(h, end) /\ end \in Nat /\ end <= h.brk /\ walk \in Walks
  <2> HIDE DEF end
  <2> QED BY <1>1, <1>2, EventWalk DEF end
<1>4. h.carved > 0
  <2>1. mapping' = end /\ end # None
    BY <1>1, <1>3, EmitSets, NoneIsNothing
  <2>2. mapping' = None <=> heap'.carved = 0
    BY <1>1, ToldKeeps DEF Inv, Traced
  <2> HIDE DEF end
  <2> QED BY <1>1, <2>1, <2>2, HeapTyped
<1>5. limit \in Nat
  BY OptionsTyped DEF Inv
<1> HIDE DEF limit, end, walk
<1>6. /\ Len(walk.chunks) <= h.carved + 1 /\ Len(walk.chunks) \in Nat
      /\ \A i \in 1 .. Len(walk.chunks) : walk.chunks[i].addr = 6 * i
  <2>1. walk.chunks \in Seq([addr : Nat, size : Nat])
    BY <1>3 DEF Walks
  <2>2. Len(walk.chunks) \in Nat
    BY <2>1
  <2> QED BY <1>1, <1>3, <1>4, <2>2, SoundWalk
<1> DEFINE n == Least(limit, Len(walk.chunks))
           shown == SubSeq(walk.chunks, 1, n)
<1>7. n \in Nat /\ n <= Len(walk.chunks)
  BY <1>5, <1>6 DEF Least
<1>8. DOMAIN shown = 1 .. n /\ \A i \in 1 .. n : shown[i] = walk.chunks[i]
  <2> DEFINE R == [addr : Nat, size : Nat]
             w == walk.chunks
  <2>1. w \in Seq(R)
    BY <1>3 DEF Walks
  <2> HIDE DEF n, w, R
  <2> QED BY <1>7, <2>1 DEF w
<1> HIDE DEF n, shown
<1>9. r.body.chunks = [i \in DOMAIN shown |-> LayoutChunk(shown[i], t, Seen(o), kept')]
  BY <1>2 DEF HeapLayout, Record, n, shown
<1>10. PICK i \in DOMAIN shown : c = LayoutChunk(shown[i], t, Seen(o), kept')
  BY <1>9 DEF ToSet
<1>11. i \in 1 .. h.carved + 1 /\ shown[i].addr = 6 * i
  <2>1. h.carved \in Nat
    BY <1>1, HeapTyped
  <2>2. i \in Nat /\ 1 <= i /\ i <= n
    BY <1>7, <1>8
  <2>3. i \in 1 .. Len(walk.chunks) /\ i <= h.carved + 1
    BY <1>6, <1>7, <2>1, <2>2
  <2> QED BY <1>6, <1>8, <2>1, <2>2, <2>3
<1>12. c.chunk = 6 * i /\ c.state = StateOf(t, UserOf(6 * i))
  BY <1>10, <1>11 DEF LayoutChunk
<1> QED BY <1>1, <1>11, <1>12, ChunkTold

-----------------------------------------------------------------------------
(* Alarms                                                                  *)

\* Of bins that were empty when they were read, and a tcache of free chunks, nothing
\* suspicious is found.
LEMMA CalmReport ==
  ASSUME NEW o, NEW k, NEW t, NEW walk, NEW top,
         \A b \in Bins : k[b] = None \/ Bare(b, k[b], TRUE),
         \A p \in ToSet(EntriesIf(o)) : KnownFreed(t, p) # "no",
         \A p \in ToSet(EntriesIf(o)) : walk # None => WalkedSize(p - Header, walk) \in {None, Unit},
         top # FALSE
  PROVE  Report(o, k, t, walk, top).status # "suspicious"
<1> DEFINE N == SourceNodes(o, k, walk)
           M == Memberships(o, k)
           W == Warnings(o, k, t)
           prior == WalkFindings(walk) \cup WarningFindings(W)
           F == Findings(o, k, t, walk, top)
<1>1. ASSUME NEW b \in Bins PROVE BinNodes(k, b) = {}
  <2>1. Nodes(k[b]) = <<>>
    BY DEF Nodes, Bare
  <2> QED BY <2>1 DEF BinNodes, ToSet
<1>2. \A u \in {None, walk} : \A n \in SourceNodes(o, k, u) : n \in TcacheNodes(o, u)
  BY <1>1 DEF SourceNodes
<1>3. ASSUME NEW u, NEW n \in TcacheNodes(o, u)
      PROVE  /\ n.kind = "tcache" /\ n.user \in ToSet(EntriesIf(o)) /\ n.expected = Unit
             /\ n.actual = IF u = None THEN None ELSE WalkedSize(n.user - Header, u)
  BY DEF TcacheNodes
<1>4. \A m \in M : m.kind = "tcache" /\ KnownFreed(t, m.user) # "no"
  <2> SUFFICES ASSUME NEW m \in M PROVE m.kind = "tcache" /\ KnownFreed(t, m.user) # "no"
    OBVIOUS
  <2>1. PICK n \in SourceNodes(o, k, None) : m = [kind |-> n.kind, user |-> n.user]
    BY DEF Memberships
  <2> QED BY <1>2, <1>3, <2>1
<1>5. Conflicts(o, k) = {}
  <2> SUFFICES ASSUME NEW u
               PROVE  ~(Cardinality({m.kind : m \in {x \in M : x.user = u}}) > 1)
    BY DEF Conflicts
  <2> DEFINE K == {m.kind : m \in {x \in M : x.user = u}}
  <2>1. K = {} \/ K = {"tcache"}
    BY <1>4
  <2>2. Cardinality({}) = 0
    BY FS_EmptySet
  <2>3. Cardinality({"tcache"}) = 1
    BY FS_Singleton
  <2> HIDE DEF K
  <2>4. Cardinality(K) = 0 \/ Cardinality(K) = 1
    BY <2>1, <2>2, <2>3
  <2> QED BY <2>4 DEF K
<1>6. W = {}
  <2>1. {x \in M : KnownFreed(t, x.user) = "no"} = {}
    BY <1>4
  <2>2. BinNodes(k, "fastbin") = {} /\ BinNodes(k, "smallbin") = {}
    BY <1>1 DEF Bins
  <2> HIDE DEF M
  <2>3. W = {} \cup {} \cup {}
    BY <1>5, <2>1, <2>2 DEF Warnings, M
  <2> QED BY <2>3
<1>7. \A f \in prior : f.severity = "warning"
  BY <1>6 DEF WalkFindings, WarningFindings, Doubt, Finding
<1> HIDE DEF M, W, prior
<1>8. ASSUME NEW n \in N PROVE NodeFindings(n, t, prior) = {}
  <2>1. n \in TcacheNodes(o, walk)
    BY <1>2
  <2>2. KnownFreed(t, n.user) # "no" /\ n.kind # "largebin"
    BY <1>3, <2>1
  <2>3. ~Mismatch(n)
    <3>1. n.actual \in {None, Unit} /\ n.expected = Unit
      BY <1>3, <2>1
    <3> QED BY <3>1 DEF Mismatch
  <2> QED BY <2>2, <2>3 DEF NodeFindings
<1>9. ASSUME NEW b \in Bins, NEW mapped PROVE ChainFindings(k, b, mapped) = {}
  <2>1. CASE k[b] = None \/ k[b].chain = None
    BY <2>1 DEF ChainFindings
  <2>2. CASE ~(k[b] = None \/ k[b].chain = None)
    <3>1. k[b].chain.end # "cycle" /\ k[b].chain.end # "unknown_next" /\ b # "fastbin"
      BY <2>2 DEF Bare
    <3> QED BY <2>2, <3>1 DEF ChainFindings
  <2> QED BY <2>1, <2>2
<1>10. TopFindings(top) = {}
  BY DEF TopFindings
<1>11. ASSUME NEW b \in Bins, NEW f \in VerdictFindings(k, b) PROVE f.severity # "suspicious"
  <2>1. k[b] # None /\ k[b].verdict # "suspicious"
    BY <1>11 DEF VerdictFindings, Bare
  <2>2. f.severity = "warning"
    BY <1>11, <2>1 DEF VerdictFindings, Finding
  <2> QED BY <2>2
<1>12. \A f \in F : f.severity # "suspicious"
  <2> DEFINE mapped == IF walk = None THEN 0 ELSE walk.end
  <2> SUFFICES ASSUME NEW f \in F PROVE f.severity # "suspicious"
    OBVIOUS
  <2>1. F = FindingsAfter(prior, o, k, t, walk, top)
    BY DEF Findings, prior, W
  <2> HIDE DEF F
  <2>2. \/ f \in prior
        \/ \E n \in N : f \in NodeFindings(n, t, prior)
        \/ \E b \in Bins : f \in ChainFindings(k, b, mapped)
        \/ f \in TopFindings(top)
        \/ \E b \in Bins : f \in VerdictFindings(k, b)
    <3> HIDE DEF N, mapped
    <3> QED BY <2>1 DEF FindingsAfter, N, mapped
  <2> HIDE DEF N, mapped
  <2> QED BY <1>7, <1>8, <1>9, <1>10, <1>11, <2>2
<1> HIDE DEF F
<1>13. Report(o, k, t, walk, top).status = StatusOf(F)
  BY DEF Report, ReportOf, F
<1> QED BY <1>12, <1>13 DEF StatusOf

\* The size a walk gives a chunk is its size.
LEMMA WalkedUnit ==
  ASSUME NEW h, WellFormed(h), h.carved > 0, h.bad = None, NEW end \in Nat, end <= h.brk,
         NEW c \in Carved(h)
  PROVE  WalkedSize(c, Walk(h, end)) \in {None, Unit}
<1> DEFINE w == Walk(h, end)
           i == CHOOSE j \in DOMAIN w.chunks : w.chunks[j].addr = c
<1>1. w \in Walks /\ \A j \in 1 .. Len(w.chunks) :
                       /\ w.chunks[j].addr = 6 * j
                       /\ w.chunks[j].size = IF j <= h.carved THEN 6 ELSE h.brk - Top(h)
  BY SoundWalk
<1> SUFFICES WalkedSize(c, w) \in {None, Unit}
  OBVIOUS
<1> HIDE DEF w
<1>2. DOMAIN w.chunks = 1 .. Len(w.chunks) /\ Len(w.chunks) \in Nat
  <2> DEFINE R == [addr : Nat, size : Nat]
             s == w.chunks
  <2>1. s \in Seq(R)
    BY <1>1 DEF Walks
  <2> HIDE DEF R, s
  <2>2. DOMAIN s = 1 .. Len(s) /\ Len(s) \in Nat
    BY <2>1
  <2> QED BY <2>2 DEF s
<1>3. CASE Walked(c, w)
  <2>1. i \in DOMAIN w.chunks /\ w.chunks[i].addr = c
    BY <1>3 DEF Walked
  <2>2. WalkedSize(c, w) = w.chunks[i].size
    BY <1>3 DEF WalkedSize
  <2> HIDE DEF i
  <2>3. i \in Nat /\ c = 6 * i
    BY <1>1, <1>2, <2>1
  <2>4. i <= h.carved
    <3>1. c < Top(h) /\ Top(h) = 6 * h.carved + 6 /\ h.carved \in Nat
      BY HeapTyped DEF Carved
    <3> QED BY <2>3, <3>1
  <2>5. i \in 1 .. Len(w.chunks)
    BY <1>2, <2>1
  <2>6. w.chunks[i].size = 6
    BY <1>1, <2>4, <2>5
  <2> QED BY <2>2, <2>6 DEF Unit
<1>4. CASE ~Walked(c, w)
  BY <1>4 DEF WalkedSize
<1> QED BY <1>3, <1>4

\* An event of an undisturbed session is reported suspicious for a reason.
LEMMA CalmEvent ==
  ASSUME Inv, NEW h, NEW t, NEW o, NEW e, Told(h, t, o, e), Untouched', ~Reasons'
  PROVE  LET report == ReportOn(h, t, o, OnlyIf("chunks" \in config.texts,
                                               Snapshot(h, Discovered(h))), kept')
         IN  report # None => report.status # "suspicious"
<1> DEFINE end == Discovered(h)
           scan == OnlyIf("chunks" \in config.texts, Snapshot(h, end))
           top == TopValidated(h, scan)
           seen == Seen(o)
<1>1. /\ heap' = h /\ WellFormed(h) /\ hiddenCalls' = 0 /\ hiddenCalls = 0 /\ h.bad = None /\ Tracks(t, h)
      /\ heap.brk <= h.brk /\ Emit(h, t, o, e) /\ UNCHANGED <<setup, config>>
  BY DEF Told, Untouched
<1>2. mapping' = end /\ observed' = o
  BY <1>1, EmitSets
<1>3. PICK k : k = kept'
  OBVIOUS
<1>4. Traced' /\ k \in [Bins -> Snapshots \cup {None}]
  BY <1>1, <1>3, ToldKeeps DEF Inv
<1>5. end = h.brk
  BY <1>1, <1>2 DEF Reasons
<1>6. h.carved > 0 /\ h.brk \in Nat
  <2>1. h.brk \in Nat /\ h.carved \in Nat
    BY <1>1, HeapTyped
  <2>2. mapping' # None
    BY <1>2, <1>5, <2>1, NoneIsNothing
  <2>3. mapping' = None <=> heap'.carved = 0
    BY <1>4 DEF Traced
  <2> QED BY <1>1, <2>1, <2>2, <2>3
<1>7. scan = None \/ scan = Walk(h, h.brk)
  BY <1>5 DEF OnlyIf, Snapshot
<1>8. \A b \in Bins : k[b] = None \/ Bare(b, k[b], TRUE)
  <2>1. \A b \in Bins : k[b] = None \/ Bare(b, k[b], Aligned')
    BY <1>3, <1>4 DEF Traced
  <2>2. CASE Aligned'
    <3>1. Aligned' = TRUE
      BY <2>2 DEF Aligned
    <3> QED BY <2>1, <3>1
  <2>3. CASE ~Aligned'
    <3>1. \A b \in Linked : k[b] = None
      BY <1>3, <2>3 DEF Reasons
    <3>2. Bins = Linked \cup {"fastbin"}
      BY DEF Linked, Bins
    <3>3. Bare("fastbin", k["fastbin"], Aligned') => Bare("fastbin", k["fastbin"], TRUE)
      BY DEF Bare
    <3> QED BY <2>1, <3>1, <3>2, <3>3
  <2> QED BY <2>2, <2>3
<1>9. ASSUME NEW p \in ToSet(EntriesIf(seen))
      PROVE  \E c \in Carved(h) : c \in Free(h) /\ p = UserOf(c)
  <2>1. Shows("tcache") /\ p \in ToSet(Entries(o))
    <3>1. CASE Shows("tcache")
      <4>1. seen = o
        BY <3>1 DEF Seen, OnlyIf
      <4> QED BY <1>9, <3>1, <4>1 DEF EntriesIf, ToSet
    <3>2. CASE ~Shows("tcache")
      BY <1>9, <3>2 DEF Seen, OnlyIf, EntriesIf, ToSet
    <3> QED BY <3>1, <3>2
  <2>2. ToSet(Entries(o)) \subseteq {UserOf(c) : c \in ToSet(h.lists["tcache"])}
    BY <1>1, <1>2, <2>1 DEF Reasons, Shows
  <2>3. PICK c \in ToSet(h.lists["tcache"]) : p = UserOf(c)
    BY <2>1, <2>2
  <2>4. c \in Free(h)
    BY DEF Free, Lists
  <2> QED BY <1>1, <2>3, <2>4, FreeCarved
<1>10. \A p \in ToSet(EntriesIf(seen)) : KnownFreed(t, p) # "no"
  <2> SUFFICES ASSUME NEW p \in ToSet(EntriesIf(seen)) PROVE KnownFreed(t, p) # "no"
    OBVIOUS
  <2>1. PICK c \in Carved(h) : c \in Free(h) /\ p = UserOf(c)
    BY <1>9
  <2>2. KnownFreed(t, UserOf(c)) = "yes"
    BY <1>1, <2>1, HeldKnown
  <2> QED BY <2>1, <2>2
<1>11. \A p \in ToSet(EntriesIf(seen)) : scan # None => WalkedSize(p - Header, scan) \in {None, Unit}
  <2> SUFFICES ASSUME NEW p \in ToSet(EntriesIf(seen)), scan # None
               PROVE  WalkedSize(p - Header, scan) \in {None, Unit}
    OBVIOUS
  <2>1. PICK c \in Carved(h) : c \in Free(h) /\ p = UserOf(c)
    BY <1>9
  <2>2. p - Header = c
    BY <2>1, SlotsPlaced DEF Carved, UserOf, Header
  <2>3. WalkedSize(c, Walk(h, h.brk)) \in {None, Unit}
    BY <1>1, <1>6, WalkedUnit
  <2> HIDE DEF scan
  <2> QED BY <1>7, <2>2, <2>3
<1>12. top # FALSE
  <2>1. CASE scan = None \/ ~Shows("top") \/ ~L!TopKnown(config, Profile)
    <3>1. top = None
      BY <2>1 DEF TopValidated
    <3> QED BY <3>1, NoneIsNoAnswer
  <2>2. CASE ~(scan = None \/ ~Shows("top") \/ ~L!TopKnown(config, Profile))
    <3>1. top = (TopStatus(h, scan) = "validated")
      BY <2>2 DEF TopValidated
    <3> DEFINE w == Walk(h, h.brk)
    <3>2. scan = w
      BY <1>7, <2>2
    <3>3. Walked(Top(h), w)
      <4>1. /\ w \in Walks /\ Len(w.chunks) = h.carved + 1
            /\ \A i \in 1 .. Len(w.chunks) : w.chunks[i].addr = 6 * i
        BY <1>1, <1>6, SoundWalk
      <4> HIDE DEF w
      <4> DEFINE R == [addr : Nat, size : Nat]
                 s == w.chunks
      <4>2. s \in Seq(R)
        BY <4>1 DEF Walks
      <4> HIDE DEF R, s
      <4>3. DOMAIN s = 1 .. Len(s)
        BY <4>2
      <4>4. h.carved \in Nat /\ Top(h) = 6 * h.carved + 6
        BY <1>1, HeapTyped
      <4>5. PICK i \in Nat : i = h.carved + 1
        BY <4>4
      <4>6. i \in DOMAIN s /\ i \in 1 .. Len(w.chunks)
        <5>1. Len(s) = i /\ i >= 1
          BY <4>1, <4>4, <4>5 DEF s
        <5> QED BY <4>3, <4>5, <5>1 DEF s
      <4>7. s[i].addr = 6 * i /\ Top(h) = 6 * i
        BY <4>1, <4>4, <4>5, <4>6 DEF s
      <4> QED BY <4>6, <4>7 DEF Walked, s
    <3>4. TopStatus(h, w) = "validated"
      BY <3>3 DEF TopStatus
    <3> QED BY <3>1, <3>2, <3>4
  <2> QED BY <2>1, <2>2
<1> HIDE DEF top, scan, seen
<1>13. Report(seen, k, t, scan, top).status # "suspicious"
  BY <1>8, <1>10, <1>11, <1>12, CalmReport
<1>14. \/ ReportOn(h, t, o, scan, k) = None
       \/ ReportOn(h, t, o, scan, k) = Report(seen, k, t, scan, top)
  BY DEF ReportOn, OnlyIf, seen, top
<1> QED BY <1>3, <1>13, <1>14 DEF scan, end

\* A session stops on a condition it was given, and that was met.
LEMMA StopMet ==
  ASSUME Inv, NEW e, NEW report, StopOn(e, report) # None
  PROVE  /\ StopOn(e, report) \in ToSet(config.breaks)
         /\ Matches(StopOn(e, report), e, report)
<1> DEFINE met == {i \in DOMAIN config.breaks : Matches(config.breaks[i], e, report)}
<1>1. met # {} /\ StopOn(e, report) = config.breaks[Min(met)]
  BY DEF StopOn
<1>2. met \in SUBSET Nat
  <2> DEFINE s == config.breaks
             S == ToSet(s)
  <2>1. s \in Seq(S)
    BY ConfigNumbers DEF Inv
  <2> HIDE DEF s, S
  <2>2. DOMAIN s = 1 .. Len(s) /\ Len(s) \in Nat
    BY <2>1
  <2> QED BY <2>2 DEF s
<1>3. Min(met) \in met
  <2> HIDE DEF met
  <2>1. \E m \in met : \A n \in met : m <= n
    BY <1>1, <1>2, LeastNumber
  <2> QED BY <2>1 DEF Min
<1> QED BY <1>1, <1>3 DEF ToSet

\* An alarm at an event has a reason.
LEMMA AlarmTold ==
  ASSUME Inv, NEW h, NEW t, NEW o, NEW e, Told(h, t, o, e)
  PROVE  AlarmsExplained'
<1> DEFINE report == ReportOn(h, t, o, OnlyIf("chunks" \in config.texts, Snapshot(h, Discovered(h))),
                              kept')
<1>1. matched' = StopOn(e, report)
  BY EventRelated
<1>2. Untouched' /\ ~Reasons' => (report # None => report.status # "suspicious")
  BY CalmEvent
<1>3. \A r \in ToSet(related') :
        r.kind = "heap_scan" => report # None /\ r = ScanRecord(events + 1, report)
  BY EventRelated
<1> HIDE DEF report
<1>4. ASSUME NEW r \in Said("heap_scan")', r.body.status = "suspicious", Untouched'
      PROVE  Reasons'
  <2>1. report # None /\ r.body = report
    BY <1>3, <1>4 DEF Said, ScanRecord, Record
  <2> QED BY <1>2, <1>4, <2>1
<1>5. ASSUME StoppedOn("suspicious")', Untouched'
      PROVE  Reasons'
  <2>1. StopOn(e, report) # None /\ matched'.flag = "--break-on" /\ matched'.value = "suspicious"
    BY <1>1, <1>5 DEF StoppedOn
  <2>2. Matches(matched', e, report)
    BY <1>1, <2>1, StopMet
  <2>3. report # None /\ report.status = "suspicious"
    BY <2>1, <2>2 DEF Matches
  <2> QED BY <1>2, <1>5, <2>3
<1>6. ASSUME StoppedOn("double-free")'
      PROVE  hiddenCalls' > 0
  <2>1. StopOn(e, report) # None /\ matched'.flag = "--break-on" /\ matched'.value = "double-free"
    BY <1>1, <1>6 DEF StoppedOn
  <2>2. Matches(matched', e, report)
    BY <1>1, <2>1, StopMet
  <2>3. e.note = "double free"
    BY <2>1, <2>2 DEF Matches
  <2>4. hiddenCalls # 0 /\ hiddenCalls' = hiddenCalls /\ hiddenCalls \in Nat
    BY <2>3 DEF Told, Inv
  <2> QED BY <2>4
<1> QED BY <1>4, <1>5, <1>6 DEF AlarmsExplained

\* A step that changes nothing the properties look at, or disturbs the session.
LEMMA Silence ==
  ASSUME Inv, UntracedMalloc \/ UntracedFree \/ Overwrite
  PROVE  /\ Inv' /\ ~Untouched' /\ UNCHANGED <<setup, config, events, trace>>
         /\ hiddenCalls \in Nat /\ hiddenCalls' \in Nat /\ hiddenCalls' >= hiddenCalls
<1>1. CASE UntracedMalloc \/ UntracedFree
  <2>1. hiddenCalls' = hiddenCalls + 1
    BY <1>1 DEF UntracedMalloc, UntracedFree, Hidden
  <2> QED BY <1>1, <2>1, HiddenKeeps DEF Untouched, Inv
<1>2. CASE Overwrite
  BY <1>2, OverwriteKeeps DEF Untouched, Inv
<1> QED BY <1>1, <1>2

\* No scan, no stop on suspicious memory and no stop on a double free without a reason
\* (heap_scan.rs:198-336, app.rs:3120-3204).
THEOREM AlarmsAlways == Spec => []AlarmsExplained
<1>1. Init => AlarmsExplained
  BY DEF Init, AlarmsExplained, Said, StoppedOn, ToSet
<1>2. Inv /\ AlarmsExplained /\ [Next]_vars => AlarmsExplained'
  <2> SUFFICES ASSUME Inv, AlarmsExplained, [Next]_vars PROVE AlarmsExplained'
    OBVIOUS
  <2>1. CASE TracedMalloc \/ TracedFree \/ TracedRealloc \/ TracedNull
    BY <2>1, EventTold, AlarmTold
  <2>2. CASE UntracedMalloc \/ UntracedFree \/ Overwrite
    <3>1. ~Untouched' /\ matched' = matched /\ hiddenCalls' >= hiddenCalls /\ hiddenCalls \in Nat /\ hiddenCalls' \in Nat
      BY <2>2, Silence DEF trace
    <3> QED BY <3>1 DEF AlarmsExplained, StoppedOn
  <2>3. CASE UNCHANGED vars
    <3>1. UNCHANGED <<config, heap, observed, mapping, kept, related, matched, hiddenCalls, wasIn>>
      BY <2>3 DEF vars, world, trace
    <3>2. Reasons' = Reasons /\ Untouched' = Untouched
      BY <3>1 DEF Reasons, Untouched, Aligned, Shows
    <3> QED BY <3>1, <3>2 DEF AlarmsExplained, StoppedOn, Said
  <2> QED BY <2>1, <2>2, <2>3 DEF Next
<1> QED BY <1>1, <1>2, InvAlways, PTL DEF Spec

\* The layout calls a chunk what it is (json.rs:1374-1459).
THEOREM LayoutAlways == Spec => []LayoutTells
<1>1. Init => LayoutTells
  BY DEF Init, LayoutTells, Said, ToSet
<1>2. Inv /\ LayoutTells /\ [Next]_vars => LayoutTells'
  <2> SUFFICES ASSUME Inv, LayoutTells, [Next]_vars PROVE LayoutTells'
    OBVIOUS
  <2>1. CASE TracedMalloc \/ TracedFree \/ TracedRealloc \/ TracedNull
    BY <2>1, EventTold, LayoutTold
  <2>2. CASE UntracedMalloc \/ UntracedFree \/ Overwrite
    BY <2>2, Silence DEF LayoutTells
  <2>3. CASE UNCHANGED vars
    <3>1. UNCHANGED <<heap, related, hiddenCalls>>
      BY <2>3 DEF vars, world, trace
    <3> QED BY <3>1 DEF LayoutTells, Said, Untouched
  <2> QED BY <2>1, <2>2, <2>3 DEF Next
<1> QED BY <1>1, <1>2, InvAlways, PTL DEF Spec

-----------------------------------------------------------------------------
(* The links of the free chunks                                            *)

\* A free chunk's words are its links, where nobody overwrote them.
LEMMA LinkWord ==
  ASSUME NEW h, WellFormed(h), NEW l \in Lists, NEW i \in DOMAIN h.lists[l]
  PROVE  LET c == h.lists[l][i] IN
         /\ Readable(h, UserOf(c)) /\ Readable(h, UserOf(c) + 1)
         /\ h.bad = None \/ h.bad.at # UserOf(c) => Word(h, UserOf(c)) = Fd(h, l, c)
         /\ h.bad = None \/ h.bad.at # UserOf(c) + 1 => Word(h, UserOf(c) + 1) = Bk(h, l, c)
<1> DEFINE c == h.lists[l][i]
<1>1. c \in Free(h) /\ c \in Carved(h)
  BY FreeCarved
<1>2. ListOf(h, c) = l
  BY FreePlace
<1> HIDE DEF c
<1>3. c \in Slots /\ c < Top(h)
  BY <1>1 DEF Carved
<1>4. PICK k \in 1 .. Chunks : c = 6 * k
  BY <1>3, SlotsPlaced
<1>5. k \in Nat /\ UserOf(c) = 6 * k + 2 /\ UserOf(c) + 1 = 6 * k + 3
  BY <1>4, HeapBounds DEF UserOf, Header
<1>6. Readable(h, UserOf(c)) /\ Readable(h, UserOf(c) + 1)
  <2>1. h.brk \in Nat /\ h.carved \in Nat /\ Top(h) = 6 * h.carved + 6 /\ Top(h) <= h.brk /\ k <= h.carved
    BY <1>3, <1>4, <1>5, HeapTyped
  <2>2. 6 * k + 3 < h.brk /\ 6 <= 6 * k + 2
    BY <1>4, <1>5, <2>1
  <2> QED BY <1>5, <2>1, <2>2, WordTyped
<1> DEFINE a == UserOf(c)
<1>7. /\ ~\E d \in Slots : d < Top(h) /\ a = d + 1
      /\ a # Top(h) + 1
      /\ \A d \in Slots : a # UserOf(d) + 1
      /\ ~\E d \in Slots : d < Top(h) /\ a + 1 = d + 1
      /\ a + 1 # Top(h) + 1
      /\ \A d \in Slots : a + 1 # UserOf(d)
  BY <1>5, WordsApart
<1>8. Free(h) \subseteq Slots
  BY FreeCarved DEF Carved
<1>9. a - Header = c /\ a + 1 - Header - 1 = c
  BY <1>4, <1>5 DEF Header
<1> HIDE DEF a
<1>10. Written(h, a) = Fd(h, l, c)
  <2>1. \E d \in Free(h) : a = UserOf(d)
    BY <1>1 DEF a
  <2>2. ~\E d \in Free(h) : a = UserOf(d) + 1
    BY <1>7, <1>8
  <2> QED BY <1>2, <1>7, <1>9, <2>1, <2>2 DEF Written
<1>11. Written(h, a + 1) = Bk(h, l, c)
  <2> DEFINE x == a + 1
  <2>1. \E d \in Free(h) : x = UserOf(d) + 1
    BY <1>1 DEF a
  <2>2. /\ ~\E d \in Slots : d < Top(h) /\ x = d + 1
        /\ x # Top(h) + 1 /\ \A d \in Slots : x # UserOf(d)
    BY <1>7
  <2>5. x - Header - 1 = c
    BY <1>4, <1>5 DEF a, Header
  <2>4. ~\E d \in Free(h) : x = UserOf(d)
    BY <1>8, <2>2
  <2> HIDE DEF x
  <2>3. Written(h, x) = Bk(h, l, c)
    BY <1>2, <2>1, <2>2, <2>4, <2>5 DEF Written
  <2> QED BY <2>3 DEF x
<1>12. /\ h.bad = None \/ h.bad.at # a => Word(h, a) = Written(h, a)
       /\ h.bad = None \/ h.bad.at # a + 1 => Word(h, a + 1) = Written(h, a + 1)
  BY <1>6 DEF Word, a
<1> QED BY <1>6, <1>10, <1>11, <1>12 DEF a, c

\* Where users write.
Users == {UserOf(c) : c \in Slots}

\* They are no chunks, nor any of the addresses that are nowhere.
LEMMA UserPlaces ==
  /\ NULL \notin Users /\ Wild \notin Users /\ Users \subseteq Nat
  /\ \A c \in Slots : c \notin Users /\ UserOf(c) \in Users
<1>1. \A c \in Slots : \E k \in Nat : c = 6 * k /\ k > 0 /\ c < 1000
  BY SlotsPlaced, HeapBounds, Numbers
<1>2. \A j, k \in Nat : 6 * j # 6 * k + 2
  OBVIOUS
<1>3. \A u \in Users : \E k \in Nat : u = 6 * k + 2 /\ k > 0 /\ u < 1002
  BY <1>1 DEF Users, UserOf, Header
<1>4. NULL \notin Users /\ Wild \notin Users /\ Users \subseteq Nat
  BY <1>3 DEF NULL, Wild
<1>5. \A c \in Slots : c \notin Users
  BY <1>1, <1>2, <1>3
<1> QED BY <1>4, <1>5 DEF Users

\* The link the tracker saw leads where the tcache does, or to no user's place.
Chained(h, o, l, i) ==
  LET u == UserOf(h.lists[l][i]) IN
  /\ u \in DOMAIN o.next
  /\ o.next[u] \in Users =>
       l = "tcache" /\ i < Len(h.lists[l]) /\ o.next[u] = UserOf(h.lists[l][i + 1])

\* So it is of every free chunk whose free was an event.
Linkage(h, o, un) ==
  \A l \in Lists : \A i \in DOMAIN h.lists[l] : h.lists[l][i] \notin un => Chained(h, o, l, i)

\* The sizes of the chunks of a heap nobody overwrote.
LEMMA SoundSize ==
  ASSUME NEW h, WellFormed(h), h.bad = None, NEW c \in Carved(h)
  PROVE  ChunkSize(h, c) = Unit
<1>1. PICK i \in 1 .. Chunks : c = 6 * i
  BY SlotsPlaced DEF Carved
<1>2. h.carved \in Nat /\ c < Top(h) /\ Top(h) = 6 * h.carved + 6 /\ i \in Nat
  BY <1>1, HeapTyped, HeapBounds DEF Carved
<1>3. i \in 1 .. h.carved + 1 /\ i <= h.carved /\ h.carved > 0
  BY <1>1, <1>2
<1>4. Word(h, 6 * i + 1) = 6
  BY <1>3, SizeWord
<1>5. Word(h, c + 1) = 6
  BY <1>1, <1>4
<1>6. Normalize(6) = 6
  BY DEF Normalize, Alignment
<1> QED BY <1>5, <1>6 DEF ChunkSize, Unit

\* An allocation leaves the links as they were.
LEMMA ServedLinks ==
  ASSUME NEW h, WellFormed(h), NEW s \in Served(h), NEW o, NEW un, Linkage(h, o, un)
  PROVE  Linkage(s.heap, o, un)
<1> DEFINE g == s.heap
<1>1. Serves(h, g, s.chunk)
  BY ChunkServed
<1>2. WellFormed(g) /\ Free(g) \subseteq Free(h)
  BY <1>1 DEF Serves
<1>3. /\ OnePlace(h.lists) /\ OnePlace(g.lists)
      /\ h.lists \in [Lists -> Seq(Slots)] /\ g.lists \in [Lists -> Seq(Slots)] /\ "tcache" \in Lists
  BY <1>2, HeapTyped, ZenonT(60) DEF WellFormed, Lists
<1> HIDE DEF g
<1>4. \/ h.lists["tcache"] = <<>>
      \/ g.lists = [h.lists EXCEPT !["tcache"] = Tail(@)] /\ h.lists["tcache"] # <<>>
      \/ g.lists["tcache"] = h.lists["tcache"]
  <2>1. s \in FromTcache(h) \/ (\E b \in Bins : s \in FromBin(h, b)) \/ s \in FromTop(h)
    <3>1. s \in UNION {FromBin(h, b) : b \in Bins} => \E b \in Bins : s \in FromBin(h, b)
      OBVIOUS
    <3> QED BY <3>1, SMT DEF Served
  <2>2. CASE s \in FromTcache(h)
    <3>1. /\ h.lists["tcache"] # <<>>
          /\ s.heap = [h EXCEPT !.lists["tcache"] = Tail(@)]
      BY <2>2 DEF FromTcache
    <3>2. DOMAIN h = DOMAIN [h EXCEPT !.lists["tcache"] = Tail(@)] /\ h \in Heaps
      BY DEF WellFormed
    <3> QED BY <3>1, <3>2 DEF g, Heaps
  <2>3. ASSUME NEW b \in Bins, s \in FromBin(h, b) PROVE h.lists["tcache"] = <<>>
    BY <2>3 DEF FromBin
  <2>4. CASE s \in FromTop(h)
    <3>1. s.heap.lists = Sorted(h)
      <4>1. h \in Heaps
        BY DEF WellFormed
      <4> DEFINE need == Enough(h.carved + 1)
                 brk  == IF h.brk >= need THEN h.brk
                         ELSE IF h.brk = Start THEN Enough(Chunks - 1) ELSE need
                 f == [h EXCEPT !.carved = h.carved + 1, !.lists = Sorted(h), !.brk = brk]
      <4>2. s.heap = f
        BY <2>4, <4>1, HeapBounds DEF FromTop, Heaps
      <4>3. DOMAIN h = {"lists", "carved", "brk", "bad", "skew", "class"}
        BY <4>1 DEF Heaps
      <4> HIDE DEF need, brk
      <4>4. f.lists = Sorted(h)
        BY <4>3
      <4> QED BY <4>2, <4>4
    <3>2. h.class # "tcache"
      <4>1. h.class \in Bins
        BY HeapTyped
      <4> QED BY <4>1 DEF Bins
    <3>3. Sorted(h)["tcache"] = h.lists["tcache"]
      BY <1>3, <3>2 DEF Sorted
    <3> QED BY <3>1, <3>3 DEF g
  <2> QED BY <2>1, <2>2, <2>3, <2>4
<1>5. SUFFICES ASSUME NEW l \in Lists, NEW i \in DOMAIN g.lists[l], g.lists[l][i] \notin un
               PROVE  Chained(g, o, l, i)
  BY DEF Linkage, g
<1> DEFINE c == g.lists[l][i]
<1>6. c \in Free(h)
  BY <1>2, FreeCarved
<1> HIDE DEF c
<1>70. PICK m \in Lists : \E j \in DOMAIN h.lists[m] : h.lists[m][j] = c
  BY <1>6, FreeCarved
<1>7. PICK j \in DOMAIN h.lists[m] : h.lists[m][j] = c
  BY <1>70
<1>8. Chained(h, o, m, j)
  BY <1>5, <1>7 DEF Linkage, c
<1>9. CASE m # "tcache"
  BY <1>7, <1>8, <1>9 DEF Chained, c
<1>10. CASE m = "tcache"
  <2> DEFINE v == h.lists["tcache"]
             w == g.lists["tcache"]
  <2>1. v \in Seq(Slots) /\ w \in Seq(Slots) /\ j \in DOMAIN v /\ v[j] = c
    BY <1>3, <1>7, <1>10
  <2>2. CASE g.lists = [h.lists EXCEPT !["tcache"] = Tail(@)] /\ v # <<>>
    <3>1. l = "tcache"
      <4> SUFFICES ASSUME l # "tcache" PROVE FALSE
        OBVIOUS
      <4>1. g.lists[l] = h.lists[l]
        BY <1>3, <2>2
      <4>2. i \in DOMAIN h.lists[l] /\ h.lists[l][i] = h.lists["tcache"][j]
        BY <1>5, <1>7, <1>10, <4>1 DEF c
      <4> QED BY <1>3, <1>7, <1>10, <4>2 DEF OnePlace
    <3>2. w = Tail(v)
      BY <1>3, <2>2
    <3>3. i \in DOMAIN w /\ w[i] = c
      BY <3>1 DEF c
    <3> HIDE DEF v, w
    <3>4. Len(w) = Len(v) - 1 /\ Len(v) \in Nat /\ Len(v) > 0 /\ \A k \in 1 .. Len(w) : w[k] = v[k + 1]
      BY <2>1, <2>2, <3>2
    <3>5. i \in 1 .. Len(w) /\ i + 1 \in DOMAIN v /\ v[i + 1] = c
      BY <2>1, <3>3, <3>4
    <3>6. j = i + 1
      BY <1>3, <2>1, <3>5 DEF OnePlace, v
    <3>7. i + 1 < Len(v) => i < Len(w) /\ w[i + 1] = v[i + 1 + 1]
      BY <3>4, <3>5
    <3> QED BY <1>8, <1>10, <2>1, <3>1, <3>3, <3>5, <3>6, <3>7 DEF Chained, v, w
  <2>3. CASE w = v
    <3>1. j \in DOMAIN g.lists["tcache"] /\ g.lists["tcache"][j] = c
      BY <2>1, <2>3
    <3>2. l = "tcache" /\ i = j
      BY <1>3, <3>1 DEF OnePlace, c
    <3> QED BY <1>8, <1>10, <2>3, <3>2 DEF Chained
  <2>4. CASE v = <<>>
    BY <2>1, <2>4
  <2> QED BY <1>4, <2>2, <2>3, <2>4
<1> QED BY <1>9, <1>10

\* What a free does to the lists.
LEMMA GivenPlaces ==
  ASSUME NEW h, WellFormed(h), NEW c \in Slots
  PROVE  LET g == Given(h, c)
             k == Home(h)
         IN  /\ k \in {"tcache", "fastbin", "unsorted"}
             /\ 1 \in DOMAIN g.lists[k] /\ g.lists[k][1] = c
             /\ Len(g.lists[k]) = Len(h.lists[k]) + 1
             /\ \A i \in DOMAIN h.lists[k] : i + 1 \in DOMAIN g.lists[k] /\ g.lists[k][i + 1] = h.lists[k][i]
             /\ \A l \in Lists \ {k} : g.lists[l] = h.lists[l]
<1> DEFINE k == Home(h)
           v == h.lists[k]
           z == <<c>> \o v
           lists == [h.lists EXCEPT ![k] = z]
           g == [h EXCEPT !.lists = lists]
<1>1. /\ h \in Heaps /\ h.lists \in [Lists -> Seq(Slots)] /\ k \in Lists
      /\ k \in {"tcache", "fastbin", "unsorted"}
  BY DEF WellFormed, Heaps, Home, Lists, Bins
<1> HIDE DEF k
<1>2. Given(h, c) = g
  BY <1>1 DEF Given, Heaps, k
<1>3. v \in Seq(Slots)
  BY <1>1
<1>4. /\ z \in Seq(Slots) /\ DOMAIN z = 1 .. Len(v) + 1 /\ DOMAIN v = 1 .. Len(v) /\ Len(v) \in Nat
      /\ \A i \in DOMAIN z : z[i] = IF i = 1 THEN c ELSE v[i - 1]
  <2> HIDE DEF v
  <2> QED BY <1>1, <1>3
<1>5. Len(z) = Len(v) + 1 /\ 1 \in DOMAIN z /\ z[1] = c
  BY <1>4
<1>6. \A i \in DOMAIN v : i + 1 \in DOMAIN z /\ z[i + 1] = v[i]
  <2> HIDE DEF v, z
  <2>1. ASSUME NEW i \in DOMAIN v PROVE i + 1 \in DOMAIN z /\ z[i + 1] = v[i]
    <3>1. PICK j \in Nat : j = i + 1
      BY <1>4
    <3>2. j \in DOMAIN z /\ j # 1 /\ j - 1 = i
      BY <1>4, <3>1
    <3> QED BY <1>4, <3>1, <3>2
  <2> QED BY <2>1
<1> HIDE DEF z
<1>7. lists[k] = z /\ \A l \in Lists \ {k} : lists[l] = h.lists[l]
  BY <1>1
<1> HIDE DEF lists
<1>8. g.lists = lists
  <2>1. DOMAIN h = {"lists", "carved", "brk", "bad", "skew", "class"}
    BY <1>1 DEF Heaps
  <2> QED BY <2>1
<1> HIDE DEF g
<1> QED BY <1>1, <1>2, <1>5, <1>6, <1>7, <1>8 DEF k

\* A free leaves the links of the other chunks as they were.
LEMMA GivenLinks ==
  ASSUME NEW h, WellFormed(h), NEW c \in Freeable(h), NEW o, NEW un, Linkage(h, o, un)
  PROVE  Linkage(Given(h, c), o, un \cup {c})
<1> DEFINE g == Given(h, c)
           k == Home(h)
<1>1. c \in Slots
  BY DEF Freeable, InUse
<1>2. /\ k \in Lists /\ Len(g.lists[k]) = Len(h.lists[k]) + 1
      /\ \A i \in DOMAIN h.lists[k] : i + 1 \in DOMAIN g.lists[k] /\ g.lists[k][i + 1] = h.lists[k][i]
      /\ \A l \in Lists \ {k} : g.lists[l] = h.lists[l]
      /\ 1 \in DOMAIN g.lists[k] /\ g.lists[k][1] = c
  BY <1>1, GivenPlaces DEF Lists, Bins
<1>3. WellFormed(g)
  BY ChunkGiven DEF Takes
<1>4. /\ DOMAIN g.lists[k] = 1 .. Len(g.lists[k]) /\ DOMAIN h.lists[k] = 1 .. Len(h.lists[k])
      /\ Len(h.lists[k]) \in Nat /\ Len(g.lists[k]) \in Nat
  BY <1>2, <1>3, HeapTyped
<1> HIDE DEF g, k
<1>5. SUFFICES ASSUME NEW l \in Lists, NEW i \in DOMAIN g.lists[l], g.lists[l][i] \notin un \cup {c}
               PROVE  Chained(g, o, l, i)
  BY DEF Linkage, g
<1>6. CASE l # k
  BY <1>2, <1>5, <1>6 DEF Linkage, Chained
<1>7. CASE l = k
  <2>1. i # 1 /\ i \in 1 .. Len(g.lists[k])
    BY <1>2, <1>4, <1>5, <1>7
  <2>2. PICK j \in 1 .. Len(h.lists[k]) : i = j + 1
    <3>1. \A n \in Nat : \A m \in 1 .. n + 1 : m # 1 => \E j \in 1 .. n : m = j + 1
      <4>1. \A n \in Nat : \A m \in 1 .. n + 1 : m # 1 => m - 1 \in 1 .. n /\ m = m - 1 + 1
        OBVIOUS
      <4> QED BY <4>1
    <3> QED BY <1>2, <1>4, <2>1, <3>1
  <2>3. g.lists[l][i] = h.lists[l][j] /\ j \in DOMAIN h.lists[l]
    BY <1>2, <1>4, <1>7, <2>2
  <2>4. Chained(h, o, l, j)
    BY <1>5, <2>3 DEF Linkage
  <2>5. j < Len(h.lists[l]) => i < Len(g.lists[l]) /\ g.lists[l][i + 1] = h.lists[l][j + 1]
    <3>1. j < Len(h.lists[l]) => j + 1 \in DOMAIN h.lists[k] /\ i < Len(g.lists[l])
      BY <1>2, <1>4, <1>7, <2>2
    <3> QED BY <1>2, <1>7, <2>2, <3>1
  <2> QED BY <2>3, <2>4, <2>5 DEF Chained
<1> QED BY <1>6, <1>7

\* A free that is seen tells the link of its chunk as well.
LEMMA FreeSeen ==
  ASSUME NEW h, WellFormed(h), h.bad = None, NEW c \in Freeable(h),
         NEW o, DOMAIN o.next \subseteq Users, NEW un, Linkage(h, o, un)
  PROVE  LET q == ObserveEvent(o, Given(h, c), c)
         IN  Linkage(Given(h, c), q, un \ {c}) /\ DOMAIN q.next \subseteq Users
<1> DEFINE g == Given(h, c)
           k == Home(h)
           u == UserOf(c)
           w == Reveal(Word(g, u))
           q == ObserveFree(o, u, w)
<1>1. c \in Slots
  BY DEF Freeable, InUse
<1>2. /\ k \in {"tcache", "fastbin", "unsorted"} /\ k \in Lists
      /\ Len(g.lists[k]) = Len(h.lists[k]) + 1
      /\ 1 \in DOMAIN g.lists[k] /\ g.lists[k][1] = c
  BY <1>1, GivenPlaces DEF Lists, Bins
<1>3. Takes(h, g, c)
  BY ChunkGiven
<1>4. WellFormed(g) /\ g.bad = None /\ c \in Carved(g)
  BY <1>3 DEF Takes, SameButLists
<1>5. Linkage(g, o, un \cup {c})
  BY GivenLinks
<1> HIDE DEF g, k
<1>6. Word(g, u) = Fd(g, k, c)
  BY <1>2, <1>4, LinkWord
<1>7. At(g, k, c) = 1
  BY <1>2, <1>4, FreePlace
<1>8. /\ g.lists[k] \in Seq(Slots) /\ Len(g.lists[k]) \in Nat
      /\ DOMAIN g.lists[k] = 1 .. Len(g.lists[k]) /\ g.skew \in {0, 2}
  BY <1>2, <1>4, HeapTyped
<1> DEFINE x == IF 1 < Len(g.lists[k]) THEN g.lists[k][2] ELSE NULL
<1>9. 1 < Len(g.lists[k]) => 2 \in DOMAIN g.lists[k] /\ x \in Slots /\ x = g.lists[k][2]
  BY <1>8
<1>10. ~(1 < Len(g.lists[k])) => x = NULL /\ 2 \notin DOMAIN g.lists[k]
  BY <1>8
<1>11. \A y \in Nat : Reveal(Protect(y)) = y
  BY DEF Reveal, Protect, Key
<1>12. \A y \in Nat : y < 10000 => Reveal(y) = Wild
  BY DEF Reveal, Key
<1>13. \A y \in Slots : y \in Nat /\ y < 1000 /\ UserOf(y) \in Nat
  BY SlotsPlaced, Numbers
<1>14. NULL \in Nat /\ NULL \notin Users /\ Wild \notin Users /\ (\A y \in Slots : y \notin Users)
  BY UserPlaces DEF NULL
<1> HIDE DEF x
<1>15. w \in Users => k = "tcache" /\ 1 < Len(g.lists[k]) /\ w = UserOf(g.lists[k][2])
  <2>1. CASE k = "tcache"
    <3>1. Fd(g, k, c) = Protect(IF 1 < Len(g.lists[k]) THEN UserOf(g.lists[k][2]) ELSE NULL)
      BY <1>7, <2>1 DEF Fd
    <3>2. CASE 1 < Len(g.lists[k])
      <4>1. w = UserOf(g.lists[k][2])
        BY <1>6, <1>9, <1>11, <1>13, <3>1, <3>2
      <4> QED BY <2>1, <3>2, <4>1
    <3>3. CASE ~(1 < Len(g.lists[k]))
      <4>1. w = NULL
        BY <1>6, <1>11, <1>14, <3>1, <3>3
      <4> QED BY <1>14, <4>1
    <3> QED BY <3>2, <3>3
  <2>2. CASE k = "fastbin"
    <3>1. Fd(g, k, c) = Protect(Neighbour(g.lists[k], 2, NULL))
      BY <1>7, <2>2 DEF Fd
    <3>2. Neighbour(g.lists[k], 2, NULL) = x
      BY <1>9, <1>10 DEF Neighbour
    <3>3. x \in Nat /\ x \notin Users
      BY <1>9, <1>10, <1>13, <1>14
    <3>4. w = x
      BY <1>6, <1>11, <3>1, <3>2, <3>3
    <3> QED BY <3>3, <3>4
  <2>3. CASE k = "unsorted"
    <3> DEFINE hd == HeaderOf(g, k)
    <3>1. Fd(g, k, c) = Neighbour(g.lists[k], 2, hd)
      BY <1>7, <2>3 DEF Fd
    <3>2. hd \in Nat /\ hd < 10000
      BY <1>8, <2>3 DEF HeaderOf, FieldOf
    <3> HIDE DEF hd
    <3>3. Neighbour(g.lists[k], 2, hd) = IF 1 < Len(g.lists[k]) THEN x ELSE hd
      BY <1>9, <1>10 DEF Neighbour
    <3>4. Fd(g, k, c) \in Nat /\ Fd(g, k, c) < 10000
      BY <1>9, <1>13, <3>1, <3>2, <3>3
    <3>5. w = Wild
      BY <1>6, <1>12, <3>4
    <3> QED BY <1>14, <3>5
  <2> QED BY <1>2, <2>1, <2>2, <2>3
<1>16. ObserveEvent(o, g, c) = q
  BY <1>4, SoundSize DEF ObserveEvent
<1>17. u \in Users
  BY <1>1, UserPlaces
<1> HIDE DEF u, w
<1>18. /\ DOMAIN q.next = DOMAIN o.next \cup {u} /\ q.next[u] = w
       /\ \A p \in DOMAIN o.next : p # u => q.next[p] = o.next[p]
  BY DEF ObserveFree, Link
<1> HIDE DEF q
<1>19. Linkage(g, q, un \ {c})
  <2> SUFFICES ASSUME NEW l \in Lists, NEW i \in DOMAIN g.lists[l], g.lists[l][i] \notin un \ {c}
               PROVE  Chained(g, q, l, i)
    BY DEF Linkage
  <2>1. CASE g.lists[l][i] = c
    <3>1. l = k /\ i = 1
      BY <1>2, <1>4, <2>1 DEF WellFormed, OnePlace
    <3>2. UserOf(g.lists[l][i]) = u
      BY <2>1 DEF u
    <3>3. i + 1 = 2
      BY <3>1
    <3> QED BY <1>15, <1>18, <3>1, <3>2, <3>3 DEF Chained
  <2>2. CASE g.lists[l][i] # c
    <3>1. Chained(g, o, l, i)
      BY <1>5, <2>2 DEF Linkage
    <3>2. g.lists[l][i] \in Slots
      BY <1>4, FreeCarved DEF Carved
    <3>3. UserOf(g.lists[l][i]) # u
      BY <1>1, <2>2, <3>2, UsersApart DEF u
    <3> QED BY <1>18, <3>1, <3>3 DEF Chained
  <2> QED BY <2>1, <2>2
<1> QED BY <1>16, <1>17, <1>18, <1>19 DEF g

-----------------------------------------------------------------------------
(* The observed tcache                                                     *)

\* A chain keeps what its start has and each step keeps.
LEMMA ObservedMade ==
  ASSUME NEW o, o.head # None, NEW D, [cur |-> o.head, entries |-> <<>>, end |-> "reading"] \in D,
         \A r \in D : ObservedStep(o, r) \in D
  PROVE  ObservedChain(o) \in D
<1> DEFINE b == [cur |-> o.head, entries |-> <<>>, end |-> "reading"]
           N == TcacheLimit
           step == [r \in D |-> ObservedStep(o, r)]
           F(f) == f = [n \in 0 .. N |-> IF n = 0 THEN b ELSE ObservedStep(o, f[n - 1])]
           g == CHOOSE f : F(f)
<1>1. N \in Nat /\ b \in D /\ step \in [D -> D]
  <2>1. N \in Nat
    BY TcacheBound
  <2> HIDE DEF b, N
  <2> QED BY <2>1 DEF b
<1>2. ObservedChain(o) = g[N]
  BY DEF ObservedChain
<1> HIDE DEF N, b
<1>3. PICK f \in [0 .. N -> D] : f[0] = b /\ \A n \in 1 .. N : f[n] = step[f[n - 1]]
  <2> HIDE DEF step
  <2>1. \E f : Iteration(f, D, b, step, N)
    BY <1>1, Iterates
  <2> QED BY <2>1 DEF Iteration
<1>4. \A n \in 1 .. N : f[n] = ObservedStep(o, f[n - 1])
  <2> SUFFICES ASSUME NEW n \in 1 .. N PROVE f[n] = ObservedStep(o, f[n - 1])
    OBVIOUS
  <2>1. n - 1 \in 0 .. N
    BY <1>1
  <2>2. f[n - 1] \in D
    BY <1>3, <2>1
  <2> QED BY <1>3, <2>2
<1>5. F(f)
  <2> HIDE DEF step
  <2> QED BY <1>1, <1>3, <1>4
<1>6. F(g)
  <2> HIDE DEF F
  <2> QED BY <1>5
<1>7. g \in [0 .. N -> D]
  <2>0. g = [n \in 0 .. N |-> IF n = 0 THEN b ELSE ObservedStep(o, g[n - 1])]
    BY <1>6
  <2> HIDE DEF g, step
  <2>1. DOMAIN g = 0 .. N /\ g = [n \in 0 .. N |-> g[n]]
    BY ONLY <2>0
  <2>2. g[0] = b /\ \A n \in 1 .. N : g[n] = ObservedStep(o, g[n - 1])
    BY <1>1, <2>0
  <2>3. \A n \in 1 .. N : g[n - 1] \in D => g[n] = step[g[n - 1]]
    BY <2>2 DEF step
  <2>4. Iteration(g, D, b, step, N)
    BY <1>1, <2>1, <2>2, <2>3, Unfolds
  <2> QED BY <2>4 DEF Iteration
<1> HIDE DEF g
<1> QED BY <1>1, <1>2, <1>7

\* What is read of the observed tcache follows the tcache.
Follows(v, r) ==
  /\ r.end \in {"reading", "complete"} =>
       Len(r.entries) <= Len(v) /\ \A i \in 1 .. Len(r.entries) : r.entries[i] = UserOf(v[i])
  /\ r.end = "reading" => Len(r.entries) < Len(v) /\ r.cur = UserOf(v[Len(r.entries) + 1])

\* A complete chain that starts where the tcache does is a part of it.
LEMMA ChainFollows ==
  ASSUME NEW h, WellFormed(h), NEW o, DOMAIN o.next \subseteq Users, NEW un, Linkage(h, o, un),
         \A c \in ToSet(h.lists["tcache"]) : c \notin un,
         h.lists["tcache"] # <<>>, o.head = UserOf(h.lists["tcache"][1])
  PROVE  /\ Follows(h.lists["tcache"], ObservedChain(o))
         /\ \E S : ObservedChain(o).entries \in Seq(S)
<1> DEFINE v == h.lists["tcache"]
           S == Users \cup {o.next[u] : u \in DOMAIN o.next}
           D == {r \in [cur : S, entries : Seq(S), end : {"reading", "complete", "truncated", "unknown_next"}] :
                   Follows(v, r)}
<1>1. /\ v \in Seq(Slots) /\ DOMAIN v = 1 .. Len(v) /\ Len(v) \in Nat /\ "tcache" \in Lists
  BY HeapTyped DEF Lists
<1>2. 0 < Len(v) /\ 1 \in DOMAIN v
  BY <1>1
<1>3. \A i \in DOMAIN v : Chained(h, o, "tcache", i)
  BY <1>1 DEF Linkage, ToSet
<1>4. \A i \in DOMAIN v :
        /\ UserOf(v[i]) \in Users /\ UserOf(v[i]) \in DOMAIN o.next
        /\ o.next[UserOf(v[i])] \in Users =>
             i < Len(v) /\ o.next[UserOf(v[i])] = UserOf(v[i + 1])
  <2>1. \A i \in DOMAIN v : v[i] \in Slots
    BY <1>1
  <2> QED BY <1>3, <2>1, UserPlaces DEF Chained
<1> HIDE DEF v
<1> DEFINE b == [cur |-> o.head, entries |-> <<>>, end |-> "reading"]
<1>5. b \in D
  <2>1. o.head = UserOf(v[1]) /\ o.head \in S
    BY <1>2, <1>4 DEF v
  <2> HIDE DEF S
  <2>2. b.entries = <<>> /\ b.cur = o.head /\ b.end = "reading" /\ Len(<<>>) = 0 /\ <<>> \in Seq(S)
    OBVIOUS
  <2>3. Follows(v, b)
    BY <1>1, <1>2, <2>1, <2>2 DEF Follows
  <2> QED BY <2>1, <2>3
<1>6. ASSUME NEW r \in D PROVE ObservedStep(o, r) \in D
  <2> DEFINE z == Append(r.entries, r.cur)
             next == o.next[r.cur]
             q == ObservedStep(o, r)
  <2> SUFFICES q \in D
    OBVIOUS
  <2> HIDE DEF q
  <2>1. /\ r = [cur |-> r.cur, entries |-> r.entries, end |-> r.end] /\ r.cur \in S
        /\ r.entries \in Seq(S) /\ Follows(v, r)
    OBVIOUS
  <2>2. CASE r.end # "reading"
    BY <2>2 DEF ObservedStep, q
  <2>3. CASE r.end = "reading" /\ r.cur \in ToSet(r.entries)
    <3>1. q = [r EXCEPT !.end = "truncated"]
      BY <2>3 DEF ObservedStep, q
    <3>2. q = [cur |-> r.cur, entries |-> r.entries, end |-> "truncated"]
      BY <2>1, <3>1
    <3> HIDE DEF S
    <3> QED BY <2>1, <3>2 DEF Follows
  <2>4. CASE r.end = "reading" /\ r.cur \notin ToSet(r.entries)
    <3> DEFINE n == Len(r.entries)
    <3>1. /\ n \in Nat /\ n < Len(v) /\ r.cur = UserOf(v[n + 1]) /\ n + 1 \in DOMAIN v
          /\ \A i \in 1 .. n : r.entries[i] = UserOf(v[i])
      <4>1. n \in Nat
        BY <2>1
      <4> QED BY <1>1, <2>1, <2>4, <4>1 DEF Follows
    <3>2. z \in Seq(S) /\ Len(z) = n + 1 /\ \A i \in 1 .. n + 1 : z[i] = IF i = n + 1 THEN r.cur ELSE r.entries[i]
      <4> HIDE DEF S
      <4> QED BY <2>1
    <3>3. \A i \in 1 .. Len(z) : z[i] = UserOf(v[i])
      <4> HIDE DEF z
      <4>1. ASSUME NEW i \in 1 .. n + 1 PROVE z[i] = UserOf(v[i])
        <5>1. CASE i = n + 1
          BY <3>1, <3>2, <5>1
        <5>2. CASE i # n + 1
          <6>1. i \in 1 .. n
            BY <3>1, <5>2
          <6> QED BY <3>1, <3>2, <5>2, <6>1
        <5> QED BY <5>1, <5>2
      <4> QED BY <3>2, <4>1
    <3>4. r.cur \in DOMAIN o.next /\ next \in S
      BY <1>4, <3>1
    <3>5. next \in Users => n + 1 < Len(v) /\ next = UserOf(v[n + 1 + 1])
      BY <1>4, <3>1
    <3> HIDE DEF z, next
    <3>6. \/ q = [cur |-> r.cur, entries |-> z, end |-> "truncated"]
          \/ q = [cur |-> r.cur, entries |-> z, end |-> "complete"]
          \/ q = [cur |-> r.cur, entries |-> Append(z, next), end |-> "unknown_next"]
          \/ next \in DOMAIN o.next /\ q = [cur |-> next, entries |-> z, end |-> "reading"]
      BY <2>4 DEF ObservedStep, z, next, q
    <3> HIDE DEF S
    <3>7. CASE q = [cur |-> r.cur, entries |-> z, end |-> "truncated"]
      BY <2>1, <3>2, <3>7 DEF Follows
    <3>8. CASE q = [cur |-> r.cur, entries |-> z, end |-> "complete"]
      <4>1. Len(z) <= Len(v)
        BY <1>1, <3>1, <3>2
      <4>2. q.entries = z /\ q.end = "complete"
        BY <3>8
      <4>3. Follows(v, q)
        BY <3>3, <4>1, <4>2 DEF Follows
      <4> QED BY <2>1, <3>2, <3>8, <4>3
    <3>9. CASE q = [cur |-> r.cur, entries |-> Append(z, next), end |-> "unknown_next"]
      <4>1. Append(z, next) \in Seq(S)
        BY <3>2, <3>4
      <4>2. q.end = "unknown_next"
        BY <3>9
      <4> QED BY <2>1, <3>9, <4>1, <4>2 DEF Follows
    <3>10. CASE next \in DOMAIN o.next /\ q = [cur |-> next, entries |-> z, end |-> "reading"]
      <4>1. Len(z) < Len(v) /\ next = UserOf(v[Len(z) + 1])
        BY <3>2, <3>5, <3>10
      <4>2. q.entries = z /\ q.end = "reading" /\ q.cur = next
        BY <3>10
      <4>3. Len(z) <= Len(v)
        BY <1>1, <3>1, <3>2
      <4>4. Follows(v, q)
        BY <3>3, <4>1, <4>2, <4>3 DEF Follows
      <4> QED BY <3>2, <3>4, <3>10, <4>4
    <3> QED BY <3>6, <3>7, <3>8, <3>9, <3>10
  <2> QED BY <2>2, <2>3, <2>4
<1>7. o.head # None
  <2>1. o.head \in Nat
    BY <1>2, <1>4, UserPlaces DEF v
  <2> QED BY <2>1, NoneIsNothing
<1> DEFINE chain == ObservedChain(o)
<1>8. chain \in D
  <2> HIDE DEF D
  <2> QED BY <1>5, <1>6, <1>7, ObservedMade
<1> HIDE DEF chain
<1>9. Follows(v, chain) /\ chain.entries \in Seq(S)
  <2> HIDE DEF S
  <2> QED BY <1>8
<1> QED BY <1>9 DEF v, chain

\* While nothing disturbs the session, the links the tracker saw lead where the tcache does.
Watched ==
  /\ DOMAIN observed.next \subseteq Users
  /\ Untouched => Linkage(heap, observed, unseen)

\* At every event it follows what the allocator did.
LEMMA EventWatched ==
  ASSUME Inv, Watched, TracedMalloc \/ TracedFree \/ TracedRealloc \/ TracedNull
  PROVE  Watched'
<1>1. WellFormed(heap) /\ DOMAIN observed.next \subseteq Users
  BY DEF Inv, Watched
<1>2. hiddenCalls' = hiddenCalls
  BY DEF TracedMalloc, TracedFree, TracedRealloc, TracedNull, Event
<1>3. \A h, t, o, e : Emit(h, t, o, e) => observed' = o
  BY EmitSets
<1>4. CASE TracedMalloc
  <2>1. PICK s \in Served(heap) :
          /\ heap' = s.heap /\ unseen' = unseen
          /\ Emit(s.heap, Returned(tracked, s.heap, s.chunk), observed, Allocates(s.chunk))
    BY <1>4 DEF TracedMalloc
  <2>2. Serves(heap, s.heap, s.chunk)
    BY <1>1, ChunkServed
  <2>3. s.heap.bad = heap.bad /\ observed' = observed
    BY <1>3, <2>1, <2>2 DEF Serves
  <2>4. ASSUME Untouched' PROVE Linkage(s.heap, observed, unseen)
    <3>1. Linkage(heap, observed, unseen)
      BY <1>2, <2>1, <2>3, <2>4 DEF Untouched, Watched
    <3> QED BY <1>1, <3>1, ServedLinks
  <2> QED BY <1>1, <2>1, <2>3, <2>4 DEF Watched
<1>5. CASE TracedFree
  <2>1. PICK c \in Freeable(heap) :
          /\ heap' = Given(heap, c) /\ unseen' = unseen \ {c}
          /\ Emit(Given(heap, c), GivenBack(tracked, c), ObserveEvent(observed, Given(heap, c), c),
                  Frees(c))
    BY <1>5 DEF TracedFree
  <2> DEFINE g == Given(heap, c)
             q == ObserveEvent(observed, g, c)
  <2>2. g.bad = heap.bad
    BY <1>1, ChunkGiven DEF Takes, SameButLists
  <2>3. observed' = q
    BY <1>3, <2>1
  <2>4. DOMAIN q.next \subseteq Users
    <3>1. c \in Slots
      BY DEF Freeable, InUse
    <3>2. UserOf(c) \in Users
      BY <3>1, UserPlaces
    <3> QED BY <1>1, <3>2 DEF ObserveEvent, ObserveFree, Link
  <2>5. ASSUME Untouched' PROVE Linkage(g, q, unseen \ {c})
    <3>1. heap.bad = None /\ Linkage(heap, observed, unseen)
      BY <1>2, <2>1, <2>2, <2>5 DEF Untouched, Watched
    <3> QED BY <1>1, <3>1, FreeSeen
  <2> HIDE DEF g, q
  <2> QED BY <2>1, <2>3, <2>4, <2>5 DEF Watched, g
<1>6. CASE TracedRealloc
  <2>1. PICK c \in Freeable(heap), s \in Served(heap) :
          /\ ~Frozen(s.heap, Home(s.heap)) /\ heap' = Given(s.heap, c) /\ unseen' = unseen \cup {c}
          /\ Emit(Given(s.heap, c), Returned(GivenBack(tracked, c), Given(s.heap, c), s.chunk),
                  observed, Allocates(s.chunk))
    BY <1>6 DEF TracedRealloc
  <2> DEFINE k == s.heap
             g == Given(k, c)
  <2>2. Serves(heap, k, s.chunk) /\ Takes(k, g, c)
    BY <1>1, <2>1, MovedTracked
  <2>3. g.bad = heap.bad /\ observed' = observed /\ WellFormed(k)
    BY <1>3, <2>1, <2>2 DEF Serves, Takes, SameButLists
  <2>4. c \in Freeable(k)
    <3>1. c \in Slots /\ c \in Carved(k) /\ c \notin Free(k)
      BY <2>2 DEF Takes, Carved
    <3>2. ~Touches(k, c)
      <4>1. k.bad = heap.bad /\ ~Touches(heap, c)
        BY <2>2 DEF Serves, Freeable
      <4> QED BY <4>1 DEF Touches
    <3> QED BY <2>1, <3>1, <3>2 DEF Freeable, InUse, Carved
  <2>5. ASSUME Untouched' PROVE Linkage(g, observed, unseen \cup {c})
    <3>1. Linkage(heap, observed, unseen)
      BY <1>2, <2>1, <2>3, <2>5 DEF Untouched, Watched
    <3>2. Linkage(k, observed, unseen)
      BY <1>1, <3>1, ServedLinks
    <3> HIDE DEF k
    <3> QED BY <2>3, <2>4, <3>2, GivenLinks
  <2> HIDE DEF g, k
  <2> QED BY <1>1, <2>1, <2>3, <2>5 DEF Watched, g, k
<1>7. CASE TracedNull
  <2>1. heap' = heap /\ unseen' = unseen /\ Emit(heap, tracked, observed, FreesNothing)
    BY <1>7 DEF TracedNull
  <2>2. observed' = observed
    BY <1>3, <2>1
  <2>3. Untouched' = Untouched
    BY <1>2, <2>1 DEF Untouched
  <2> QED BY <2>1, <2>2, <2>3 DEF Watched
<1> QED BY <1>4, <1>5, <1>6, <1>7

\* A match told at an event is one with the tcache, but for chunks whose free was none.
LEMMA MatchTold ==
  ASSUME Inv, Watched', WellFormed(heap'), NEW h, NEW t, NEW o, NEW e, Told(h, t, o, e)
  PROVE  MatchIsExact'
<1> SUFFICES ASSUME NEW r \in ToSet(related'), r.kind = "tcache_comparison", r.body # <<>>,
                    Head(r.body).status = "matches", Untouched',
                    \A c \in ToSet(heap'.lists["tcache"]) : c \notin unseen'
             PROVE  Entries(observed') = [i \in DOMAIN heap'.lists["tcache"] |->
                                            UserOf(heap'.lists["tcache"][i])]
  <2>1. hiddenCalls' \in Nat
    BY DEF Told, Inv
  <2> QED BY <2>1 DEF MatchIsExact, Said, Untouched
<1>1. heap' = h /\ observed' = o /\ WellFormed(h)
  BY EmitSets DEF Told
<1>2. r = TcacheComparison(events + 1, StructBin(h), o)
  BY EventRelated
<1> DEFINE bin == StructBin(h)
           v == h.lists["tcache"]
           chain == ObservedChain(o)
           k == ComparisonOf(bin, o)
<1>3. r.body = OneOf(k)
  BY <1>2 DEF TcacheComparison, Record
<1>4. k # None /\ Head(r.body) = k
  <2> HIDE DEF k
  <2> QED BY <1>3 DEF OneOf
<1>5. bin # None /\ Compare(bin, o) = "matches"
  BY <1>4 DEF ComparisonOf
<1>6. v # <<>> /\ bin = [count |-> Len(v), head |-> UserOf(Head(v))]
  BY <1>5 DEF StructBin
<1>7. v \in Seq(Slots) /\ DOMAIN v = 1 .. Len(v) /\ Len(v) \in Nat
  BY <1>1, HeapTyped DEF Lists
<1> HIDE DEF bin, v, chain
<1>8. chain # None /\ o.head = bin.head /\ chain.end = "complete" /\ bin.count = Len(chain.entries)
  BY <1>5 DEF Compare, chain
<1>9. bin.count = Len(v) /\ o.head = UserOf(v[1])
  BY <1>6, <1>7, <1>8
<1>10. Linkage(h, o, unseen') /\ DOMAIN o.next \subseteq Users
  BY <1>1 DEF Watched
<1>11. Follows(v, chain) /\ \E S : chain.entries \in Seq(S)
  <2>1. \A c \in ToSet(h.lists["tcache"]) : c \notin unseen'
    BY <1>1
  <2>2. h.lists["tcache"] # <<>> /\ o.head = UserOf(h.lists["tcache"][1])
    BY <1>6, <1>9 DEF v
  <2>3. PICK un : un = unseen'
    OBVIOUS
  <2> QED BY <1>1, <1>10, <2>1, <2>2, <2>3, ChainFollows DEF v, chain
<1>12. chain.entries = [i \in DOMAIN v |-> UserOf(v[i])]
  <2>1. PICK S : chain.entries \in Seq(S)
    BY <1>11
  <2> DEFINE x == chain.entries
             y == [i \in DOMAIN v |-> UserOf(v[i])]
  <2>2. DOMAIN x = 1 .. Len(x) /\ x = [i \in 1 .. Len(x) |-> x[i]]
    <3> HIDE DEF x
    <3> QED BY <2>1 DEF x
  <2>3. Len(x) = Len(v) /\ \A i \in 1 .. Len(x) : x[i] = UserOf(v[i])
    BY <1>8, <1>9, <1>11 DEF Follows
  <2> HIDE DEF x
  <2> QED BY <1>7, <2>2, <2>3 DEF x
<1>13. Entries(o) = chain.entries
  BY <1>8 DEF Entries, chain, ObservedChain
<1> QED BY <1>1, <1>12, <1>13 DEF v

\* A comparison calls the struct a match for the observed chain only where that is the
\* allocator's list (tcache.rs:103-110, 145-248).
THEOREM MatchAlways == Spec => []MatchIsExact
<1>1. Init => MatchIsExact /\ Watched
  <2> SUFFICES ASSUME Init PROVE MatchIsExact /\ Watched
    OBVIOUS
  <2>1. related = <<>> /\ observed = NoFrees /\ heap.lists = [l \in Lists |-> <<>>]
    BY DEF Init
  <2>2. MatchIsExact
    BY <2>1 DEF MatchIsExact, Said, ToSet
  <2>3. Watched
    BY <2>1 DEF Watched, NoFrees, Linkage
  <2> QED BY <2>2, <2>3
<1>2. Inv /\ MatchIsExact /\ Watched /\ [Next]_vars => MatchIsExact' /\ Watched'
  <2> SUFFICES ASSUME Inv, MatchIsExact, Watched, [Next]_vars PROVE MatchIsExact' /\ Watched'
    OBVIOUS
  <2>1. CASE TracedMalloc \/ TracedFree \/ TracedRealloc \/ TracedNull
    <3>1. PICK h, t, o, e : Told(h, t, o, e)
      BY <2>1, EventTold
    <3>2. Watched'
      BY <2>1, EventWatched
    <3>3. WellFormed(heap')
      BY <3>1 DEF Told
    <3> QED BY <3>1, <3>2, <3>3, MatchTold
  <2>2. CASE UntracedMalloc \/ UntracedFree \/ Overwrite
    <3>1. ~Untouched' /\ observed' = observed /\ hiddenCalls' \in Nat
      BY <2>2, Silence DEF trace
    <3>2. heap'.bad # None \/ hiddenCalls' > 0
      BY <3>1 DEF Untouched
    <3> QED BY <3>1, <3>2 DEF MatchIsExact, Watched
  <2>3. CASE UNCHANGED vars
    <3>1. UNCHANGED <<heap, related, observed, unseen, hiddenCalls>>
      BY <2>3 DEF vars, world, trace
    <3>2. Untouched' = Untouched
      BY <3>1 DEF Untouched
    <3> QED BY <3>1, <3>2 DEF MatchIsExact, Watched, Said
  <2> QED BY <2>1, <2>2, <2>3 DEF Next
<1> QED BY <1>1, <1>2, InvAlways, PTL DEF Spec

-----------------------------------------------------------------------------
(* Reading a bin of a sound heap                                           *)

\* The words a reader follows, in a heap nobody overwrote.
LEMMA SoundLinks ==
  ASSUME NEW h, WellFormed(h), h.bad = None, NEW b \in Bins, NEW i \in DOMAIN h.lists[b]
  PROVE  LET v == h.lists[b]
             c == v[i]
         IN  /\ b = "fastbin" => Reveal(Word(h, UserOf(c))) = IF i < Len(v) THEN v[i + 1] ELSE NULL
             /\ b # "fastbin" =>
                  /\ Word(h, UserOf(c)) = IF i < Len(v) THEN v[i + 1] ELSE HeaderOf(h, b)
                  /\ Word(h, UserOf(c) + 1) = IF i > 1 THEN v[i - 1] ELSE HeaderOf(h, b)
<1> DEFINE v == h.lists[b]
           c == v[i]
<1>1. b \in Lists
  BY DEF Lists
<1>2. Word(h, UserOf(c)) = Fd(h, b, c) /\ Word(h, UserOf(c) + 1) = Bk(h, b, c)
  BY <1>1, LinkWord
<1>3. At(h, b, c) = i
  BY <1>1, FreePlace
<1>4. v \in Seq(Nat) /\ DOMAIN v = 1 .. Len(v) /\ Len(v) \in Nat /\ i \in 1 .. Len(v)
  BY <1>1, HeapTyped
<1>5. /\ i < Len(v) => i + 1 \in DOMAIN v /\ v[i + 1] \in Nat
      /\ ~(i < Len(v)) => i + 1 \notin DOMAIN v
      /\ i > 1 => i - 1 \in DOMAIN v
      /\ ~(i > 1) => i - 1 \notin DOMAIN v
  <2> HIDE DEF v
  <2> QED BY <1>4
<1> HIDE DEF v, c
<1>6. CASE b = "fastbin"
  <2> DEFINE x == IF i < Len(v) THEN v[i + 1] ELSE NULL
  <2>1. Fd(h, b, c) = Protect(Neighbour(v, i + 1, NULL))
    BY <1>3, <1>6 DEF Fd, v
  <2>2. Neighbour(v, i + 1, NULL) = x
    BY <1>5 DEF Neighbour
  <2>3. x \in Nat
    BY <1>5 DEF NULL
  <2> HIDE DEF x
  <2>4. Reveal(Protect(x)) = x
    BY <2>3 DEF Reveal, Protect, Key
  <2>5. Reveal(Word(h, UserOf(c))) = x
    BY <1>2, <2>1, <2>2, <2>4
  <2> QED BY <1>6, <2>5 DEF x, v, c
<1>7. CASE b # "fastbin"
  <2>1. b \in {"unsorted", "smallbin", "largebin"} /\ b \in Linked
    BY <1>7 DEF Bins, Linked
  <2>2. Fd(h, b, c) = Neighbour(v, i + 1, HeaderOf(h, b))
    BY <1>3, <2>1 DEF Fd, v
  <2>3. Bk(h, b, c) = Neighbour(v, i - 1, HeaderOf(h, b))
    BY <1>3, <2>1 DEF Bk, v
  <2>4. /\ Neighbour(v, i + 1, HeaderOf(h, b)) = IF i < Len(v) THEN v[i + 1] ELSE HeaderOf(h, b)
        /\ Neighbour(v, i - 1, HeaderOf(h, b)) = IF i > 1 THEN v[i - 1] ELSE HeaderOf(h, b)
    BY <1>5 DEF Neighbour
  <2> QED BY <1>2, <1>7, <2>2, <2>3, <2>4 DEF v, c
<1> QED BY <1>6, <1>7

\* A chunk of a list can be followed and read.
LEMMA ChunkReadable ==
  ASSUME NEW h, WellFormed(h), NEW c \in Carved(h), NEW walk, walk.end = h.brk
  PROVE  /\ c \in Nat /\ 6 <= c /\ c < 1000 /\ c < walk.end
         /\ Plausible(c, walk) /\ Readable(h, UserOf(c))
         /\ \A j \in 0 .. 3 : Readable(h, UserOf(c) + j)
<1>1. PICK k \in 1 .. Chunks : c = 6 * k
  BY SlotsPlaced DEF Carved
<1>2. /\ h.carved \in Nat /\ c < Top(h) /\ Top(h) = 6 * h.carved + 6 /\ k \in Nat
      /\ h.brk \in Nat /\ h.brk < 1000 /\ Top(h) <= h.brk
  BY <1>1, HeapTyped, HeapBounds DEF Carved
<1>3. 6 * k + 6 <= h.brk /\ c \in Nat /\ 6 <= c /\ c % 2 = 0
  BY <1>1, <1>2
<1>4. UserOf(c) = c + 2
  BY DEF UserOf, Header
<1>5. ASSUME NEW j \in 0 .. 3 PROVE Readable(h, UserOf(c) + j)
  <2>1. PICK a \in Nat : a = UserOf(c) + j
    BY <1>3, <1>4
  <2>2. 6 <= a /\ a < h.brk
    BY <1>1, <1>2, <1>3, <1>4, <2>1
  <2>3. Readable(h, a)
    BY <2>2, WordTyped
  <2> QED BY <2>1, <2>3
<1>6. Readable(h, UserOf(c))
  <2>1. UserOf(c) \in Nat /\ 6 <= UserOf(c) /\ UserOf(c) < h.brk
    BY <1>1, <1>2, <1>3, <1>4
  <2> QED BY <2>1, WordTyped
<1>7. c < walk.end /\ c < 1000
  BY <1>1, <1>2, <1>3
<1> QED BY <1>3, <1>5, <1>6, <1>7 DEF Plausible, PointsIntoHeap, Start, Alignment

\* A reading that has come k chunks along the list v.
Along(h, walk, t, v, r, k) ==
  /\ Len(r.nodes) = k
  /\ \A i \in 1 .. k : r.nodes[i] = Node(h, walk, t, v[i])
  /\ IF k < Len(v) THEN r.end = "reading" /\ r.cur = v[k + 1] ELSE r.end = "complete"

\* One chunk more, where the link of the last leads on or to the stop.
LEMMA AlongMore ==
  ASSUME NEW h, NEW walk, NEW t, NEW v, Len(v) \in Nat, NEW r \in Readings, NEW k \in Nat,
         k < Len(v), Along(h, walk, t, v, r, k), NEW next, NEW stop,
         next = IF k + 1 < Len(v) THEN v[k + 1 + 1] ELSE stop,
         k + 1 < Len(v) => v[k + 1 + 1] # stop /\ Plausible(v[k + 1 + 1], walk)
  PROVE  Along(h, walk, t, v, Follow(r, Node(h, walk, t, v[k + 1]), next, stop, walk), k + 1)
<1> DEFINE node == Node(h, walk, t, v[k + 1])
           q == Follow(r, node, next, stop, walk)
           w == r.nodes
           z == Append(w, node)
<1>1. w \in Seq(ChainNodes) /\ Len(w) = k /\ \A i \in 1 .. k : w[i] = Node(h, walk, t, v[i])
  BY DEF Along, Readings
<1> HIDE DEF node, w
<1>2. Len(z) = k + 1 /\ z[k + 1] = node /\ \A i \in 1 .. k : z[i] = w[i]
  <2>1. w \in Seq(ChainNodes \cup {node})
    BY <1>1
  <2> DEFINE S == ChainNodes \cup {node}
  <2>2. node \in S
    OBVIOUS
  <2> HIDE DEF S
  <2> QED BY <1>1, <2>1, <2>2
<1> HIDE DEF z
<1>3. \A i \in 1 .. k + 1 : z[i] = Node(h, walk, t, v[i])
  <2>1. ASSUME NEW i \in 1 .. k + 1 PROVE z[i] = Node(h, walk, t, v[i])
    <3>1. CASE i = k + 1
      BY <1>2, <3>1 DEF node
    <3>2. CASE i # k + 1
      <4>1. i \in 1 .. k
        BY <3>2
      <4> QED BY <1>1, <1>2, <4>1
    <3> QED BY <3>1, <3>2
  <2> QED BY <2>1
<1>4. q = [cur |-> next, nodes |-> z, end |-> IF next = stop THEN "complete"
                                             ELSE IF Plausible(next, walk) THEN "reading"
                                             ELSE "unknown_next"]
  BY DEF Follow, z, w
<1>5. q.cur = next /\ q.nodes = z
      /\ q.end = IF k + 1 < Len(v) THEN "reading" ELSE "complete"
  <2>1. CASE k + 1 < Len(v)
    BY <1>4, <2>1
  <2>2. CASE ~(k + 1 < Len(v))
    BY <1>4, <2>2
  <2> QED BY <2>1, <2>2
<1> HIDE DEF q
<1>6. Along(h, walk, t, v, q, k + 1)
  BY <1>2, <1>3, <1>5 DEF Along
<1> QED BY <1>6 DEF q, node

\* It has come so along a bin, and there is more of it.
Within(h, walk, t, b, r, k) ==
  r \in Readings /\ k \in Nat /\ k < Len(h.lists[b]) /\ Along(h, walk, t, h.lists[b], r, k)

\* The next chunk of the bin is the one it is at, and it has not met it.
NextOf(h, b, r, k) ==
  /\ r.end = "reading" /\ r.cur = h.lists[b][k + 1] /\ k + 1 \in DOMAIN h.lists[b]
  /\ r.cur \in Carved(h) /\ Len(r.nodes) = k /\ r.cur \notin Visited(r.nodes)

\* The chunks read so far are the first of the list, so the next is not among them.
LEMMA AlongApart ==
  ASSUME NEW h, WellFormed(h), NEW b \in Bins, NEW walk, NEW t, NEW r, NEW k, Within(h, walk, t, b, r, k)
  PROVE  NextOf(h, b, r, k)
<1>0. r \in Readings /\ k \in Nat /\ k < Len(h.lists[b]) /\ Along(h, walk, t, h.lists[b], r, k)
  BY DEF Within
<1> DEFINE v == h.lists[b]
<1>1. b \in Lists /\ Len(v) \in Nat /\ DOMAIN v = 1 .. Len(v)
  BY HeapTyped DEF Lists
<1>2. r.end = "reading" /\ r.cur = v[k + 1] /\ Len(r.nodes) = k
      /\ \A i \in 1 .. k : r.nodes[i] = Node(h, walk, t, v[i])
  BY <1>0 DEF Along
<1>3. k + 1 \in DOMAIN v
  BY <1>0, <1>1
<1>4. \A i \in DOMAIN v : v[i] \in Carved(h)
  BY <1>1, FreeCarved
<1>5. DOMAIN r.nodes = 1 .. k
  <2> DEFINE w == r.nodes
  <2>1. w \in Seq(ChainNodes)
    BY <1>0 DEF Readings
  <2> HIDE DEF w
  <2>2. DOMAIN w = 1 .. Len(w)
    BY <2>1
  <2> QED BY <1>2, <2>2 DEF w
<1>6. ASSUME NEW i \in 1 .. k PROVE r.nodes[i].chunk # r.cur
  <2>1. i \in DOMAIN v /\ i # k + 1
    BY <1>0, <1>1, <1>6
  <2>2. r.nodes[i].chunk = v[i]
    <3> HIDE DEF v
    <3>1. r.nodes[i] = Node(h, walk, t, v[i])
      BY <1>2
    <3>2. \A c : Node(h, walk, t, c).chunk = c
      BY DEF Node
    <3> QED BY <3>1, <3>2
  <2>3. v[i] # v[k + 1]
    BY <1>1, <1>3, <2>1 DEF WellFormed, OnePlace
  <2> QED BY <1>2, <2>2, <2>3
<1>7. r.cur \notin Visited(r.nodes)
  BY <1>5, <1>6 DEF Visited
<1> QED BY <1>2, <1>3, <1>4, <1>7 DEF NextOf

\* A step of a fastbin's reader goes one chunk along.
LEMMA FastbinAlong ==
  ASSUME NEW h, WellFormed(h), h.bad = None, NEW walk \in Walks, walk.end = h.brk, NEW t,
         NEW r \in Readings, NEW k \in Nat, k < Len(h.lists["fastbin"]),
         Len(h.lists["fastbin"]) <= ChainLimit, Along(h, walk, t, h.lists["fastbin"], r, k)
  PROVE  Along(h, walk, t, h.lists["fastbin"], FastbinStep(h, walk, t, r), k + 1)
<1> DEFINE v == h.lists["fastbin"]
           c == v[k + 1]
           node == Node(h, walk, t, c)
<1>1. "fastbin" \in Bins /\ "fastbin" \in Lists
  BY DEF Bins, Lists
<1>2. /\ r.end = "reading" /\ r.cur = c /\ k + 1 \in DOMAIN v /\ c \in Carved(h)
      /\ Len(r.nodes) = k /\ r.cur \notin Visited(r.nodes)
  <2>1. Within(h, walk, t, "fastbin", r, k)
    BY DEF Within
  <2>2. NextOf(h, "fastbin", r, k)
    BY <1>1, <2>1, AlongApart
  <2> QED BY <2>2 DEF NextOf
<1>3. Len(v) \in Nat /\ DOMAIN v = 1 .. Len(v) /\ ChainLimit \in Nat
  BY <1>1, HeapTyped, ChainBound
<1>4. Readable(h, UserOf(c))
  BY <1>2, ChunkReadable
<1>5. FastbinStep(h, walk, t, r) = FollowHidden(r, node, walk)
  <2> HIDE DEF v, c
  <2>1. ~(Len(r.nodes) >= ChainLimit)
    BY <1>2, <1>3 DEF v
  <2> QED BY <1>2, <1>4, <2>1 DEF FastbinStep
<1>6. Reveal(node.fd) = IF k + 1 < Len(v) THEN v[k + 1 + 1] ELSE NULL
  <2>1. node.fd = Word(h, UserOf(c))
    BY DEF Node
  <2> QED BY <1>1, <1>2, <2>1, SoundLinks
<1>7. k + 1 < Len(v) => v[k + 1 + 1] # NULL /\ Plausible(v[k + 1 + 1], walk)
  <2> SUFFICES ASSUME k + 1 < Len(v) PROVE v[k + 1 + 1] # NULL /\ Plausible(v[k + 1 + 1], walk)
    OBVIOUS
  <2>1. k + 1 + 1 \in DOMAIN v
    BY <1>3
  <2>2. v[k + 1 + 1] \in Carved(h)
    BY <1>1, <2>1, FreeCarved
  <2> QED BY <2>2, ChunkReadable DEF NULL
<1> HIDE DEF c, v
<1>8. Along(h, walk, t, v, r, k) /\ k < Len(v)
  BY DEF v
<1>9. Along(h, walk, t, v, Follow(r, Node(h, walk, t, v[k + 1]), Reveal(node.fd), NULL, walk), k + 1)
  <2> HIDE DEF node
  <2> QED BY <1>3, <1>6, <1>7, <1>8, AlongMore
<1> QED BY <1>5, <1>9 DEF FollowHidden, node, c, v

\* So does a step of a linked bin's.
LEMMA LinkedAlong ==
  ASSUME NEW h, WellFormed(h), h.bad = None, h.skew = 0, NEW walk \in Walks, walk.end = h.brk, NEW t,
         NEW b \in Linked, NEW r \in Readings, NEW k \in Nat, k < Len(h.lists[b]),
         Len(h.lists[b]) <= ChainLimit, Along(h, walk, t, h.lists[b], r, k)
  PROVE  Along(h, walk, t, h.lists[b], LinkedStep(h, walk, t, b, r), k + 1)
<1> DEFINE v == h.lists[b]
           c == v[k + 1]
           node == Node(h, walk, t, c)
<1>1. b \in Bins /\ b \in Lists /\ b # "fastbin"
  BY DEF Bins, Lists, Linked
<1>2. /\ r.end = "reading" /\ r.cur = c /\ k + 1 \in DOMAIN v /\ c \in Carved(h)
      /\ Len(r.nodes) = k /\ r.cur \notin Visited(r.nodes)
  <2>1. Within(h, walk, t, b, r, k)
    BY DEF Within
  <2>2. NextOf(h, b, r, k)
    BY <1>1, <2>1, AlongApart
  <2> QED BY <2>2 DEF NextOf
<1>3. Len(v) \in Nat /\ DOMAIN v = 1 .. Len(v) /\ ChainLimit \in Nat
  BY <1>1, HeapTyped, ChainBound
<1>4. HeaderOf(h, b) = FieldOf(b) /\ 1000 < FieldOf(b) /\ FieldOf(b) \in Nat
  BY <1>1, EndsTyped
<1>5. LinkedStep(h, walk, t, b, r) = FollowFd(r, node, FieldOf(b), walk)
  <2>1. Plausible(c, walk) /\ (\A j \in 0 .. 3 : Readable(h, UserOf(c) + j)) /\ c \in Nat /\ c < 1000
    BY <1>2, ChunkReadable
  <2>2. \A j \in LinkWords(b) : j \in 0 .. 3
    BY DEF LinkWords
  <2>3. c # FieldOf(b)
    BY <1>4, <2>1
  <2> HIDE DEF v, c
  <2>4. ~(Len(r.nodes) >= ChainLimit)
    BY <1>2, <1>3 DEF v
  <2> QED BY <1>2, <2>1, <2>2, <2>3, <2>4 DEF LinkedStep
<1>6. node.fd = IF k + 1 < Len(v) THEN v[k + 1 + 1] ELSE FieldOf(b)
  <2>1. node.fd = Word(h, UserOf(c))
    BY DEF Node
  <2> QED BY <1>1, <1>2, <1>4, <2>1, SoundLinks
<1>7. k + 1 < Len(v) => v[k + 1 + 1] # FieldOf(b) /\ Plausible(v[k + 1 + 1], walk)
  <2> SUFFICES ASSUME k + 1 < Len(v) PROVE v[k + 1 + 1] # FieldOf(b) /\ Plausible(v[k + 1 + 1], walk)
    OBVIOUS
  <2>1. k + 1 + 1 \in DOMAIN v
    BY <1>3
  <2>2. v[k + 1 + 1] \in Carved(h)
    BY <1>1, <2>1, FreeCarved
  <2>3. v[k + 1 + 1] \in Nat /\ v[k + 1 + 1] < 1000 /\ Plausible(v[k + 1 + 1], walk)
    BY <2>2, ChunkReadable
  <2> QED BY <1>4, <2>3
<1> HIDE DEF c, v
<1>8. Along(h, walk, t, v, r, k) /\ k < Len(v)
  BY DEF v
<1>9. Along(h, walk, t, v, Follow(r, Node(h, walk, t, v[k + 1]), node.fd, FieldOf(b), walk), k + 1)
  <2> HIDE DEF node
  <2> QED BY <1>3, <1>6, <1>7, <1>8, AlongMore
<1> QED BY <1>5, <1>9 DEF FollowFd, node, c, v

\* A reader whose steps go along the list reads it whole.
LEMMA AlongWhole ==
  ASSUME NEW h, NEW walk, NEW t, NEW v, Len(v) \in Nat, 0 < Len(v), Len(v) <= ChainLimit,
         NEW f, f[0] = Begin(v[1]),
         \A n \in 1 .. ChainLimit + 1 : \A k \in Nat :
           k < Len(v) /\ Along(h, walk, t, v, f[n - 1], k) => Along(h, walk, t, v, f[n], k + 1),
         \A n \in 1 .. ChainLimit + 1 : f[n - 1].end = "complete" => f[n] = f[n - 1]
  PROVE  Along(h, walk, t, v, f[ChainLimit + 1], Len(v))
<1> DEFINE N == ChainLimit + 1
           S == {n \in 0 .. N : Along(h, walk, t, v, f[n], IF n < Len(v) THEN n ELSE Len(v))}
<1>1. N \in Nat /\ N \in 0 .. N /\ 0 \in 0 .. N /\ ~(N < Len(v))
  BY ChainBound
<1>2. 0 \in S
  <2>1. Along(h, walk, t, v, f[0], 0)
    BY DEF Along, Begin
  <2> QED BY <1>1, <2>1
<1>3. ASSUME NEW n \in 0 .. N - 1, n \in S PROVE n + 1 \in S
  <2>1. PICK m \in 1 .. N : m = n + 1 /\ m - 1 = n /\ m \in 0 .. N
    BY <1>1
  <2>2. CASE n < Len(v)
    <3>1. Along(h, walk, t, v, f[m - 1], n)
      BY <1>3, <2>1, <2>2
    <3>2. Along(h, walk, t, v, f[m], n + 1)
      BY <2>1, <2>2, <3>1
    <3>3. (IF m < Len(v) THEN m ELSE Len(v)) = n + 1
      BY <2>1, <2>2
    <3> QED BY <2>1, <3>2, <3>3
  <2>3. CASE ~(n < Len(v))
    <3>1. Along(h, walk, t, v, f[m - 1], Len(v))
      BY <1>3, <2>1, <2>3
    <3>2. f[m] = f[m - 1]
      BY <2>1, <3>1 DEF Along
    <3>3. ~(m < Len(v))
      BY <2>1, <2>3
    <3> QED BY <2>1, <3>1, <3>2, <3>3
  <2> QED BY <2>2, <2>3
<1> HIDE DEF S, N
<1>4. N \in S
  BY <1>1, <1>2, <1>3, Induct
<1> QED BY <1>1, <1>4 DEF S, N

\* The nodes of the chunks v, every one free and of its size.
Vouched(nodes, v) ==
  /\ nodes \in Seq(ChainNodes) /\ Len(v) \in Nat /\ 0 < Len(v) /\ Len(nodes) = Len(v)
  /\ \A i \in 1 .. Len(v) : nodes[i].chunk = v[i] /\ nodes[i].freed = "yes" /\ nodes[i].size = Unit

\* Every node is linked to its neighbours, the first and the last to the bin.
LinkedUp(nodes, v, b) ==
  \A i \in 1 .. Len(v) :
    /\ nodes[i].fd = IF i < Len(v) THEN v[i + 1] ELSE FieldOf(b)
    /\ nodes[i].bk = IF i > 1 THEN v[i - 1] ELSE FieldOf(b)

\* Where every answer is a yes, so is the first doubt.
LEMMA NoDoubt ==
  ASSUME NEW answers, NEW vacuous, NEW n \in Nat, 0 < n, DOMAIN answers = 1 .. n,
         \A i \in 1 .. n : answers[i] = "yes"
  PROVE  FirstDoubt(answers, vacuous) = "yes" /\ ToSet(answers) = {"yes"}
<1>1. 1 \in 1 .. n
  OBVIOUS
<1>2. answers # <<>>
  BY <1>1
<1>3. {i \in DOMAIN answers : answers[i] # "yes"} = {}
  OBVIOUS
<1>4. FirstDoubt(answers, vacuous) = "yes"
  BY <1>2, <1>3 DEF FirstDoubt
<1>5. ToSet(answers) = {"yes"}
  BY <1>1 DEF ToSet
<1> QED BY <1>4, <1>5

\* What the validations ask of such nodes.
LEMMA VouchedAnswers ==
  ASSUME NEW nodes, NEW v, Vouched(nodes, v)
  PROVE  /\ \A vacuous : /\ FirstDoubt(FreedAnswers(nodes), vacuous) = "yes"
                         /\ FirstDoubt(SizeAnswers(nodes), vacuous) = "yes"
         /\ FastbinSizes(nodes) = "yes"
         /\ nodes # <<>> /\ Head(nodes) = nodes[1] /\ Head(nodes).chunk = v[1]
         /\ Last(nodes) = nodes[Len(v)]
<1> DEFINE S == ChainNodes
           n == Len(v)
<1>1. /\ nodes \in Seq(S) /\ n \in Nat /\ 0 < n /\ Len(nodes) = n
      /\ \A i \in 1 .. n : nodes[i].chunk = v[i] /\ nodes[i].freed = "yes" /\ nodes[i].size = Unit
  BY DEF Vouched
<1> HIDE DEF S, n
<1>2. DOMAIN nodes = 1 .. n
  BY <1>1
<1>3. nodes # <<>> /\ Head(nodes) = nodes[1] /\ 1 \in 1 .. n
  BY <1>1
<1>4. DOMAIN FreedAnswers(nodes) = 1 .. n /\ \A i \in 1 .. n : FreedAnswers(nodes)[i] = "yes"
  BY <1>1, <1>2 DEF FreedAnswers
<1>5. DOMAIN SizeAnswers(nodes) = 1 .. n /\ \A i \in 1 .. n : SizeAnswers(nodes)[i] = "yes"
  <2>1. Unit # None
    BY NoneIsNothing DEF Unit
  <2> QED BY <1>1, <1>2, <2>1 DEF SizeAnswers
<1>6. \A vacuous : /\ FirstDoubt(FreedAnswers(nodes), vacuous) = "yes"
                   /\ FirstDoubt(SizeAnswers(nodes), vacuous) = "yes"
  BY <1>1, <1>4, <1>5, NoDoubt
<1>7. FastbinSizes(nodes) = "yes"
  <2>1. ToSet(SizeAnswers(nodes)) = {"yes"}
    BY <1>1, <1>5, NoDoubt
  <2> QED BY <2>1 DEF FastbinSizes
<1>8. Last(nodes) = nodes[n]
  BY <1>1 DEF Last
<1> QED BY <1>1, <1>3, <1>6, <1>7, <1>8 DEF n

\* Their links agree both ways.
LEMMA LinkedConsistent ==
  ASSUME NEW nodes, NEW v, Vouched(nodes, v), NEW b, LinkedUp(nodes, v, b)
  PROVE  Consistent(nodes, "complete", b)
<1> DEFINE n == Len(v)
<1>1. n \in Nat /\ 0 < n /\ Len(nodes) = n /\ \A i \in 1 .. n : nodes[i].chunk = v[i]
  BY DEF Vouched
<1>2. \A i \in 1 .. n : /\ nodes[i].fd = IF i < n THEN v[i + 1] ELSE FieldOf(b)
                        /\ nodes[i].bk = IF i > 1 THEN v[i - 1] ELSE FieldOf(b)
  BY DEF LinkedUp
<1>3. nodes # <<>> /\ Head(nodes) = nodes[1] /\ Last(nodes) = nodes[n]
  BY VouchedAnswers
<1> HIDE DEF n
<1>4. nodes[1].bk = FieldOf(b) /\ nodes[n].fd = FieldOf(b)
  <2>1. 1 \in 1 .. n /\ n \in 1 .. n
    BY <1>1
  <2> QED BY <1>2, <2>1
<1>5. ASSUME NEW i \in 1 .. n - 1
      PROVE  nodes[i].fd = nodes[i + 1].chunk /\ nodes[i + 1].bk = nodes[i].chunk
  <2>1. PICK j \in 1 .. n : j = i + 1
    BY <1>1
  <2>2. i \in 1 .. n /\ i < n /\ j > 1 /\ j - 1 = i
    BY <1>1, <2>1
  <2>3. nodes[i].fd = v[j] /\ nodes[j].bk = v[i]
    BY <1>2, <2>1, <2>2
  <2> QED BY <1>1, <2>1, <2>2, <2>3
<1> QED BY <1>1, <1>3, <1>4, <1>5 DEF Consistent

\* The validations call such a chain plausible.
LEMMA VouchedVerdict ==
  ASSUME NEW chain, NEW v, Vouched(chain.nodes, v), chain.end = "complete", chain.head = v[1],
         NEW end, Start <= v[1] /\ v[1] < end
  PROVE  /\ ValidateFastbins(chain, end) = "plausible"
         /\ chain.consistent /\ ~chain.empty =>
              /\ ValidateUnsorted(chain, end) = "plausible"
              /\ ValidateSmallbins(chain) = "plausible" /\ ValidateLargebins(chain) = "plausible"
<1>1. /\ \A vacuous : /\ FirstDoubt(FreedAnswers(chain.nodes), vacuous) = "yes"
                      /\ FirstDoubt(SizeAnswers(chain.nodes), vacuous) = "yes"
      /\ FastbinSizes(chain.nodes) = "yes"
      /\ chain.nodes # <<>> /\ Head(chain.nodes).chunk = v[1]
  BY VouchedAnswers
<1>2. ChainComplete(chain.end) = "yes" /\ HeadAnswer(chain) = "yes"
  BY <1>1 DEF ChainComplete, HeadAnswer
<1>3. Verdict({"yes"}) = "plausible"
  BY VerdictTyped
<1>4. ValidateFastbins(chain, end) = "plausible"
  <2>1. ValidateFastbins(chain, end) = Verdict({"yes", "yes", "yes", "yes"})
    BY <1>1, <1>2 DEF ValidateFastbins
  <2> QED BY <1>3, <2>1
<1>5. ASSUME chain.consistent, ~chain.empty
      PROVE  /\ ValidateUnsorted(chain, end) = "plausible"
             /\ ValidateSmallbins(chain) = "plausible" /\ ValidateLargebins(chain) = "plausible"
  <2>1. ConsistentAnswer(chain) = "yes"
    BY <1>5 DEF ConsistentAnswer
  <2>2. ValidateUnsorted(chain, end) = Verdict({"yes", "yes", "yes", "yes"})
    BY <1>1, <1>2, <1>5, <2>1 DEF ValidateUnsorted
  <2>3. ValidateSmallbins(chain) = Verdict({"yes", "yes", "yes", "yes", "yes"})
    BY <1>1, <1>2, <2>1 DEF ValidateSmallbins
  <2>4. ValidateLargebins(chain) = Verdict({"yes", "yes", "yes", "yes"})
    BY <1>1, <1>2, <2>1 DEF ValidateLargebins
  <2> QED BY <1>3, <2>2, <2>3, <2>4
<1> QED BY <1>4, <1>5

\* A walk over the whole of a sound heap lists every chunk with its size.
LEMMA WholeWalked ==
  ASSUME NEW h, WellFormed(h), h.carved > 0, h.bad = None, NEW c \in Carved(h)
  PROVE  WalkedSize(c, Walk(h, h.brk)) = Unit
<1> DEFINE w == Walk(h, h.brk)
<1>0. h.brk \in Nat /\ h.brk <= h.brk /\ h.carved \in Nat
  BY HeapTyped
<1>1. /\ w \in Walks /\ Len(w.chunks) = h.carved + 1
      /\ \A j \in 1 .. Len(w.chunks) : w.chunks[j].addr = 6 * j
  BY <1>0, SoundWalk
<1>2. WalkedSize(c, w) \in {None, Unit}
  BY <1>0, WalkedUnit
<1> SUFFICES WalkedSize(c, w) = Unit
  OBVIOUS
<1> HIDE DEF w
<1>3. DOMAIN w.chunks = 1 .. Len(w.chunks)
  <2> DEFINE R == [addr : Nat, size : Nat]
             s == w.chunks
  <2>1. s \in Seq(R)
    BY <1>1 DEF Walks
  <2> HIDE DEF R, s
  <2>2. DOMAIN s = 1 .. Len(s)
    BY <2>1
  <2> QED BY <2>2 DEF s
<1>4. PICK k \in 1 .. Chunks : c = 6 * k
  BY SlotsPlaced DEF Carved
<1>5. k \in 1 .. h.carved + 1
  <2>1. c < Top(h) /\ Top(h) = 6 * h.carved + 6 /\ Chunks \in Nat
    BY HeapTyped, HeapBounds DEF Carved
  <2> QED BY <1>0, <1>4, <2>1
<1>6. Walked(c, w)
  <2>1. k \in DOMAIN w.chunks /\ w.chunks[k].addr = c
    BY <1>1, <1>3, <1>4, <1>5
  <2> QED BY <2>1 DEF Walked
<1>7. WalkedSize(c, w) # None
  <2> DEFINE i == CHOOSE j \in DOMAIN w.chunks : w.chunks[j].addr = c
             R == [addr : Nat, size : Nat]
             s == w.chunks
  <2>1. i \in DOMAIN s
    BY <1>6 DEF Walked
  <2>2. WalkedSize(c, w) = s[i].size
    BY <1>6 DEF WalkedSize
  <2>3. s \in Seq(R)
    BY <1>1 DEF Walks
  <2> HIDE DEF i, s
  <2>4. s[i] \in R
    <3> HIDE DEF R
    <3>1. DOMAIN s = 1 .. Len(s)
      BY <2>3
    <3> QED BY <2>1, <2>3, <3>1
  <2>5. s[i].size \in Nat
    BY <2>4
  <2> QED BY <2>2, <2>5, NoneIsNothing
<1> QED BY <1>2, <1>7

\* The nodes of the chunks of a bin, in a sound heap whose tracker knows them.
LEMMA NodesVouched ==
  ASSUME NEW h, WellFormed(h), h.carved > 0, h.bad = None, NEW t, Tracks(t, h), NEW b \in Bins,
         0 < Len(h.lists[b]), NEW nodes \in Seq(ChainNodes), Len(nodes) = Len(h.lists[b]),
         \A i \in 1 .. Len(h.lists[b]) : nodes[i] = Node(h, Walk(h, h.brk), t, h.lists[b][i])
  PROVE  /\ Vouched(nodes, h.lists[b])
         /\ b # "fastbin" /\ h.skew = 0 => LinkedUp(nodes, h.lists[b], b)
<1> DEFINE v == h.lists[b]
           w == Walk(h, h.brk)
<1>1. b \in Lists /\ Len(v) \in Nat /\ DOMAIN v = 1 .. Len(v)
  BY HeapTyped DEF Lists
<1>2. \A i \in DOMAIN v : v[i] \in Free(h) /\ v[i] \in Carved(h)
  BY <1>1, FreeCarved
<1>3. \A c : /\ Node(h, w, t, c).chunk = c /\ Node(h, w, t, c).freed = KnownFreed(t, UserOf(c))
             /\ Node(h, w, t, c).size = WalkedSize(c, w)
             /\ Node(h, w, t, c).fd = Word(h, UserOf(c)) /\ Node(h, w, t, c).bk = Word(h, UserOf(c) + 1)
  BY DEF Node
<1>4. \A c \in Carved(h) : WalkedSize(c, w) = Unit
  BY WholeWalked
<1> HIDE DEF w
<1>5. \A i \in DOMAIN v : nodes[i] = Node(h, w, t, v[i])
  BY <1>1 DEF w
<1>6. ASSUME NEW i \in DOMAIN v
      PROVE  nodes[i].chunk = v[i] /\ nodes[i].freed = "yes" /\ nodes[i].size = Unit
  <2>1. KnownFreed(t, UserOf(v[i])) = "yes"
    BY <1>2, HeldKnown
  <2> HIDE DEF v
  <2> QED BY <1>2, <1>3, <1>4, <1>5, <2>1
<1>7. Vouched(nodes, v)
  <2> HIDE DEF v
  <2> QED BY <1>1, <1>6 DEF Vouched, v
<1>8. ASSUME b # "fastbin", h.skew = 0 PROVE LinkedUp(nodes, v, b)
  <2>1. HeaderOf(h, b) = FieldOf(b)
    BY <1>8, EndsTyped
  <2>2. ASSUME NEW i \in DOMAIN v
        PROVE  /\ Word(h, UserOf(v[i])) = IF i < Len(v) THEN v[i + 1] ELSE FieldOf(b)
               /\ Word(h, UserOf(v[i]) + 1) = IF i > 1 THEN v[i - 1] ELSE FieldOf(b)
    BY <1>8, <2>1, SoundLinks
  <2> HIDE DEF v
  <2>3. ASSUME NEW i \in 1 .. Len(v)
        PROVE  /\ nodes[i].fd = IF i < Len(v) THEN v[i + 1] ELSE FieldOf(b)
               /\ nodes[i].bk = IF i > 1 THEN v[i - 1] ELSE FieldOf(b)
    <3>0. i \in DOMAIN v
      BY <1>1
    <3>1. nodes[i].fd = Word(h, UserOf(v[i])) /\ nodes[i].bk = Word(h, UserOf(v[i]) + 1)
      BY <1>3, <1>5, <3>0
    <3> QED BY <2>2, <3>0, <3>1
  <2> QED BY <2>3 DEF LinkedUp
<1> QED BY <1>7, <1>8

\* A snapshot that lists the chunks v, and vouches for them.
Whole(s, v) ==
  /\ s # None /\ s.chain # None /\ Vouched(s.chain.nodes, v) /\ s.verdict = "plausible"

\* The chain read of a bin, all along it.
LEMMA ChainWhole ==
  ASSUME NEW h, WellFormed(h), h.carved > 0, h.bad = None, NEW t, NEW b \in Bins,
         0 < Len(h.lists[b]), Len(h.lists[b]) <= ChainLimit, b # "fastbin" => h.skew = 0,
         NEW walk \in Walks, walk.end = h.brk
  PROVE  \E r \in Readings :
           /\ Along(h, walk, t, h.lists[b], r, Len(h.lists[b]))
           /\ HeadOf(h, b) = h.lists[b][1]
           /\ b = "fastbin" => FastbinChain(h, walk, t, HeadOf(h, b)) = FastbinOf(h.lists[b][1], r)
           /\ b # "fastbin" => LinkedChain(h, walk, t, b, HeadOf(h, b), TailOf(h, b))
                                 = LinkedOf(b, h.lists[b][1], FALSE, r)
<1> DEFINE v == h.lists[b]
           M == ChainLimit + 1
<1>1. b \in Lists /\ Len(v) \in Nat /\ DOMAIN v = 1 .. Len(v) /\ 1 \in DOMAIN v /\ 0 < Len(v)
  BY HeapTyped DEF Lists
<1>2. v[1] \in Carved(h)
  BY <1>1, FreeCarved
<1>3. v[1] \in Nat /\ v[1] < 1000
  <2> DEFINE c == v[1]
  <2> HIDE DEF c
  <2>1. c \in Carved(h)
    BY <1>2 DEF c
  <2>2. c \in Nat /\ c < 1000
    BY <2>1, ChunkReadable
  <2> QED BY <2>2 DEF c
<1>4. HeadOf(h, b) = v[1]
  BY <1>1 DEF HeadOf, Neighbour
<1>5. M \in 0 .. M /\ ChainLimit \in Nat
  BY ChainBound
<1>6. CASE b = "fastbin"
  <2>1. PICK f : /\ ReadsFastbin(f, h, walk, t, v[1])
                 /\ FastbinChain(h, walk, t, v[1]) = FastbinOf(v[1], f[ChainLimit + 1])
    BY <1>3, FastbinMade
  <2>2. \A n \in 1 .. M : n - 1 \in 0 .. M /\ f[n - 1] \in Readings /\ f[n] = FastbinStep(h, walk, t, f[n - 1])
    BY <1>5, <2>1 DEF ReadsFastbin
  <2>3. \A n \in 1 .. M : \A k \in Nat :
          k < Len(v) /\ Along(h, walk, t, v, f[n - 1], k) => Along(h, walk, t, v, f[n], k + 1)
    <3> SUFFICES ASSUME NEW n \in 1 .. M, NEW k \in Nat, k < Len(v), Along(h, walk, t, v, f[n - 1], k)
                 PROVE  Along(h, walk, t, v, f[n], k + 1)
      OBVIOUS
    <3>1. PICK r \in Readings : r = f[n - 1]
      BY <2>2
    <3>2. Along(h, walk, t, v, FastbinStep(h, walk, t, r), k + 1)
      BY <1>6, <3>1, FastbinAlong
    <3> QED BY <2>2, <3>1, <3>2
  <2>4. \A n \in 1 .. M : f[n - 1].end = "complete" => f[n] = f[n - 1]
    BY <2>2 DEF FastbinStep
  <2>5. f[0] = Begin(v[1])
    BY <2>1 DEF ReadsFastbin
  <2>6. Along(h, walk, t, v, f[ChainLimit + 1], Len(v))
    <3> HIDE DEF v
    <3> QED BY <1>1, <2>3, <2>4, <2>5, AlongWhole DEF v
  <2>7. f[ChainLimit + 1] \in Readings
    BY <1>5, <2>1 DEF ReadsFastbin
  <2> QED BY <1>4, <1>6, <2>1, <2>6, <2>7
<1>7. CASE b # "fastbin"
  <2>0. b \in Linked /\ h.skew = 0
    BY <1>7 DEF Linked
  <2> DEFINE empty == v[1] = FieldOf(b) /\ TailOf(h, b) = FieldOf(b)
  <2>1. PICK f : /\ ReadsLinked(f, h, walk, t, b, v[1])
                 /\ LinkedChain(h, walk, t, b, v[1], TailOf(h, b)) = LinkedOf(b, v[1], empty, f[ChainLimit + 1])
    BY <1>3, LinkedMade
  <2>2. \A n \in 1 .. M : n - 1 \in 0 .. M /\ f[n - 1] \in Readings /\ f[n] = LinkedStep(h, walk, t, b, f[n - 1])
    BY <1>5, <2>1 DEF ReadsLinked
  <2>3. \A n \in 1 .. M : \A k \in Nat :
          k < Len(v) /\ Along(h, walk, t, v, f[n - 1], k) => Along(h, walk, t, v, f[n], k + 1)
    <3> SUFFICES ASSUME NEW n \in 1 .. M, NEW k \in Nat, k < Len(v), Along(h, walk, t, v, f[n - 1], k)
                 PROVE  Along(h, walk, t, v, f[n], k + 1)
      OBVIOUS
    <3>1. PICK r \in Readings : r = f[n - 1]
      BY <2>2
    <3>2. Along(h, walk, t, v, LinkedStep(h, walk, t, b, r), k + 1)
      BY <2>0, <3>1, LinkedAlong
    <3> QED BY <2>2, <3>1, <3>2
  <2>4. \A n \in 1 .. M : f[n - 1].end = "complete" => f[n] = f[n - 1]
    BY <2>2 DEF LinkedStep
  <2>5. f[0] = Begin(v[1])
    BY <2>1 DEF ReadsLinked
  <2>6. Along(h, walk, t, v, f[ChainLimit + 1], Len(v))
    <3> HIDE DEF v
    <3> QED BY <1>1, <2>3, <2>4, <2>5, AlongWhole DEF v
  <2>7. f[ChainLimit + 1] \in Readings
    BY <1>5, <2>1 DEF ReadsLinked
  <2>8. empty = FALSE
    <3>1. 1000 < FieldOf(b) /\ FieldOf(b) \in Nat
      BY EndsTyped
    <3> QED BY <1>3, <3>1
  <2> HIDE DEF empty
  <2> QED BY <1>4, <1>7, <2>1, <2>6, <2>7, <2>8
<1> QED BY <1>6, <1>7

\* A bin of a sound heap is read whole, and vouched for.
LEMMA ReadVouched ==
  ASSUME NEW h, WellFormed(h), h.carved > 0, h.bad = None, NEW t, Tracks(t, h), NEW b \in Bins,
         0 < Len(h.lists[b]), Len(h.lists[b]) <= ChainLimit, b # "fastbin" => h.skew = 0,
         NEW limit \in Nat, b = "smallbin" => limit > 3, b = "largebin" => limit > 70
  PROVE  Whole(ReadBin(h, Walk(h, h.brk), t, limit, b), h.lists[b])
<1> DEFINE v == h.lists[b]
           walk == Walk(h, h.brk)
           s == ReadBin(h, walk, t, limit, b)
<1>1. walk \in Walks /\ walk.end = h.brk
  <2>1. h.brk \in Nat
    BY HeapTyped
  <2> QED BY <2>1, WalkTyped
<1>2. PICK r \in Readings :
           /\ Along(h, walk, t, v, r, Len(v))
           /\ HeadOf(h, b) = v[1]
           /\ b = "fastbin" => FastbinChain(h, walk, t, HeadOf(h, b)) = FastbinOf(v[1], r)
           /\ b # "fastbin" => LinkedChain(h, walk, t, b, HeadOf(h, b), TailOf(h, b))
                                 = LinkedOf(b, v[1], FALSE, r)
  <2> HIDE DEF walk
  <2> QED BY <1>1, ChainWhole
<1>3. b \in Lists /\ Len(v) \in Nat /\ DOMAIN v = 1 .. Len(v) /\ 1 \in DOMAIN v
  BY HeapTyped DEF Lists
<1>4. v[1] \in Nat /\ Start <= v[1] /\ v[1] < walk.end /\ v[1] # NULL
  <2>1. v[1] \in Carved(h)
    BY <1>3, FreeCarved
  <2> DEFINE c == v[1]
  <2> HIDE DEF c, walk
  <2>2. c \in Nat /\ 6 <= c /\ c < walk.end
    BY <1>1, <2>1, ChunkReadable DEF c
  <2> QED BY <2>2 DEF Start, NULL, c
<1>5. /\ r.nodes \in Seq(ChainNodes) /\ Len(r.nodes) = Len(v) /\ r.end = "complete"
      /\ \A i \in 1 .. Len(v) : r.nodes[i] = Node(h, walk, t, v[i])
  <2> HIDE DEF walk, v
  <2>1. Len(v) \in Nat
    BY <1>3
  <2> QED BY <1>2, <2>1 DEF Along, Readings
<1>6. Vouched(r.nodes, v) /\ (b # "fastbin" => LinkedUp(r.nodes, v, b))
  <2> PICK nodes \in Seq(ChainNodes) : nodes = r.nodes
    BY <1>5
  <2>1. Vouched(nodes, v) /\ (b # "fastbin" => LinkedUp(nodes, v, b))
    BY <1>5, NodesVouched
  <2> QED BY <2>1
<1>7. PICK chain \in {None, IF b = "fastbin" THEN FastbinChain(h, walk, t, HeadOf(h, b))
                            ELSE LinkedChain(h, walk, t, b, HeadOf(h, b), TailOf(h, b))} :
           /\ s = Judged(b, chain, walk.end)
           /\ b = "fastbin" => (chain = None <=> HeadOf(h, b) = NULL)
           /\ chain = None /\ b # "fastbin" =>
                (b = "smallbin" /\ ~(limit > 3)) \/ (b = "largebin" /\ ~(limit > 70))
  <2> HIDE DEF walk
  <2> QED BY <1>1, ChainRead
<1> HIDE DEF walk
<1>8. /\ chain \in Chains /\ chain.nodes = r.nodes /\ chain.end = "complete" /\ chain.head = v[1]
      /\ b # "fastbin" => chain.consistent /\ ~chain.empty
  <2>1. chain # None
    BY <1>2, <1>4, <1>7
  <2>2. CASE b = "fastbin"
    <3>1. chain = FastbinOf(v[1], r)
      BY <1>2, <1>7, <2>1, <2>2
    <3>2. /\ FastbinOf(v[1], r) \in Chains /\ FastbinOf(v[1], r).nodes = r.nodes
          /\ FastbinOf(v[1], r).end = r.end /\ FastbinOf(v[1], r).head = v[1]
      <4> DEFINE c == v[1]
      <4>1. c \in Nat /\ FALSE \in BOOLEAN
        BY <1>4
      <4> HIDE DEF c
      <4>2. /\ FastbinOf(c, r) \in Chains /\ FastbinOf(c, r).nodes = r.nodes
            /\ FastbinOf(c, r).end = r.end /\ FastbinOf(c, r).head = c
        BY <4>1, ChainsTyped
      <4> QED BY <4>2 DEF c
    <3> QED BY <1>5, <2>2, <3>1, <3>2
  <2>3. CASE b # "fastbin"
    <3>1. chain = LinkedOf(b, v[1], FALSE, r)
      BY <1>2, <1>7, <2>1, <2>3
    <3> DEFINE c == v[1]
    <3>2. c \in Nat /\ FALSE \in BOOLEAN
      BY <1>4
    <3> HIDE DEF c
    <3>3. /\ LinkedOf(b, c, FALSE, r) \in Chains /\ LinkedOf(b, c, FALSE, r).nodes = r.nodes
          /\ LinkedOf(b, c, FALSE, r).end = r.end /\ LinkedOf(b, c, FALSE, r).head = c
          /\ LinkedOf(b, c, FALSE, r).empty = FALSE
          /\ LinkedOf(b, c, FALSE, r).consistent = (FALSE \/ Consistent(r.nodes, r.end, b))
      <4> PICK empty \in BOOLEAN : empty = FALSE
        BY <3>2
      <4>1. /\ LinkedOf(b, c, empty, r) \in Chains /\ LinkedOf(b, c, empty, r).nodes = r.nodes
            /\ LinkedOf(b, c, empty, r).end = r.end /\ LinkedOf(b, c, empty, r).head = c
            /\ LinkedOf(b, c, empty, r).empty = empty
            /\ LinkedOf(b, c, empty, r).consistent = (empty \/ Consistent(r.nodes, r.end, b))
        BY <3>2, ChainsTyped
      <4> QED BY <4>1
    <3>4. Consistent(r.nodes, r.end, b)
      <4>1. r.end = "complete"
        BY <1>5
      <4>2. Consistent(r.nodes, "complete", b)
        BY <1>6, <2>3, LinkedConsistent
      <4> QED BY <4>1, <4>2
    <3> QED BY <1>5, <3>1, <3>3, <3>4 DEF c
  <2> QED BY <2>2, <2>3
<1>9. s.chain = chain /\ s # None /\ chain # None
  <2>1. chain # None
    BY <1>8, NoneIsNoSnapshot
  <2> HIDE DEF s
  <2> QED BY <1>7, <1>8, <2>1, JudgedTyped
<1>10. s.verdict = "plausible"
  <2>1. s = Judged(b, chain, walk.end)
    BY <1>7
  <2>2. /\ ValidateFastbins(chain, walk.end) = "plausible"
        /\ b # "fastbin" => /\ ValidateUnsorted(chain, walk.end) = "plausible"
                            /\ ValidateSmallbins(chain) = "plausible"
                            /\ ValidateLargebins(chain) = "plausible"
    <3>1. Vouched(chain.nodes, v) /\ chain.end = "complete" /\ chain.head = v[1]
      BY <1>6, <1>8
    <3> HIDE DEF v
    <3> QED BY <1>4, <1>8, <3>1, VouchedVerdict
  <2>3. s.verdict = IF b = "fastbin" THEN ValidateFastbins(chain, walk.end)
                    ELSE IF b = "unsorted" THEN ValidateUnsorted(chain, walk.end)
                    ELSE IF b = "smallbin" THEN ValidateSmallbins(chain) ELSE ValidateLargebins(chain)
    <3> HIDE DEF s
    <3> QED BY <1>8, <1>9, <2>1 DEF Judged
  <2> QED BY <2>2, <2>3
<1>11. Whole(s, v)
  <2>1. Vouched(s.chain.nodes, v)
    BY <1>6, <1>8, <1>9
  <2> HIDE DEF s, v
  <2> QED BY <1>9, <1>10, <2>1 DEF Whole
<1> QED BY <1>11 DEF walk

\* Whatever mix of reuse, realloc, sorting and stashing made the lists of a heap whose
\* calls were all traced and that nobody overwrote, a reading of a bin gives back
\* exactly what the allocator linked, in order, and the validation vouches for it
\* (lib.rs:4370-5043, glibc.rs:622-1210).
THEOREM SoundReadAlways == Spec => []SoundHeapReadWhole
<1>1. Inv => SoundHeapReadWhole
  <2> SUFFICES ASSUME Inv, mapping # None, mapping = heap.brk, Untouched, Aligned,
                      NEW b \in Bins, InLimit(b), Len(heap.lists[b]) <= ChainLimit
               PROVE  /\ ChunksOf(Fresh(b)) = heap.lists[b]
                      /\ heap.lists[b] # <<>> => Fresh(b).verdict = "plausible"
    BY DEF SoundHeapReadWhole
  <2>1. /\ WellFormed(heap) /\ heap.bad = None /\ heap.skew = 0 /\ Traced /\ heap.carved \in Nat
        /\ L!Limit(config) \in Nat /\ heap.brk \in Nat
    <3>1. WellFormed(heap) /\ heap.bad = None /\ heap.skew = 0 /\ Traced
      BY DEF Inv, Untouched, Aligned
    <3>2. L!Limit(config) \in Nat
      BY OptionsTyped DEF Inv
    <3> QED BY <3>1, <3>2, HeapTyped
  <2>2. heap.carved > 0 /\ Tracks(tracked, heap)
    BY <2>1 DEF Traced
  <2> DEFINE v == heap.lists[b]
             s == Fresh(b)
  <2>3. b \in Lists /\ Len(v) \in Nat /\ DOMAIN v = 1 .. Len(v) /\ v \in Seq(Nat)
    BY <2>1, HeapTyped DEF Lists
  <2>4. Fresh(b) = ReadBin(heap, Walk(heap, heap.brk), tracked, L!Limit(config), b)
    BY DEF Fresh
  <2>5. CASE 0 < Len(v)
    <3>1. Whole(s, v)
      <4>1. (b = "smallbin" => L!Limit(config) > 3) /\ (b = "largebin" => L!Limit(config) > 70)
        BY DEF InLimit
      <4>2. PICK limit \in Nat : limit = L!Limit(config)
        BY <2>1
      <4>3. Whole(ReadBin(heap, Walk(heap, heap.brk), tracked, limit, b), heap.lists[b])
        BY <2>1, <2>2, <2>5, <4>1, <4>2, ReadVouched
      <4> QED BY <2>4, <4>2, <4>3
    <3> HIDE DEF s
    <3>2. /\ Nodes(s) = s.chain.nodes /\ s.verdict = "plausible" /\ Len(s.chain.nodes) = Len(v)
          /\ s.chain.nodes \in Seq(ChainNodes)
          /\ \A i \in 1 .. Len(v) : s.chain.nodes[i].chunk = v[i]
      <4> HIDE DEF v
      <4> QED BY <3>1 DEF Whole, Vouched, Nodes
    <3> DEFINE nodes == Nodes(s)
               S == ChainNodes
    <3>3. nodes \in Seq(S) /\ Len(nodes) = Len(v) /\ \A i \in 1 .. Len(v) : nodes[i].chunk = v[i]
      BY <3>2
    <3>4. ChunksOf(s) = [i \in DOMAIN nodes |-> nodes[i].chunk]
      BY DEF ChunksOf
    <3> HIDE DEF nodes, S
    <3>5. DOMAIN nodes = 1 .. Len(v)
      BY <3>3
    <3>6. v = [i \in 1 .. Len(v) |-> v[i]]
      <4> HIDE DEF v
      <4> QED BY <2>3
    <3>7. ChunksOf(s) = v
      <4> HIDE DEF v
      <4> QED BY <3>3, <3>4, <3>5, <3>6
    <3> QED BY <3>2, <3>7 DEF s
  <2>6. CASE ~(0 < Len(v))
    <3>1. v = <<>>
      <4> HIDE DEF v
      <4> QED BY <2>3, <2>6
    <3>2. Bare(b, s, heap.skew = 0)
      <4>1. Walk(heap, heap.brk) \in Walks /\ Walk(heap, heap.brk).end = heap.brk
        BY <2>1, WalkTyped
      <4>2. Walk(heap, heap.brk).end <= heap.brk
        BY <2>1, <4>1
      <4>3. PICK limit \in Nat : limit = L!Limit(config)
        BY <2>1
      <4>4. Bare(b, ReadBin(heap, Walk(heap, heap.brk), tracked, limit, b), heap.skew = 0)
        <5> PICK walk \in Walks : walk = Walk(heap, heap.brk)
          BY <4>1
        <5> QED BY <2>1, <3>1, <4>2, EmptyBinRead
      <4> QED BY <2>4, <4>3, <4>4
    <3> HIDE DEF s, v
    <3>3. Nodes(s) = <<>>
      BY <3>2 DEF Bare, Nodes
    <3>4. ChunksOf(s) = <<>>
      BY <3>3 DEF ChunksOf
    <3> QED BY <3>1, <3>4 DEF s, v
  <2> QED BY <2>3, <2>5, <2>6
<1> QED BY <1>1, InvAlways, PTL

-----------------------------------------------------------------------------
(* The types                                                               *)

\* The image of a finite set is finite, and so is a part of it.
LEMMA ImageFinite ==
  ASSUME NEW S, IsFiniteSet(S), NEW f, DOMAIN f = S, NEW T, \A y \in T : \E x \in S : y = f[x]
  PROVE  IsFiniteSet(T)
<1> DEFINE R == {f[x] : x \in S}
           g == [x \in S |-> f[x]]
<1>1. g \in Surjection(S, R)
  BY DEF Surjection
<1>2. IsFiniteSet(R)
  <2> HIDE DEF R, g
  <2> QED BY <1>1, FS_Surjection
<1>3. T \in SUBSET R
  OBVIOUS
<1> HIDE DEF R
<1> QED BY <1>2, <1>3, FS_Subset

\* A sequence has finitely many elements.
LEMMA ElementsFinite ==
  ASSUME NEW X, NEW s \in Seq(X)
  PROVE  IsFiniteSet(ToSet(s)) /\ Len(s) \in Nat /\ ToSet(s) \subseteq X
<1>1. DOMAIN s = 1 .. Len(s) /\ Len(s) \in Nat /\ \A i \in 1 .. Len(s) : s[i] \in X
  OBVIOUS
<1>2. IsFiniteSet(1 .. Len(s))
  <2>1. 1 \in Int /\ Len(s) \in Int
    BY <1>1
  <2> QED BY <2>1, FS_Interval
<1>3. \A y \in ToSet(s) : \E i \in 1 .. Len(s) : y = s[i]
  BY <1>1 DEF ToSet
<1>4. IsFiniteSet(ToSet(s))
  BY <1>1, <1>2, <1>3, ImageFinite
<1> QED BY <1>1, <1>3, <1>4

\* The nodes of a snapshot, and the records made of them.
LEMMA NodesFinite ==
  ASSUME NEW k \in [Bins -> Snapshots \cup {None}], NEW b \in Bins
  PROVE  /\ Nodes(k[b]) \in Seq(ChainNodes) /\ Len(Nodes(k[b])) \in Nat
         /\ IsFiniteSet(BinNodes(k, b))
<1> DEFINE s == k[b]
           ns == Nodes(s)
           S == ChainNodes
<1>1. ns \in Seq(S)
  <2>1. s \in Snapshots \cup {None}
    OBVIOUS
  <2>2. CASE s = None \/ s.chain = None
    BY <2>2 DEF Nodes
  <2>3. CASE ~(s = None \/ s.chain = None)
    <3>1. s.chain \in Chains
      BY <2>1, <2>3 DEF Snapshots
    <3>2. s.chain.nodes \in Seq(ChainNodes)
      BY <3>1 DEF Chains
    <3> QED BY <2>3, <3>2 DEF Nodes
  <2> QED BY <2>2, <2>3
<1> HIDE DEF S, ns
<1>2. IsFiniteSet(ToSet(ns)) /\ Len(ns) \in Nat
  BY <1>1, ElementsFinite
<1> DEFINE f == [n \in ToSet(ns) |->
                   [kind |-> b, user |-> n.user, actual |-> n.size,
                    expected |-> IF b \in {"fastbin", "smallbin"} THEN Unit ELSE None]]
<1>3. DOMAIN f = ToSet(ns) /\ \A y \in BinNodes(k, b) : \E n \in ToSet(ns) : y = f[n]
  BY DEF BinNodes, ns
<1>4. IsFiniteSet(BinNodes(k, b))
  <2> HIDE DEF f
  <2> QED BY <1>2, <1>3, ImageFinite
<1> QED BY <1>1, <1>2, <1>4 DEF ns, S

\* The sources list finitely many.
LEMMA SourcesFinite ==
  ASSUME NEW k \in [Bins -> Snapshots \cup {None}], NEW o, EntriesIf(o) \in Seq(Nat)
  PROVE  /\ IsFiniteSet(UNION {BinNodes(k, b) : b \in Bins})
         /\ IsFiniteSet(Memberships(o, k))
<1> DEFINE all == UNION {BinNodes(k, b) : b \in Bins}
           entries == ToSet(EntriesIf(o))
<1>1. IsFiniteSet(all)
  <2>1. /\ IsFiniteSet(BinNodes(k, "fastbin")) /\ IsFiniteSet(BinNodes(k, "unsorted"))
        /\ IsFiniteSet(BinNodes(k, "smallbin")) /\ IsFiniteSet(BinNodes(k, "largebin"))
    BY NodesFinite DEF Bins
  <2>2. IsFiniteSet(BinNodes(k, "fastbin") \cup BinNodes(k, "unsorted"))
    BY <2>1, FS_Union
  <2>3. IsFiniteSet(BinNodes(k, "smallbin") \cup BinNodes(k, "largebin"))
    BY <2>1, FS_Union
  <2>4. all = (BinNodes(k, "fastbin") \cup BinNodes(k, "unsorted"))
                \cup (BinNodes(k, "smallbin") \cup BinNodes(k, "largebin"))
    BY DEF Bins
  <2> DEFINE x == BinNodes(k, "fastbin") \cup BinNodes(k, "unsorted")
             y == BinNodes(k, "smallbin") \cup BinNodes(k, "largebin")
  <2>5. IsFiniteSet(x \cup y)
    <3> HIDE DEF x, y
    <3> QED BY <2>2, <2>3, FS_Union DEF x, y
  <2> HIDE DEF all
  <2> QED BY <2>4, <2>5
<1>2. IsFiniteSet(entries)
  BY ElementsFinite
<1>3. IsFiniteSet(TcacheNodes(o, None))
  <2> DEFINE f == [p \in entries |-> [kind |-> "tcache", user |-> p, expected |-> Unit, actual |-> None]]
  <2>1. DOMAIN f = entries /\ \A y \in TcacheNodes(o, None) : \E p \in entries : y = f[p]
    BY DEF TcacheNodes
  <2> HIDE DEF f, entries
  <2> QED BY <1>2, <2>1, ImageFinite
<1>4. IsFiniteSet(SourceNodes(o, k, None))
  <2> HIDE DEF all
  <2> QED BY <1>1, <1>3, FS_Union DEF SourceNodes, all
<1>5. IsFiniteSet(Memberships(o, k))
  <2> DEFINE ns == SourceNodes(o, k, None)
             f == [n \in ns |-> [kind |-> n.kind, user |-> n.user]]
  <2>1. DOMAIN f = ns /\ \A y \in Memberships(o, k) : \E n \in ns : y = f[n]
    BY DEF Memberships
  <2> HIDE DEF f, ns
  <2> QED BY <1>4, <2>1, ImageFinite DEF ns
<1> QED BY <1>1, <1>5

\* So do the warnings.
LEMMA WarningsFinite ==
  ASSUME NEW k \in [Bins -> Snapshots \cup {None}], NEW o, EntriesIf(o) \in Seq(Nat), NEW t
  PROVE  IsFiniteSet(Warnings(o, k, t))
<1> DEFINE M == Memberships(o, k)
           A == {[kind |-> "allocator_source_conflict", source |-> None, user |-> u] :
                   u \in Conflicts(o, k)}
           B == {[kind |-> "allocator_source_allocated", source |-> None, user |-> m.user] :
                   m \in {x \in M : KnownFreed(t, x.user) = "no"}}
           N == BinNodes(k, "fastbin") \cup BinNodes(k, "smallbin")
           C == {[kind |-> "free_list_size_mismatch", source |-> n.kind, user |-> n.user] :
                   n \in {x \in N : Mismatch(x)}}
<1>1. IsFiniteSet(M)
  BY SourcesFinite
<1>2. IsFiniteSet(A)
  <2> DEFINE f == [m \in M |-> [kind |-> "allocator_source_conflict", source |-> None, user |-> m.user]]
  <2>1. DOMAIN f = M /\ \A y \in A : \E m \in M : y = f[m]
    BY DEF Conflicts
  <2> HIDE DEF f, M, A
  <2> QED BY <1>1, <2>1, ImageFinite
<1>3. IsFiniteSet(B)
  <2> DEFINE f == [m \in M |-> [kind |-> "allocator_source_allocated", source |-> None, user |-> m.user]]
  <2>1. DOMAIN f = M /\ \A y \in B : \E m \in M : y = f[m]
    OBVIOUS
  <2> HIDE DEF f, M, B
  <2> QED BY <1>1, <2>1, ImageFinite
<1>4. IsFiniteSet(C)
  <2>1. IsFiniteSet(N)
    BY NodesFinite, FS_Union DEF Bins
  <2> DEFINE f == [n \in N |-> [kind |-> "free_list_size_mismatch", source |-> n.kind, user |-> n.user]]
  <2>2. DOMAIN f = N /\ \A y \in C : \E n \in N : y = f[n]
    OBVIOUS
  <2> HIDE DEF f, N, C
  <2> QED BY <2>1, <2>2, ImageFinite
<1>5. Warnings(o, k, t) = (A \cup B) \cup C
  BY DEF Warnings
<1> HIDE DEF A, B, C
<1>6. IsFiniteSet(A \cup B)
  BY <1>2, <1>3, FS_Union
<1> QED BY <1>4, <1>5, <1>6, FS_Union

\* Every count of the summary is a number.
LEMMA SummaryTyped ==
  ASSUME NEW k \in [Bins -> Snapshots \cup {None}], NEW o, EntriesIf(o) \in Seq(Nat), NEW t
  PROVE  Summary(o, k, t) \in [Counts -> Nat]
<1> DEFINE users == {n.user : n \in (UNION {BinNodes(k, b) : b \in Bins})}
           all == users \cup ToSet(EntriesIf(o))
           s == Summary(o, k, t)
<1>1. Len(EntriesIf(o)) \in Nat /\ IsFiniteSet(ToSet(EntriesIf(o)))
  BY ElementsFinite
<1>2. \A b \in Bins : Len(Nodes(k[b])) \in Nat
  BY NodesFinite
<1>3. Cardinality(all) \in Nat
  <2> DEFINE N == UNION {BinNodes(k, b) : b \in Bins}
             f == [n \in N |-> n.user]
  <2>1. IsFiniteSet(N)
    BY SourcesFinite
  <2>2. DOMAIN f = N /\ \A y \in users : \E n \in N : y = f[n]
    OBVIOUS
  <2>3. IsFiniteSet(users)
    <3> HIDE DEF f, N, users
    <3> QED BY <2>1, <2>2, ImageFinite
  <2> HIDE DEF users
  <2>4. IsFiniteSet(all)
    BY <1>1, <2>3, FS_Union
  <2> QED BY <2>4, FS_CardinalityType
<1>4. Cardinality(Warnings(o, k, t)) \in Nat
  BY WarningsFinite, FS_CardinalityType
<1>5. s = [tcache   |-> Len(EntriesIf(o)),
           fastbin  |-> Len(Nodes(k["fastbin"])), unsorted |-> Len(Nodes(k["unsorted"])),
           smallbin |-> Len(Nodes(k["smallbin"])), largebin |-> Len(Nodes(k["largebin"])),
           total    |-> Cardinality(all), warnings |-> Cardinality(Warnings(o, k, t))]
  BY DEF Summary
<1>6. \A b \in {"fastbin", "unsorted", "smallbin", "largebin"} : Len(Nodes(k[b])) \in Nat
  BY <1>2 DEF Bins
<1> HIDE DEF all
<1>7. s \in [tcache : Nat, fastbin : Nat, unsorted : Nat, smallbin : Nat, largebin : Nat,
             total : Nat, warnings : Nat]
  BY <1>1, <1>3, <1>4, <1>5, <1>6
<1> HIDE DEF s
<1>8. s \in [Counts -> Nat]
  BY <1>7 DEF Counts
<1> QED BY <1>8 DEF s

\* What the observed tcache holds: addresses, and the last one freed among them.
Sighted(o) ==
  /\ o.head = None \/ o.head \in DOMAIN o.next
  /\ DOMAIN o.next \subseteq Nat /\ \A p \in DOMAIN o.next : o.next[p] \in Nat

\* Its chain lists addresses.
LEMMA EntriesTyped ==
  ASSUME NEW o, Sighted(o), NEW c \in BOOLEAN
  PROVE  EntriesIf(OnlyIf(c, o)) \in Seq(Nat)
<1> DEFINE E == {"reading", "truncated", "complete", "unknown_next"}
           R == [cur : Nat, entries : Seq(Nat), end : E]
           D == {r \in R : r.end = "reading" => r.cur \in DOMAIN o.next}
           b == [cur |-> o.head, entries |-> <<>>, end |-> "reading"]
<1>1. \A p \in DOMAIN o.next : p \in Nat /\ o.next[p] \in Nat
  BY DEF Sighted
<1>2. ASSUME o.head # None PROVE b \in D
  BY <1>1, <1>2 DEF Sighted
<1>3. ASSUME NEW r \in D PROVE ObservedStep(o, r) \in D
  <2>1. r \in R /\ (r.end = "reading" => r.cur \in DOMAIN o.next /\ o.next[r.cur] \in Nat)
    BY <1>1, <1>3
  <2>2. r.cur \in Nat /\ r.entries \in Seq(Nat)
    BY <2>1
  <2> DEFINE entries == Append(r.entries, r.cur)
             next == o.next[r.cur]
  <2>3. CASE r.end # "reading"
    BY <1>3, <2>3 DEF ObservedStep
  <2>4. CASE r.end = "reading" /\ r.cur \in ToSet(r.entries)
    <3>1. ObservedStep(o, r) = [r EXCEPT !.end = "truncated"]
      BY <2>4 DEF ObservedStep
    <3> QED BY <2>1, <3>1
  <2>5. CASE r.end = "reading" /\ r.cur \notin ToSet(r.entries)
    <3>1. next \in Nat /\ entries \in Seq(Nat)
      BY <2>1, <2>2, <2>5
    <3>2. ObservedStep(o, r) =
            IF Len(entries) >= TcacheLimit THEN [cur |-> r.cur, entries |-> entries, end |-> "truncated"]
            ELSE IF next = NULL THEN [cur |-> r.cur, entries |-> entries, end |-> "complete"]
            ELSE IF next \notin DOMAIN o.next
              THEN [cur |-> r.cur, entries |-> Append(entries, next), end |-> "unknown_next"]
            ELSE [cur |-> next, entries |-> entries, end |-> "reading"]
      BY <2>5 DEF ObservedStep
    <3> HIDE DEF entries, next
    <3>3. Append(entries, next) \in Seq(Nat)
      BY <3>1
    <3> QED BY <2>2, <3>1, <3>2, <3>3
  <2> QED BY <2>3, <2>4, <2>5
<1>4. Entries(o) \in Seq(Nat)
  <2>1. CASE o.head = None
    BY <2>1 DEF Entries
  <2>2. CASE o.head # None
    <3>1. ObservedChain(o) \in D
      <4>1. b \in D /\ \A r \in D : ObservedStep(o, r) \in D
        BY <1>2, <1>3, <2>2
      <4> HIDE DEF D
      <4> QED BY <2>2, <4>1, ObservedMade
    <3>2. ObservedChain(o).entries \in Seq(Nat)
      BY <3>1
    <3> QED BY <2>2, <3>2 DEF Entries
  <2> QED BY <2>1, <2>2
<1>5. EntriesIf(o) \in Seq(Nat) /\ EntriesIf(None) \in Seq(Nat)
  BY <1>4 DEF EntriesIf
<1> QED BY <1>5 DEF OnlyIf

\* A free, looked at, leaves addresses.
LEMMA FreeSighted ==
  ASSUME NEW h, WellFormed(h), NEW c \in Carved(h), NEW o, Sighted(o)
  PROVE  Sighted(ObserveEvent(o, h, c))
<1>1. c \in Nat /\ Readable(h, UserOf(c))
  <2>1. \E walk : walk.end = h.brk
    <3>1. [end |-> h.brk].end = h.brk
      OBVIOUS
    <3> QED BY <3>1
  <2> QED BY <2>1, ChunkReadable
<1>2. UserOf(c) \in Nat /\ Word(h, UserOf(c)) \in Nat
  <2>1. UserOf(c) \in Nat
    BY <1>1 DEF UserOf, Header
  <2> QED BY <1>1, <2>1, WordTyped
<1>3. Reveal(Word(h, UserOf(c))) \in Nat
  BY <1>2 DEF Reveal, Key, Wild
<1> PICK u \in Nat : u = UserOf(c)
  BY <1>2
<1> PICK q \in Nat : q = Reveal(Word(h, UserOf(c)))
  BY <1>3
<1>4. Sighted(ObserveFree(o, u, q))
  BY DEF Sighted, ObserveFree, Link
<1> QED BY <1>4 DEF ObserveEvent

\* The types, and what the summary counts.
Typed == TypeOK /\ Sighted(observed)

\* What an event leaves observed holds addresses.
LEMMA ToldSighted ==
  ASSUME Inv, Typed, TracedMalloc \/ TracedFree \/ TracedRealloc \/ TracedNull,
         NEW h, NEW t, NEW o, NEW e, Told(h, t, o, e)
  PROVE  Sighted(o)
<1>1. observed' = o
  BY EmitSets DEF Told
<1>2. WellFormed(heap) /\ \A x, y, q, z : Emit(x, y, q, z) => observed' = q
  BY EmitSets DEF Inv
<1>3. CASE TracedFree
  <2>1. PICK c \in Freeable(heap) :
           observed' = ObserveEvent(observed, Given(heap, c), c)
    BY <1>2, <1>3 DEF TracedFree
  <2>2. WellFormed(Given(heap, c)) /\ c \in Carved(Given(heap, c))
    BY <1>2, ChunkGiven DEF Takes
  <2> QED BY <1>1, <2>1, <2>2, FreeSighted DEF Typed
<1>4. CASE TracedMalloc \/ TracedRealloc \/ TracedNull
  <2>1. observed' = observed
    BY <1>2, <1>4 DEF TracedMalloc, TracedRealloc, TracedNull
  <2> QED BY <1>1, <2>1 DEF Typed
<1> QED BY <1>3, <1>4

\* What is summed up of an event.
LEMMA SummaryCounted ==
  ASSUME Inv, NEW h, NEW t, NEW o, NEW e, Told(h, t, o, e), Sighted(o)
  PROVE  Summary(Seen(o), kept', t) \in [Counts -> Nat]
<1>1. kept' \in [Bins -> Snapshots \cup {None}]
  BY ToldKeeps DEF Inv
<1>2. EntriesIf(Seen(o)) \in Seq(Nat)
  <2>1. Shows("tcache") \in BOOLEAN
    BY DEF Shows
  <2> QED BY <2>1, EntriesTyped DEF Seen
<1>3. PICK k \in [Bins -> Snapshots \cup {None}] : k = kept'
  BY <1>1
<1> QED BY <1>2, <1>3, SummaryTyped

\* What an event tells has its types.
LEMMA ToldTyped ==
  ASSUME Inv, Typed, NEW h, NEW t, NEW o, NEW e, Told(h, t, o, e), Sighted(o)
  PROVE  /\ Sighted(observed')
         /\ DOMAIN kept' = Bins /\ DOMAIN wasIn' = Bins
         /\ summary' # None => summary' \in [Counts -> Nat]
         /\ printed' \subseteq ToldOnce
         /\ \A i \in DOMAIN related' : related'[i].kind \in Kinds /\ related'[i].event = events'
         /\ matched' # None => matched' \in ToSet(config'.breaks)
<1> DEFINE walk == Snapshot(h, Discovered(h))
           report == ReportOn(h, t, o, OnlyIf("chunks" \in config.texts, walk), kept')
           sum == Summary(Seen(o), kept', t)
<1>1. Emit(h, t, o, e) /\ config' = config
  BY DEF Told
<1>2. /\ observed' = o /\ DOMAIN kept' = Bins /\ DOMAIN wasIn' = Bins
      /\ summary' = OnlyIf(WarningsOn, sum)
      /\ printed' = printed \cup (ToldOnce \cap {related'[i].kind : i \in DOMAIN related'})
  BY <1>1, EmitSets DEF Tell
<1>3. Telling(related', Kinds, events') /\ matched' = StopOn(e, report)
  BY EventRelated
<1>4. sum \in [Counts -> Nat]
  BY SummaryCounted
<1>5. matched' # None => matched' \in ToSet(config.breaks)
  <2> HIDE DEF report
  <2> QED BY <1>3, StopMet
<1>6. \A i \in DOMAIN related' : related'[i].kind \in Kinds /\ related'[i].event = events'
  BY <1>3 DEF Telling, ToSet
<1>7. printed' \subseteq ToldOnce
  BY <1>2 DEF Typed, TypeOK
<1> HIDE DEF sum
<1> QED BY <1>1, <1>2, <1>4, <1>5, <1>6, <1>7 DEF OnlyIf

\* No step leaves the types.
LEMMA TypedAlways == Spec => []Typed
<1>1. Init => Typed
  <2> SUFFICES ASSUME Init PROVE Typed
    OBVIOUS
  <2>1. TypeOK
    BY BoundsAreNumbers DEF Init, TypeOK
  <2>2. Sighted(observed)
    BY DEF Init, Sighted, NoFrees
  <2> QED BY <2>1, <2>2 DEF Typed
<1>2. Inv /\ Inv' /\ Typed /\ [Next]_vars => Typed'
  <2> SUFFICES ASSUME Inv, Inv', Typed, [Next]_vars PROVE Typed'
    OBVIOUS
  <2>0. WellFormed(heap) /\ mapping' \in Nat \cup {None} /\ setup' \in Setups
    BY DEF Inv
  <2>1. CASE TracedMalloc \/ TracedFree \/ TracedRealloc \/ TracedNull
    <3>1. /\ events' \in 0 .. MaxEvents /\ hiddenCalls' \in 0 .. MaxHidden
      <4>1. events + hiddenCalls < Bound /\ events' = events + 1 /\ hiddenCalls' = hiddenCalls
        BY <2>1 DEF TracedMalloc, TracedFree, TracedRealloc, TracedNull, Event
      <4>2. Bound \in Nat /\ Bound <= MaxEvents
        BY BoundsAreNumbers DEF Bound
      <4> QED BY <4>1, <4>2, BoundsAreNumbers DEF Typed, TypeOK
    <3>2. hidden' \subseteq Slots /\ unseen' \subseteq Slots
      BY <2>1 DEF TracedMalloc, TracedFree, TracedRealloc, TracedNull, Typed, TypeOK, Freeable, InUse
    <3>3. \E h, t, o, e : Told(h, t, o, e)
      BY <2>1, EventTold
    <3>4. ASSUME NEW h, NEW t, NEW o, NEW e, Told(h, t, o, e) PROVE Sighted(o)
      BY <2>1, <3>4, ToldSighted
    <3>5. PICK h, t, o, e : Told(h, t, o, e)
      BY <3>3
    <3>6. Sighted(o)
      BY <3>4, <3>5
    <3> QED BY <2>0, <3>1, <3>2, <3>5, <3>6, ToldTyped DEF Typed, TypeOK
  <2>2. CASE UntracedMalloc \/ UntracedFree
    <3>1. hiddenCalls' = hiddenCalls + 1 /\ hiddenCalls < MaxHidden /\ UNCHANGED <<config, events, trace>>
      BY <2>2 DEF UntracedMalloc, UntracedFree, Hidden
    <3>2. hiddenCalls' \in 0 .. MaxHidden
      BY <3>1, BoundsAreNumbers DEF Typed, TypeOK
    <3>3. hidden' \subseteq Slots /\ unseen' \subseteq Slots
      <4>1. CASE UntracedMalloc
        <5>1. PICK s \in Served(heap) : hidden' = hidden \cup {s.chunk} /\ unseen' = unseen
          BY <4>1 DEF UntracedMalloc
        <5>2. s.chunk \in Slots
          BY <2>0, ChunkServed DEF Serves, Carved
        <5> QED BY <5>1, <5>2 DEF Typed, TypeOK
      <4>2. CASE UntracedFree
        BY <4>2 DEF UntracedFree, Typed, TypeOK, Freeable, InUse
      <4> QED BY <2>2, <4>1, <4>2
    <3> QED BY <2>0, <3>1, <3>2, <3>3 DEF Typed, TypeOK, trace
  <2>3. CASE Overwrite
    BY <2>3 DEF Overwrite, Typed, TypeOK, trace
  <2>4. CASE UNCHANGED vars
    BY <2>4 DEF vars, world, trace, Typed, TypeOK
  <2> QED BY <2>1, <2>2, <2>3, <2>4 DEF Next
<1> QED BY <1>1, <1>2, InvAlways, PTL DEF Spec

\* The evidence has its types; no running count of chunks is negative, every record told
\* carries the number of the last event, and a stop is one that was asked for
\* (app.rs:7043-7292, allocator_sources.rs:30-60).
THEOREM TypeAlways == Spec => []TypeOK
<1>1. Typed => TypeOK
  BY DEF Typed
<1> QED BY <1>1, TypedAlways, PTL

-----------------------------------------------------------------------------
(* What a reading of a fastbin can be trusted for                          *)

\* Each chunk is met once, and a reading that came to an end read the last link.
ReadOnceOnly(h, walk, t, r) ==
  /\ \A i \in DOMAIN r.nodes : r.nodes[i] = Node(h, walk, t, r.nodes[i].chunk)
  /\ \A i, j \in DOMAIN r.nodes : r.nodes[i].chunk = r.nodes[j].chunk => i = j
  /\ r.end = "complete" => r.nodes # <<>> /\ Reveal(Last(r.nodes).fd) = NULL

\* A node more.
LEMMA NodeAdded ==
  ASSUME NEW S, NEW w \in Seq(S), NEW x \in S
  PROVE  /\ Append(w, x) \in Seq(S) /\ Len(Append(w, x)) = Len(w) + 1 /\ Len(w) \in Nat
         /\ DOMAIN w = 1 .. Len(w) /\ DOMAIN Append(w, x) = 1 .. Len(w) + 1
         /\ \A i \in 1 .. Len(w) : Append(w, x)[i] = w[i]
         /\ Append(w, x)[Len(w) + 1] = x /\ Last(Append(w, x)) = x /\ Append(w, x) # <<>>
BY DEF Last

\* Every step of the reader keeps it so.
LEMMA FastbinOnce ==
  ASSUME NEW h, WellFormed(h), NEW walk \in Walks, NEW t, NEW r \in Readings, ReadOnceOnly(h, walk, t, r)
  PROVE  ReadOnceOnly(h, walk, t, FastbinStep(h, walk, t, r))
<1> DEFINE node == Node(h, walk, t, r.cur)
           w == r.nodes
           z == Append(w, node)
           S == ChainNodes
<1>1. w \in Seq(S) /\ r.cur \in Nat
  BY DEF Readings
<1>2. CASE r.end # "reading"
  BY <1>2 DEF FastbinStep
<1>3. ASSUME NEW end, end # "complete" PROVE ReadOnceOnly(h, walk, t, Stop(r, end))
  BY <1>3 DEF ReadOnceOnly, Stop
<1>4. CASE /\ r.end = "reading" /\ ~(Len(w) >= ChainLimit) /\ r.cur \notin Visited(w)
           /\ Readable(h, UserOf(r.cur))
  <2>1. FastbinStep(h, walk, t, r) = Follow(r, node, Reveal(node.fd), NULL, walk)
    BY <1>4 DEF FastbinStep, FollowHidden
  <2>2. node \in S
    BY <1>1, <1>4, NodeTyped
  <2>3. node.chunk = r.cur
    BY DEF Node
  <2>4. /\ \A i \in DOMAIN w : w[i] = Node(h, walk, t, w[i].chunk)
        /\ \A i, j \in DOMAIN w : w[i].chunk = w[j].chunk => i = j
    BY DEF ReadOnceOnly
  <2>5. \A i \in DOMAIN w : w[i].chunk # r.cur
    BY <1>4 DEF Visited
  <2>6. node = Node(h, walk, t, node.chunk)
    BY <2>3
  <2> DEFINE q == Follow(r, node, Reveal(node.fd), NULL, walk)
  <2>7. q.nodes = z /\ (q.end = "complete" => Reveal(node.fd) = NULL)
    BY DEF Follow
  <2> HIDE DEF node, S, w
  <2>8. /\ Len(w) \in Nat /\ DOMAIN w = 1 .. Len(w) /\ DOMAIN z = 1 .. Len(w) + 1
        /\ \A i \in 1 .. Len(w) : z[i] = w[i]
        /\ z[Len(w) + 1] = node /\ Last(z) = node /\ z # <<>>
    BY <1>1, <2>2, NodeAdded
  <2> HIDE DEF z, q
  <2>9. \A i \in DOMAIN z : z[i] = Node(h, walk, t, z[i].chunk)
    BY <2>4, <2>6, <2>8
  <2>10. ASSUME NEW i \in DOMAIN z, NEW j \in DOMAIN z, z[i].chunk = z[j].chunk PROVE i = j
    <3>1. i \in 1 .. Len(w) \/ i = Len(w) + 1
      BY <2>8
    <3>2. j \in 1 .. Len(w) \/ j = Len(w) + 1
      BY <2>8
    <3> QED BY <2>3, <2>4, <2>5, <2>8, <2>10, <3>1, <3>2
  <2>11. ReadOnceOnly(h, walk, t, q)
    BY <2>7, <2>8, <2>9, <2>10 DEF ReadOnceOnly
  <2> QED BY <2>1, <2>11 DEF q, node
<1> QED BY <1>2, <1>3, <1>4 DEF FastbinStep

\* So it is of a whole chain.
LEMMA ChainOnce ==
  ASSUME NEW h, WellFormed(h), NEW walk \in Walks, NEW t, NEW head \in Nat
  PROVE  \E r \in Readings :
           FastbinChain(h, walk, t, head) = FastbinOf(head, r) /\ ReadOnceOnly(h, walk, t, r)
<1> DEFINE N == ChainLimit + 1
<1>1. PICK f : /\ ReadsFastbin(f, h, walk, t, head)
               /\ FastbinChain(h, walk, t, head) = FastbinOf(head, f[ChainLimit + 1])
  BY FastbinMade
<1>2. N \in Nat /\ N \in 0 .. N
  BY ChainBound
<1>3. f \in [0 .. N -> Readings] /\ f[0] = Begin(head)
      /\ \A n \in 1 .. N : f[n] = FastbinStep(h, walk, t, f[n - 1])
  BY <1>1 DEF ReadsFastbin
<1> DEFINE S == {n \in 0 .. N : ReadOnceOnly(h, walk, t, f[n])}
<1>4. 0 \in S
  <2>1. ReadOnceOnly(h, walk, t, Begin(head))
    BY DEF ReadOnceOnly, Begin
  <2> QED BY <1>2, <1>3, <2>1
<1>5. ASSUME NEW n \in 0 .. N - 1, n \in S PROVE n + 1 \in S
  <2>1. PICK m \in 1 .. N : m = n + 1 /\ m - 1 = n /\ m \in 0 .. N
    BY <1>2
  <2>2. PICK r \in Readings : r = f[m - 1]
    BY <1>2, <1>3, <2>1
  <2>3. ReadOnceOnly(h, walk, t, FastbinStep(h, walk, t, r))
    BY <1>5, <2>1, <2>2, FastbinOnce
  <2> QED BY <1>3, <2>1, <2>2, <2>3
<1> HIDE DEF S, N
<1>6. N \in S
  BY <1>2, <1>4, <1>5, Induct
<1> QED BY <1>1, <1>2, <1>3, <1>6 DEF S, N

\* A plausible answer to whether the chunks are free is a yes of each.
LEMMA EachYes ==
  ASSUME NEW nodes \in Seq(ChainNodes), NEW vacuous,
         FirstDoubt(FreedAnswers(nodes), vacuous) \notin {"no", "unknown"}
  PROVE  /\ \A i \in DOMAIN nodes : nodes[i].freed = "yes"
         /\ vacuous = "unknown" => nodes # <<>>
<1> DEFINE answers == FreedAnswers(nodes)
           doubts == {i \in DOMAIN answers : answers[i] # "yes"}
           S == ChainNodes
<1>1. nodes \in Seq(S) /\ \A x \in S : x.freed \in {"yes", "no", "unknown"}
  BY DEF ChainNodes, Answers
<1>2. DOMAIN answers = DOMAIN nodes /\ \A i \in DOMAIN nodes : answers[i] = nodes[i].freed
  BY DEF FreedAnswers
<1> HIDE DEF S
<1>3. DOMAIN nodes = 1 .. Len(nodes) /\ Len(nodes) \in Nat /\ \A i \in DOMAIN nodes : nodes[i] \in S
  BY <1>1
<1>4. \A i \in DOMAIN answers : answers[i] \in {"yes", "no", "unknown"}
  BY <1>1, <1>2, <1>3
<1>5. FirstDoubt(answers, vacuous) = IF doubts # {} THEN answers[Min(doubts)]
                                     ELSE IF answers = <<>> THEN vacuous ELSE "yes"
  BY DEF FirstDoubt
<1> HIDE DEF answers
<1>6. doubts = {}
  <2> SUFFICES ASSUME doubts # {} PROVE FALSE
    OBVIOUS
  <2>1. doubts \in SUBSET Nat
    BY <1>2, <1>3
  <2>2. \A i \in doubts : answers[i] \in {"no", "unknown"}
    BY <1>4
  <2> HIDE DEF doubts
  <2>3. Min(doubts) \in doubts
    <3>1. \E m \in doubts : \A n \in doubts : m <= n
      BY <2>1, LeastNumber
    <3> QED BY <3>1 DEF Min
  <2> QED BY <1>5, <2>2, <2>3 DEF answers
<1>7. \A i \in DOMAIN nodes : nodes[i].freed = "yes"
  BY <1>2, <1>6
<1>8. ASSUME vacuous = "unknown" PROVE nodes # <<>>
  <2> SUFFICES ASSUME nodes = <<>> PROVE FALSE
    OBVIOUS
  <2>1. answers = <<>>
    BY DEF answers, FreedAnswers
  <2> QED BY <1>5, <1>6, <1>8, <2>1 DEF answers
<1> QED BY <1>7, <1>8

\* The chunks of some nodes, met once each.
LEMMA ChunksCounted ==
  ASSUME NEW nodes \in Seq(ChainNodes), \A i, j \in DOMAIN nodes : nodes[i].chunk = nodes[j].chunk => i = j,
         nodes # <<>>
  PROVE  LET chunks == [i \in DOMAIN nodes |-> nodes[i].chunk]
         IN  /\ chunks \in Seq(Nat) /\ Len(chunks) = Len(nodes) /\ DOMAIN chunks = DOMAIN nodes
             /\ Cardinality(ToSet(chunks)) = Len(chunks)
             /\ Last(chunks) = Last(nodes).chunk
             /\ Last(nodes) = nodes[Len(nodes)] /\ Len(nodes) \in DOMAIN nodes
<1> DEFINE S == ChainNodes
           n == Len(nodes)
           chunks == [i \in DOMAIN nodes |-> nodes[i].chunk]
           R == ToSet(chunks)
<1>1. nodes \in Seq(S) /\ \A x \in S : x.chunk \in Nat
  BY DEF ChainNodes
<1> HIDE DEF S
<1>2. DOMAIN nodes = 1 .. n /\ n \in Nat /\ n > 0 /\ \A i \in 1 .. n : nodes[i].chunk \in Nat
  BY <1>1
<1>3. /\ chunks = [i \in 1 .. n |-> nodes[i].chunk] /\ DOMAIN chunks = 1 .. n
      /\ \A i \in 1 .. n : chunks[i] = nodes[i].chunk
  BY <1>2
<1> HIDE DEF n
<1>4. chunks \in Seq(Nat) /\ Len(chunks) = n
  <2>1. chunks \in [1 .. n -> Nat]
    BY <1>2, <1>3
  <2> HIDE DEF chunks
  <2> QED BY <1>2, <2>1
<1> HIDE DEF chunks
<1>5. Cardinality(R) = n
  <2>1. chunks \in Bijection(1 .. n, R)
    <3>1. R = {chunks[i] : i \in 1 .. n}
      BY <1>3 DEF ToSet
    <3>2. chunks \in [1 .. n -> R]
      BY <1>2, <1>3, <1>4, <3>1
    <3>3. \A i, j \in 1 .. n : chunks[i] = chunks[j] => i = j
      BY <1>2, <1>3
    <3>4. \A y \in R : \E i \in 1 .. n : chunks[i] = y
      BY <3>1
    <3> HIDE DEF R
    <3> QED BY <3>2, <3>3, <3>4 DEF Bijection, Injection, Surjection, IsInjective
  <2>2. IsFiniteSet(1 .. n) /\ Cardinality(1 .. n) = n
    BY <1>2, FS_Interval
  <2> HIDE DEF R
  <2> QED BY <2>1, <2>2, FS_Bijection DEF ExistsBijection
<1>6. Last(chunks) = chunks[n] /\ Last(nodes) = nodes[n] /\ n \in 1 .. n
  BY <1>2, <1>4 DEF Last, n
<1> QED BY <1>2, <1>3, <1>4, <1>5, <1>6 DEF chunks, n

\* What a fastbin called plausible was read as.
LEMMA FastbinVouched ==
  ASSUME NEW h, WellFormed(h), NEW walk \in Walks, NEW t, NEW limit \in Nat,
         ReadBin(h, walk, t, limit, "fastbin").verdict = "plausible"
  PROVE  LET nodes == Nodes(ReadBin(h, walk, t, limit, "fastbin"))
         IN  /\ nodes \in Seq(ChainNodes) /\ nodes # <<>>
             /\ \A i \in DOMAIN nodes : nodes[i] = Node(h, walk, t, nodes[i].chunk) /\ nodes[i].freed = "yes"
             /\ \A i, j \in DOMAIN nodes : nodes[i].chunk = nodes[j].chunk => i = j
             /\ Reveal(Last(nodes).fd) = NULL
<1> DEFINE s == ReadBin(h, walk, t, limit, "fastbin")
           head == HeadOf(h, "fastbin")
<1>1. "fastbin" \in Bins /\ head \in Nat
  BY EndsTyped DEF Bins
<1>2. PICK r \in Readings : FastbinChain(h, walk, t, head) = FastbinOf(head, r) /\ ReadOnceOnly(h, walk, t, r)
  BY <1>1, ChainOnce
<1>3. PICK chain \in {None, FastbinChain(h, walk, t, head)} : s = Judged("fastbin", chain, walk.end)
  BY <1>1, ChainRead
<1>4. FastbinChain(h, walk, t, head) \in Chains
  BY <1>1, ReadersTyped
<1> HIDE DEF head
<1>5. s.chain = chain /\ s # None /\ (chain = None => s.verdict = None)
  <2> HIDE DEF s
  <2> QED BY <1>1, <1>3, <1>4, JudgedTyped
<1>6. chain # None
  <2>1. None # "plausible"
    BY NoneIsNoSnapshot DEF Verdicts
  <2> QED BY <1>5, <2>1
<1>7. /\ chain = FastbinOf(head, r) /\ chain.nodes = r.nodes /\ chain.end = r.end
      /\ s.verdict = ValidateFastbins(chain, walk.end)
  BY <1>2, <1>3, <1>6 DEF Judged, FastbinOf
<1> HIDE DEF s
<1>8. ValidateFastbins(chain, walk.end) = "plausible"
  BY <1>7 DEF s
<1>9. /\ FirstDoubt(FreedAnswers(chain.nodes), "unknown") \notin {"no", "unknown"}
      /\ ChainComplete(chain.end) \notin {"no", "unknown"}
  BY <1>8, VerdictTyped DEF ValidateFastbins
<1>10. r.end = "complete"
  BY <1>7, <1>9 DEF ChainComplete
<1>11. r.nodes \in Seq(ChainNodes)
  BY DEF Readings
<1>12. (\A i \in DOMAIN r.nodes : r.nodes[i].freed = "yes") /\ r.nodes # <<>>
  BY <1>7, <1>9, <1>11, EachYes
<1>13. Nodes(s) = r.nodes
  BY <1>5, <1>6, <1>7 DEF Nodes
<1>14. /\ \A i \in DOMAIN r.nodes : r.nodes[i] = Node(h, walk, t, r.nodes[i].chunk)
       /\ \A i, j \in DOMAIN r.nodes : r.nodes[i].chunk = r.nodes[j].chunk => i = j
       /\ Reveal(Last(r.nodes).fd) = NULL
  BY <1>2, <1>10 DEF ReadOnceOnly
<1> QED BY <1>11, <1>12, <1>13, <1>14 DEF s

\* A fastbin has no links back, and one of its links may be overwritten: with every call
\* traced it is still called plausible only if each chunk read is really free and met
\* once, and the last one ends the chain (lib.rs:4651-4715, glibc.rs:1107-1210).
THEOREM FastbinAlways == Spec => []VouchedFastbinEnds
<1>1. Inv => VouchedFastbinEnds
  <2> SUFFICES ASSUME Inv, mapping # None, hiddenCalls = 0, Fresh("fastbin").verdict = "plausible"
               PROVE  EndsSoundly(ChunksOf(Fresh("fastbin")))
    BY DEF VouchedFastbinEnds
  <2>1. WellFormed(heap) /\ Tracks(tracked, heap) /\ mapping \in Nat
    BY DEF Inv, Traced
  <2>2. PICK limit \in Nat : limit = L!Limit(config)
    BY OptionsTyped DEF Inv
  <2>3. PICK walk \in Walks : walk = Walk(heap, mapping)
    BY <2>1, WalkTyped
  <2> DEFINE s == Fresh("fastbin")
             nodes == Nodes(s)
             chunks == ChunksOf(s)
  <2>4. s = ReadBin(heap, walk, tracked, limit, "fastbin")
    BY <2>2, <2>3 DEF Fresh
  <2>5. /\ nodes \in Seq(ChainNodes) /\ nodes # <<>>
        /\ \A i \in DOMAIN nodes :
             nodes[i] = Node(heap, walk, tracked, nodes[i].chunk) /\ nodes[i].freed = "yes"
        /\ \A i, j \in DOMAIN nodes : nodes[i].chunk = nodes[j].chunk => i = j
        /\ Reveal(Last(nodes).fd) = NULL
    <3> HIDE DEF s
    <3> QED BY <2>1, <2>4, FastbinVouched DEF s
  <2>6. chunks = [i \in DOMAIN nodes |-> nodes[i].chunk]
    BY DEF ChunksOf
  <2> HIDE DEF s, nodes, chunks
  <2>7. /\ DOMAIN chunks = DOMAIN nodes /\ Cardinality(ToSet(chunks)) = Len(chunks)
        /\ Last(chunks) = Last(nodes).chunk /\ Last(nodes) = nodes[Len(nodes)]
        /\ Len(nodes) \in DOMAIN nodes
    BY <2>5, <2>6, ChunksCounted
  <2>8. \A i \in DOMAIN nodes : nodes[i].chunk \in Free(heap)
    <3> SUFFICES ASSUME NEW i \in DOMAIN nodes PROVE nodes[i].chunk \in Free(heap)
      OBVIOUS
    <3> PICK c : c = nodes[i].chunk
      OBVIOUS
    <3>1. nodes[i] = Node(heap, walk, tracked, c) /\ nodes[i].freed = "yes"
      BY <2>5
    <3>2. KnownFreed(tracked, UserOf(c)) = "yes"
      BY <3>1 DEF Node
    <3>3. UserOf(c) \in DOMAIN tracked
      BY <3>2 DEF KnownFreed
    <3>4. PICK d \in Carved(heap) : UserOf(c) = UserOf(d)
      BY <2>1, <3>3 DEF Tracks
    <3>5. c = d
      <4>1. c \in Nat
        <5> DEFINE S == ChainNodes
        <5>1. nodes \in Seq(S) /\ \A x \in S : x.chunk \in Nat
          BY <2>5 DEF ChainNodes
        <5> HIDE DEF S
        <5>2. nodes[i] \in S
          BY <5>1
        <5> QED BY <5>1, <5>2
      <4>2. d \in Nat
        BY SlotsPlaced DEF Carved
      <4> QED BY <3>4, <4>1, <4>2 DEF UserOf, Header
    <3>6. d \in Free(heap)
      BY <2>1, <3>2, <3>4, HeldKnown
    <3> QED BY <3>5, <3>6
  <2>9. ToSet(chunks) \subseteq Free(heap)
    BY <2>6, <2>7, <2>8 DEF ToSet
  <2>10. Last(nodes).fd = Word(heap, UserOf(Last(chunks)))
    <3>1. Last(nodes) = Node(heap, walk, tracked, Last(chunks))
      BY <2>5, <2>7
    <3> QED BY <3>1 DEF Node
  <2>11. EndsSoundly(chunks)
    BY <2>5, <2>7, <2>9, <2>10 DEF EndsSoundly
  <2> QED BY <2>11 DEF chunks, s
<1> QED BY <1>1, InvAlways, PTL

-----------------------------------------------------------------------------
(* What a reading of a linked bin can be trusted for                       *)

\* Nothing is kept in the first word of a chunk's header.
LEMMA HeaderWord ==
  ASSUME NEW h, WellFormed(h), NEW j \in Nat
  PROVE  Written(h, 6 * j) = NULL
<1>1. \A k \in Nat : 6 * j # 6 * k + 1 /\ 6 * j # 6 * k + 2 /\ 6 * j # 6 * k + 3
  OBVIOUS
<1>2. ASSUME NEW c \in Slots PROVE 6 * j # c + 1 /\ 6 * j # UserOf(c) /\ 6 * j # UserOf(c) + 1
  <2>1. PICK k \in 1 .. Chunks : c = 6 * k
    BY SlotsPlaced
  <2>2. k \in Nat /\ UserOf(c) = 6 * k + 2 /\ UserOf(c) + 1 = 6 * k + 3
    BY <2>1, HeapBounds DEF UserOf, Header
  <2> QED BY <1>1, <2>1, <2>2
<1>3. 6 * j # Top(h) + 1
  <2>1. h.carved \in Nat /\ Top(h) = 6 * h.carved + 6
    BY HeapTyped
  <2>2. PICK k \in Nat : k = h.carved + 1
    BY <2>1
  <2>3. Top(h) = 6 * k
    BY <2>1, <2>2
  <2> QED BY <1>1, <2>3
<1>4. Free(h) \subseteq Slots
  BY FreeCarved DEF Carved
<1> PICK a : a = 6 * j
  OBVIOUS
<1>5. /\ ~\E c \in Slots : c < Top(h) /\ a = c + 1
      /\ a # Top(h) + 1
      /\ ~\E c \in Free(h) : a = UserOf(c)
      /\ ~\E c \in Free(h) : a = UserOf(c) + 1
  BY <1>2, <1>3, <1>4
<1>6. Written(h, a) = NULL
  BY <1>5 DEF Written
<1> QED BY <1>6

\* Where the back link of x leads to the chunk c of a bin whose forward link is
\* overwritten, x comes after c, or has no forward link.
LEMMA BackLink ==
  ASSUME NEW h, WellFormed(h), h.skew = 0, NEW b \in Linked, NEW k \in DOMAIN h.lists[b],
         NEW x \in Nat, x % 2 = 0, 6 <= x, h.bad # None, h.bad.at = UserOf(h.lists[b][k]),
         Word(h, UserOf(x) + 1) = h.lists[b][k]
  PROVE  (k + 1 \in DOMAIN h.lists[b] /\ x = h.lists[b][k + 1]) \/ Word(h, UserOf(x)) = NULL
<1> DEFINE c == h.lists[b][k]
           a == UserOf(x) + 1
<1>1. b \in Lists /\ b \in Bins
  BY DEF Linked, Lists
<1>2. c \in Carved(h)
  BY <1>1, FreeCarved
<1>3. PICK m \in 1 .. Chunks : c = 6 * m
  BY <1>2, SlotsPlaced DEF Carved
<1>4. m \in Nat /\ UserOf(c) = 6 * m + 2 /\ UserOf(x) = x + 2 /\ a = x + 3 /\ c \in Nat /\ 6 <= c
  BY <1>3, HeapBounds DEF UserOf, Header
<1>5. c < Top(h) /\ Top(h) <= h.brk /\ h.brk \in Nat /\ h.brk < 1000 /\ Top(h) \in Nat
  BY <1>2, HeapTyped, SMTT(30) DEF Carved
<1>6. Readable(h, a) /\ Readable(h, UserOf(x))
  <2>1. Word(h, a) # None
    BY <1>4, NoneIsNothing
  <2>2. a \in Nat /\ UserOf(x) \in Nat
    BY <1>4
  <2>3. Readable(h, a)
    BY <2>1 DEF Word
  <2>4. 6 <= a /\ a < h.brk
    BY <2>2, <2>3, WordTyped
  <2>5. 6 <= UserOf(x) /\ UserOf(x) < h.brk
    BY <1>4, <1>5, <2>4
  <2> QED BY <2>2, <2>3, <2>5, WordTyped
<1>7. Written(h, a) = c
  <2>1. a # UserOf(c)
    BY <1>4
  <2> QED BY <1>6, <2>1 DEF Word
<1>8. Free(h) \subseteq Slots
  BY FreeCarved DEF Carved
<1>9. ASSUME NEW j \in Nat, UserOf(x) = 6 * j PROVE Word(h, UserOf(x)) = NULL
  <2>1. 6 * j # 6 * m + 2
    BY <1>4
  <2>2. Written(h, UserOf(x)) = NULL
    BY <1>9, HeaderWord
  <2> QED BY <1>4, <1>6, <1>9, <2>1, <2>2 DEF Word
<1>10. CASE \E d \in Slots : d < Top(h) /\ a = d + 1
  <2>1. PICK d \in Slots : a = d + 1
    BY <1>10
  <2>2. PICK j \in 1 .. Chunks : d = 6 * j
    BY SlotsPlaced
  <2>3. j \in Nat /\ UserOf(x) = 6 * j
    BY <1>4, <2>1, <2>2, HeapBounds
  <2> QED BY <1>9, <2>3
<1>11. CASE a = Top(h) + 1
  <2>1. h.carved \in Nat /\ Top(h) = 6 * h.carved + 6
    BY HeapTyped
  <2>2. PICK j \in Nat : j = h.carved + 1
    BY <2>1
  <2>3. UserOf(x) = 6 * j
    BY <1>4, <1>11, <2>1, <2>2
  <2> QED BY <1>9, <2>3
<1>12. ASSUME NEW d \in Free(h) PROVE a # UserOf(d)
  <2>1. PICK j \in 1 .. Chunks : d = 6 * j
    BY <1>8, SlotsPlaced
  <2>2. j \in Nat /\ UserOf(d) = 6 * j + 2
    BY <2>1, HeapBounds DEF UserOf, Header
  <2> QED BY <1>4, <2>2
<1>13. CASE /\ ~\E d \in Slots : d < Top(h) /\ a = d + 1
            /\ a # Top(h) + 1 /\ \E d \in Free(h) : a = UserOf(d) + 1
  <2>1. PICK d \in Free(h) : a = UserOf(d) + 1
    BY <1>13
  <2>2. d = x
    <3>1. d \in Nat
      BY <1>8, SlotsPlaced
    <3> QED BY <1>4, <2>1, <3>1 DEF UserOf, Header
  <2>3. Written(h, a) = Bk(h, ListOf(h, a - Header - 1), a - Header - 1)
    BY <1>12, <1>13 DEF Written
  <2>4. a - Header - 1 = x
    BY <1>4 DEF Header
  <2>5. PICK l \in Lists : \E i \in DOMAIN h.lists[l] : h.lists[l][i] = x
    BY <2>2, FreeCarved
  <2>6. PICK i \in DOMAIN h.lists[l] : h.lists[l][i] = x
    BY <2>5
  <2>7. ListOf(h, x) = l /\ At(h, l, x) = i
    BY <2>6, FreePlace
  <2>8. Bk(h, l, x) = c
    BY <1>7, <2>3, <2>4, <2>7
  <2>9. l \in Linked
    BY <1>4, <2>8 DEF Bk, NULL
  <2>10. Neighbour(h.lists[l], i - 1, HeaderOf(h, l)) = c
    BY <2>7, <2>8, <2>9 DEF Bk
  <2>11. HeaderOf(h, l) # c
    <3>1. l \in Bins
      BY <2>9 DEF Linked
    <3>2. 1000 < HeaderOf(h, l)
      <4>1. 1000 < FieldOf(l) /\ FieldOf(l) \in Nat /\ HeaderOf(h, l) = FieldOf(l) - h.skew
        BY <3>1, EndsTyped
      <4> QED BY <4>1
    <3> QED BY <1>4, <1>5, <3>1, <3>2, EndsTyped
  <2>12. i - 1 \in DOMAIN h.lists[l] /\ h.lists[l][i - 1] = c
    BY <2>10, <2>11 DEF Neighbour
  <2>13. l = b /\ i - 1 = k
    <3> PICK p : p = i - 1
      OBVIOUS
    <3>1. p \in DOMAIN h.lists[l] /\ h.lists[l][p] = h.lists[b][k]
      BY <2>12
    <3> QED BY <1>1, <3>1 DEF WellFormed, OnePlace
  <2>14. i = k + 1
    <3>1. i \in Nat /\ k \in Nat
      <4>1. \A p \in Lists : \A j \in DOMAIN h.lists[p] : j \in Nat
        <5>1. \A p \in Lists : DOMAIN h.lists[p] = 1 .. Len(h.lists[p])
          BY HeapTyped
        <5> QED BY <5>1
      <4> QED BY <1>1, <4>1
    <3> QED BY <2>13, <3>1
  <2> QED BY <2>6, <2>13, <2>14
<1>14. CASE /\ ~\E d \in Slots : d < Top(h) /\ a = d + 1
            /\ a # Top(h) + 1 /\ ~\E d \in Free(h) : a = UserOf(d) + 1
  <2>1. Written(h, a) = NULL
    BY <1>12, <1>14 DEF Written
  <2> QED BY <1>4, <1>7, <2>1 DEF NULL
<1> QED BY <1>10, <1>11, <1>13, <1>14

\* The nodes follow one another from the head, within the heap.
FollowsFrom(h, walk, t, head, r) ==
  /\ \A i \in DOMAIN r.nodes :
       r.nodes[i] = Node(h, walk, t, r.nodes[i].chunk) /\ Plausible(r.nodes[i].chunk, walk)
  /\ IF r.nodes = <<>> THEN r.cur = head ELSE r.nodes[1].chunk = head

\* Every step of the reader keeps it so.
LEMMA LinkedFollows ==
  ASSUME NEW h, WellFormed(h), NEW walk \in Walks, NEW t, NEW b, NEW head, NEW r \in Readings,
         FollowsFrom(h, walk, t, head, r)
  PROVE  FollowsFrom(h, walk, t, head, LinkedStep(h, walk, t, b, r))
<1> DEFINE node == Node(h, walk, t, r.cur)
           w == r.nodes
           z == Append(w, node)
           S == ChainNodes
<1>1. w \in Seq(S) /\ r.cur \in Nat
  BY DEF Readings
<1>2. CASE r.end # "reading"
  BY <1>2 DEF LinkedStep
<1>3. ASSUME NEW end PROVE FollowsFrom(h, walk, t, head, Stop(r, end))
  BY DEF FollowsFrom, Stop
<1>4. CASE /\ r.end = "reading" /\ r.cur # FieldOf(b) /\ ~(Len(w) >= ChainLimit) /\ r.cur \notin Visited(w)
           /\ Plausible(r.cur, walk) /\ \A j \in LinkWords(b) : Readable(h, UserOf(r.cur) + j)
  <2>1. LinkedStep(h, walk, t, b, r) = Follow(r, node, node.fd, FieldOf(b), walk)
    BY <1>4 DEF LinkedStep, FollowFd
  <2>2. node \in S
    <3>1. 0 \in LinkWords(b)
      BY DEF LinkWords
    <3>2. UserOf(r.cur) + 0 = UserOf(r.cur)
      BY <1>1 DEF UserOf, Header
    <3>3. Readable(h, UserOf(r.cur))
      BY <1>4, <3>1, <3>2
    <3> QED BY <1>1, <3>3, NodeTyped
  <2>3. node.chunk = r.cur
    BY DEF Node
  <2>4. /\ \A i \in DOMAIN w : w[i] = Node(h, walk, t, w[i].chunk) /\ Plausible(w[i].chunk, walk)
        /\ IF w = <<>> THEN r.cur = head ELSE w[1].chunk = head
    BY DEF FollowsFrom
  <2>5. node = Node(h, walk, t, node.chunk)
    BY <2>3
  <2> DEFINE q == Follow(r, node, node.fd, FieldOf(b), walk)
  <2>6. q.nodes = z
    BY DEF Follow
  <2> HIDE DEF node, S, w
  <2>7. /\ Len(w) \in Nat /\ DOMAIN w = 1 .. Len(w) /\ DOMAIN z = 1 .. Len(w) + 1
        /\ \A i \in 1 .. Len(w) : z[i] = w[i]
        /\ z[Len(w) + 1] = node /\ z # <<>>
    BY <1>1, <2>2, NodeAdded
  <2>8. z[1].chunk = head
    <3>1. CASE w = <<>>
      <4>1. Len(w) + 1 = 1
        BY <3>1
      <4> QED BY <2>3, <2>4, <2>7, <3>1, <4>1
    <3>2. CASE w # <<>>
      <4>1. 1 \in 1 .. Len(w)
        BY <1>1, <3>2
      <4> QED BY <2>4, <2>7, <3>2, <4>1
    <3> QED BY <3>1, <3>2
  <2> HIDE DEF z, q
  <2>9. \A i \in DOMAIN z : z[i] = Node(h, walk, t, z[i].chunk) /\ Plausible(z[i].chunk, walk)
    BY <1>4, <2>3, <2>4, <2>5, <2>7
  <2>10. FollowsFrom(h, walk, t, head, q)
    BY <2>6, <2>7, <2>8, <2>9 DEF FollowsFrom
  <2> QED BY <2>1, <2>10 DEF q, node
<1> QED BY <1>2, <1>3, <1>4 DEF LinkedStep

\* So it is of a whole chain.
LEMMA LinkedFrom ==
  ASSUME NEW h, WellFormed(h), NEW walk \in Walks, NEW t, NEW b, NEW head \in Nat, NEW tail
  PROVE  \E r \in Readings :
           /\ LinkedChain(h, walk, t, b, head, tail)
                = LinkedOf(b, head, head = FieldOf(b) /\ tail = FieldOf(b), r)
           /\ FollowsFrom(h, walk, t, head, r)
           /\ head = FieldOf(b) => r.nodes = <<>>
<1> DEFINE N == ChainLimit + 1
           empty == head = FieldOf(b) /\ tail = FieldOf(b)
<1>1. PICK f : /\ ReadsLinked(f, h, walk, t, b, head)
               /\ LinkedChain(h, walk, t, b, head, tail) = LinkedOf(b, head, empty, f[ChainLimit + 1])
  BY LinkedMade
<1> HIDE DEF empty
<1>2. N \in Nat /\ N \in 0 .. N
  BY ChainBound
<1>3. f \in [0 .. N -> Readings] /\ f[0] = Begin(head)
      /\ \A n \in 1 .. N : f[n] = LinkedStep(h, walk, t, b, f[n - 1])
  BY <1>1 DEF ReadsLinked
<1> DEFINE AtOnce(r) == head = FieldOf(b) => r.nodes = <<>> /\ r.cur = head
           S == {n \in 0 .. N : FollowsFrom(h, walk, t, head, f[n]) /\ AtOnce(f[n])}
<1>4. 0 \in S
  <2>1. FollowsFrom(h, walk, t, head, Begin(head)) /\ AtOnce(Begin(head))
    BY DEF FollowsFrom, Begin
  <2> QED BY <1>2, <1>3, <2>1
<1>5. ASSUME NEW n \in 0 .. N - 1, n \in S PROVE n + 1 \in S
  <2>1. PICK m \in 1 .. N : m = n + 1 /\ m - 1 = n /\ m \in 0 .. N
    BY <1>2
  <2>2. PICK r \in Readings : r = f[m - 1]
    BY <1>2, <1>3, <2>1
  <2>3. FollowsFrom(h, walk, t, head, LinkedStep(h, walk, t, b, r))
    BY <1>5, <2>1, <2>2, LinkedFollows
  <2>4. AtOnce(LinkedStep(h, walk, t, b, r))
    <3>1. AtOnce(r)
      BY <1>5, <2>1, <2>2
    <3> QED BY <3>1 DEF LinkedStep, Stop
  <2> QED BY <1>3, <2>1, <2>2, <2>3, <2>4
<1> HIDE DEF S, N
<1>6. N \in S
  BY <1>2, <1>4, <1>5, Induct
<1> QED BY <1>1, <1>2, <1>3, <1>6 DEF S, N, empty

\* Nodes of the heap, from the head of a bin, whose links agree both ways.
Agreeing(h, walk, t, b, nodes) ==
  /\ nodes \in Seq(ChainNodes) /\ Consistent(nodes, "complete", b)
  /\ \A i \in DOMAIN nodes :
       nodes[i] = Node(h, walk, t, nodes[i].chunk) /\ Plausible(nodes[i].chunk, walk)
  /\ nodes[1].chunk = HeadOf(h, b) /\ HeadOf(h, b) # FieldOf(b)

\* They are the first chunks of the bin.
LEMMA PrefixRead ==
  ASSUME NEW h, WellFormed(h), h.skew = 0, NEW b \in Linked, NEW walk \in Walks, walk.end <= h.brk,
         NEW t, NEW nodes, Agreeing(h, walk, t, b, nodes)
  PROVE  /\ Len(nodes) <= Len(h.lists[b])
         /\ \A i \in 1 .. Len(nodes) : nodes[i].chunk = h.lists[b][i]
<1> DEFINE v == h.lists[b]
           n == Len(nodes)
           N == n - 1
           R == ChainNodes
<1>0. /\ nodes \in Seq(ChainNodes) /\ Consistent(nodes, "complete", b)
      /\ \A i \in DOMAIN nodes :
           nodes[i] = Node(h, walk, t, nodes[i].chunk) /\ Plausible(nodes[i].chunk, walk)
      /\ nodes[1].chunk = HeadOf(h, b) /\ HeadOf(h, b) # FieldOf(b)
  BY DEF Agreeing
<1>1. b \in Lists /\ b \in Bins /\ b # "fastbin" /\ b # "tcache"
  BY DEF Linked, Lists, Bins
<1>2. /\ nodes \in Seq(R) /\ nodes # <<>>
      /\ Last(nodes).fd = FieldOf(b) /\ Last(nodes) = nodes[n]
      /\ \A i \in 1 .. n - 1 :
           nodes[i].fd = nodes[i + 1].chunk /\ nodes[i + 1].bk = nodes[i].chunk
  BY <1>0 DEF Consistent, Last
<1>3. \A x \in R : x.chunk \in Nat
  BY DEF ChainNodes
<1>4. \A c : Node(h, walk, t, c).fd = Word(h, UserOf(c)) /\ Node(h, walk, t, c).bk = Word(h, UserOf(c) + 1)
  BY DEF Node
<1> HIDE DEF R
<1>5. n \in Nat /\ n > 0 /\ DOMAIN nodes = 1 .. n /\ \A i \in 1 .. n : nodes[i].chunk \in Nat
  BY <1>2, <1>3
<1>6. DOMAIN v = 1 .. Len(v) /\ Len(v) \in Nat
  BY <1>1, HeapTyped
<1>7. HeaderOf(h, b) = FieldOf(b) /\ 1000 < FieldOf(b) /\ FieldOf(b) \in Nat
  BY <1>1, EndsTyped
<1>8. 1 \in DOMAIN v /\ nodes[1].chunk = v[1]
  BY <1>0, <1>1, <1>7 DEF HeadOf, Neighbour
<1>9. /\ \A i \in 1 .. n : nodes[i].fd = Word(h, UserOf(nodes[i].chunk))
      /\ \A i \in 1 .. n : nodes[i].bk = Word(h, UserOf(nodes[i].chunk) + 1)
  <2> SUFFICES ASSUME NEW i \in 1 .. n
               PROVE  /\ nodes[i].fd = Word(h, UserOf(nodes[i].chunk))
                      /\ nodes[i].bk = Word(h, UserOf(nodes[i].chunk) + 1)
    OBVIOUS
  <2> PICK c : c = nodes[i].chunk
    OBVIOUS
  <2>1. nodes[i] = Node(h, walk, t, c)
    BY <1>0, <1>5
  <2> QED BY <1>4, <2>1
<1>10. \A i \in 1 .. n : LET x == nodes[i].chunk IN x \in Nat /\ 6 <= x /\ x < 1000 /\ x % 2 = 0
  <2> SUFFICES ASSUME NEW i \in 1 .. n
               PROVE  LET x == nodes[i].chunk IN 6 <= x /\ x < 1000 /\ x % 2 = 0
    BY <1>5
  <2>1. Plausible(nodes[i].chunk, walk)
    BY <1>0, <1>5
  <2>2. walk.end \in Nat /\ h.brk \in Nat /\ h.brk < 1000
    BY HeapTyped DEF Walks
  <2> QED BY <1>5, <2>1, <2>2 DEF Plausible, PointsIntoHeap, Start, Alignment
<1> DEFINE S == {k \in 0 .. N : k + 1 \in DOMAIN v /\ nodes[k + 1].chunk = v[k + 1]}
<1>11. 0 \in S
  <2>1. 0 \in 0 .. N /\ 0 + 1 = 1
    BY <1>5
  <2> QED BY <1>8, <2>1
<1>12. ASSUME NEW k \in 0 .. N - 1, k \in S PROVE k + 1 \in S
  <2>1. PICK m \in Nat : m = k + 1
    OBVIOUS
  <2>2. m \in 1 .. n /\ m \in 1 .. n - 1 /\ m + 1 \in 1 .. n /\ m \in 0 .. N
    BY <1>5, <2>1
  <2>3. m \in DOMAIN v /\ nodes[m].chunk = v[m]
    BY <1>12, <2>1
  <2> DEFINE x == nodes[m + 1].chunk
             c == v[m]
  <2>4. Word(h, UserOf(c)) = x /\ Word(h, UserOf(x) + 1) = c
    BY <1>2, <1>9, <2>2, <2>3
  <2>5. x \in Nat /\ 6 <= x /\ x < 1000 /\ x % 2 = 0
    BY <1>10, <2>2
  <2>6. m + 1 \in DOMAIN v /\ x = v[m + 1]
    <3>1. CASE h.bad = None \/ h.bad.at # UserOf(c)
      <4>1. Word(h, UserOf(c)) = Fd(h, b, c)
        BY <1>1, <2>3, <3>1, LinkWord
      <4>2. At(h, b, c) = m
        BY <1>1, <2>3, FreePlace
      <4>3. Fd(h, b, c) = Neighbour(v, m + 1, FieldOf(b))
        <5> HIDE DEF c
        <5> QED BY <1>1, <1>7, <4>2 DEF Fd
      <4>4. x # FieldOf(b)
        BY <1>7, <2>5
      <4> QED BY <2>4, <4>1, <4>3, <4>4 DEF Neighbour
    <3>2. CASE h.bad # None /\ h.bad.at = UserOf(c)
      <4>1. (m + 1 \in DOMAIN v /\ x = v[m + 1]) \/ Word(h, UserOf(x)) = NULL
        <5> PICK y \in Nat : y = x
          BY <2>5
        <5>1. (m + 1 \in DOMAIN v /\ y = v[m + 1]) \/ Word(h, UserOf(y)) = NULL
          BY <2>3, <2>4, <2>5, <3>2, BackLink, SMTT(30)
        <5> QED BY <5>1
      <4>2. nodes[m + 1].fd # NULL
        <5>1. CASE m + 1 = n
          BY <1>2, <1>7, <5>1 DEF NULL
        <5>2. CASE m + 1 # n
          <6>1. PICK j \in Nat : j = m + 1
            BY <2>1
          <6>2. j \in 1 .. n - 1 /\ j + 1 \in 1 .. n
            <7> HIDE DEF n
            <7>1. n \in Nat /\ j \in Nat /\ j \in 1 .. n /\ j # n
              BY <1>5, <2>2, <5>2, <6>1
            <7> QED BY <7>1
          <6>3. nodes[j].fd = nodes[j + 1].chunk /\ 6 <= nodes[j + 1].chunk
            BY <1>2, <1>10, <6>2
          <6> QED BY <6>1, <6>3 DEF NULL
        <5> QED BY <5>1, <5>2
      <4>3. nodes[m + 1].fd = Word(h, UserOf(x))
        BY <1>9, <2>2
      <4> QED BY <4>1, <4>2, <4>3
    <3> QED BY <3>1, <3>2
  <2> QED BY <2>1, <2>2, <2>6
<1> HIDE DEF S, N
<1>13. \A k \in 0 .. N : k \in S
  <2>1. N \in Nat
    BY <1>5 DEF N
  <2> QED BY <1>11, <1>12, <2>1, Induct
<1>14. ASSUME NEW i \in 1 .. n PROVE i \in DOMAIN v /\ nodes[i].chunk = v[i]
  <2>1. PICK k \in 0 .. N : k = i - 1 /\ k + 1 = i
    BY <1>5 DEF N
  <2>2. k + 1 \in DOMAIN v /\ nodes[k + 1].chunk = v[k + 1]
    BY <1>13 DEF S
  <2> QED BY <2>1, <2>2
<1>15. n <= Len(v)
  <2>1. n \in 1 .. n
    BY <1>5
  <2>2. n \in DOMAIN v
    BY <1>14, <2>1
  <2> QED BY <1>6, <2>2
<1> QED BY <1>14, <1>15

\* What a linked bin called plausible was read as.
LEMMA LinkedVouched ==
  ASSUME NEW h, WellFormed(h), h.skew = 0, NEW walk \in Walks, walk.end <= h.brk, NEW t,
         NEW limit \in Nat, NEW b \in Linked, ReadBin(h, walk, t, limit, b).verdict = "plausible"
  PROVE  LET nodes == Nodes(ReadBin(h, walk, t, limit, b))
         IN  /\ nodes \in Seq(ChainNodes) /\ Len(nodes) <= Len(h.lists[b])
             /\ \A i \in 1 .. Len(nodes) : nodes[i].chunk = h.lists[b][i]
<1> DEFINE s == ReadBin(h, walk, t, limit, b)
           head == HeadOf(h, b)
           tail == TailOf(h, b)
           empty == head = FieldOf(b) /\ tail = FieldOf(b)
<1>1. b \in Bins /\ b \in Lists /\ b # "fastbin" /\ head \in Nat
  <2>1. b \in Bins /\ b \in Lists /\ b # "fastbin"
    BY DEF Bins, Lists, Linked
  <2> QED BY <2>1, EndsTyped
<1>2. PICK r \in Readings : /\ LinkedChain(h, walk, t, b, head, tail) = LinkedOf(b, head, empty, r)
                            /\ FollowsFrom(h, walk, t, head, r)
                            /\ head = FieldOf(b) => r.nodes = <<>>
  <2> HIDE DEF head, tail
  <2> QED BY <1>1, LinkedFrom
<1>3. PICK chain \in {None, LinkedChain(h, walk, t, b, head, tail)} : s = Judged(b, chain, walk.end)
  BY <1>1, ChainRead
<1>4. LinkedChain(h, walk, t, b, head, tail) \in Chains
  BY <1>1, ReadersTyped
<1> HIDE DEF head, tail
<1>5. s.chain = chain /\ s # None /\ (chain = None => s.verdict = None)
  <2> HIDE DEF s
  <2> QED BY <1>1, <1>3, <1>4, JudgedTyped
<1>6. None # "plausible"
  BY NoneIsNoSnapshot DEF Verdicts
<1>7. chain # None /\ chain = LinkedOf(b, head, empty, r)
  BY <1>2, <1>3, <1>5, <1>6
<1>8. empty \in BOOLEAN
  OBVIOUS
<1> HIDE DEF empty
<1>9. /\ chain.nodes = r.nodes /\ chain.end = r.end /\ chain.empty = empty
      /\ chain.consistent = (empty \/ Consistent(r.nodes, r.end, b))
  BY <1>7 DEF LinkedOf
<1>10. chain.consistent
  <2>1. \/ ValidateUnsorted(chain, walk.end) = "plausible" \/ ValidateSmallbins(chain) = "plausible"
        \/ ValidateLargebins(chain) = "plausible"
    <3>1. s.verdict = IF b = "unsorted" THEN ValidateUnsorted(chain, walk.end)
                      ELSE IF chain.empty THEN None
                      ELSE IF b = "smallbin" THEN ValidateSmallbins(chain) ELSE ValidateLargebins(chain)
      <4> HIDE DEF s
      <4> QED BY <1>1, <1>3, <1>7 DEF Judged
    <3> HIDE DEF s
    <3>2. s.verdict = "plausible"
      BY DEF s
    <3> QED BY <1>6, <3>1, <3>2
  <2>2. ConsistentAnswer(chain) \notin {"no", "unknown"}
    BY <2>1, VerdictTyped DEF ValidateUnsorted, ValidateSmallbins, ValidateLargebins
  <2> QED BY <2>2 DEF ConsistentAnswer
<1>11. Nodes(s) = r.nodes
  BY <1>5, <1>7, <1>9 DEF Nodes
<1>12. r.nodes \in Seq(ChainNodes)
  BY DEF Readings
<1>13. Len(h.lists[b]) \in Nat
  BY <1>1, HeapTyped
<1>14. CASE r.nodes = <<>>
  <2>1. Len(r.nodes) = 0
    BY <1>14
  <2> QED BY <1>11, <1>12, <1>13, <2>1 DEF s
<1>15. CASE r.nodes # <<>>
  <2>1. head # FieldOf(b)
    BY <1>2, <1>15
  <2>2. ~empty
    BY <2>1 DEF empty
  <2>3. Consistent(r.nodes, r.end, b)
    BY <1>9, <1>10, <2>2
  <2>4. Consistent(r.nodes, "complete", b)
    BY <2>3 DEF Consistent
  <2>5. /\ \A i \in DOMAIN r.nodes :
             r.nodes[i] = Node(h, walk, t, r.nodes[i].chunk) /\ Plausible(r.nodes[i].chunk, walk)
        /\ r.nodes[1].chunk = head
    BY <1>2, <1>15 DEF FollowsFrom
  <2> PICK nodes \in Seq(ChainNodes) : nodes = r.nodes
    BY <1>12
  <2>6. Len(nodes) <= Len(h.lists[b]) /\ \A i \in 1 .. Len(nodes) : nodes[i].chunk = h.lists[b][i]
    <3>1. Agreeing(h, walk, t, b, nodes)
      BY <2>1, <2>4, <2>5 DEF head, Agreeing
    <3> QED BY <3>1, PrefixRead
  <2> QED BY <1>11, <1>12, <2>6 DEF s
<1> QED BY <1>14, <1>15

\* Whatever calls went untraced, and whatever word was overwritten: a linked bin called
\* plausible was read as the allocator linked it, at worst cut short, since the tail word
\* of the bin is not compared with the last chunk read (lib.rs:5372-5443, glibc.rs:632-687).
THEOREM PrefixAlways == Spec => []PlausibleIsPrefix
<1>1. Inv => PlausibleIsPrefix
  <2> SUFFICES ASSUME Inv, mapping # None, Aligned, NEW b \in Linked, Fresh(b).verdict = "plausible"
               PROVE  IsPrefix(ChunksOf(Fresh(b)), heap.lists[b])
    BY DEF PlausibleIsPrefix
  <2>1. WellFormed(heap) /\ heap.skew = 0 /\ mapping \in Nat /\ mapping <= heap.brk
    BY DEF Inv, Aligned
  <2>2. PICK limit \in Nat : limit = L!Limit(config)
    BY OptionsTyped DEF Inv
  <2>3. PICK walk \in Walks : walk = Walk(heap, mapping) /\ walk.end <= heap.brk
    BY <2>1, WalkTyped
  <2> DEFINE s == Fresh(b)
             nodes == Nodes(s)
             chunks == ChunksOf(s)
             v == heap.lists[b]
             S == ChainNodes
  <2>4. s = ReadBin(heap, walk, tracked, limit, b)
    BY <2>2, <2>3 DEF Fresh
  <2>5. /\ nodes \in Seq(S) /\ Len(nodes) <= Len(v)
        /\ \A i \in 1 .. Len(nodes) : nodes[i].chunk = v[i]
    <3> HIDE DEF s
    <3>1. ReadBin(heap, walk, tracked, limit, b).verdict = "plausible"
      BY <2>4 DEF s
    <3> QED BY <2>1, <2>3, <2>4, <3>1, LinkedVouched
  <2>6. b \in Lists /\ v \in Seq(Nat) /\ Len(v) \in Nat
    BY <2>1, HeapTyped DEF Linked, Lists
  <2>7. chunks = [i \in DOMAIN nodes |-> nodes[i].chunk]
    BY DEF ChunksOf
  <2> HIDE DEF s, nodes, chunks, v, S
  <2> DEFINE n == Len(nodes)
  <2>8. n \in Nat /\ DOMAIN nodes = 1 .. n /\ n <= Len(v)
    BY <2>5
  <2> HIDE DEF n
  <2>9. chunks = [i \in 1 .. n |-> v[i]]
    BY <2>5, <2>7, <2>8 DEF n
  <2>10. \A i \in 1 .. n : v[i] \in Nat
    BY <2>6, <2>8
  <2>11. chunks \in Seq(Nat) /\ Len(chunks) = n
    BY <2>8, <2>9, <2>10
  <2>12. SubSeq(chunks, 1, n) = [i \in 1 .. n |-> chunks[i]]
    BY <2>8, <2>11
  <2>13. SubSeq(v, 1, n) = [i \in 1 .. n |-> v[i]]
    BY <2>6, <2>8
  <2>14. \A i \in 1 .. n : chunks[i] = v[i]
    BY <2>9
  <2>15. SubSeq(chunks, 1, n) = SubSeq(v, 1, n)
    BY <2>12, <2>13, <2>14
  <2>16. IsPrefix(chunks, v)
    BY <2>8, <2>11, <2>15 DEF IsPrefix
  <2> QED BY <2>16 DEF chunks, s, v
<1> QED BY <1>1, InvAlways, PTL
-----------------------------------------------------------------------------
(* The header of a bin, where it is not where the profile says             *)

\* A reading that strays: it has come k chunks along the list, or it left the heap.
Straying(h, b, r, k) ==
  /\ r.end \in {"reading", "unknown_next"}
  /\ r.end = "reading" =>
       /\ Len(r.nodes) = k /\ (k < Len(h.lists[b]) \/ (k = 0 /\ Len(h.lists[b]) = 0))
       /\ r.cur = Neighbour(h.lists[b], k + 1, HeaderOf(h, b))
       /\ \A i \in 1 .. k : r.nodes[i].chunk = h.lists[b][i]

\* The header lies beyond the heap, and is not where a reader looks for it.
LEMMA HeaderStrays ==
  ASSUME NEW h, WellFormed(h), h.skew # 0, NEW walk \in Walks, walk.end <= h.brk, NEW b \in Linked
  PROVE  HeaderOf(h, b) \in Nat /\ HeaderOf(h, b) # FieldOf(b) /\ ~Plausible(HeaderOf(h, b), walk)
<1>1. h.skew = 2 /\ h.brk \in Nat /\ h.brk < 1000
  BY HeapTyped
<1>2. FieldOf(b) \in Nat /\ 1010 <= FieldOf(b)
  BY DEF FieldOf, Linked, Bins
<1>3. walk.end \in Nat
  BY DEF Walks
<1> QED BY <1>1, <1>2, <1>3 DEF HeaderOf, Plausible, PointsIntoHeap

\* A reading of a list shorter than the limit goes on straying.
LEMMA StrayStep ==
  ASSUME NEW h, WellFormed(h), h.bad = None, h.skew # 0, NEW walk \in Walks, walk.end <= h.brk, NEW t,
         NEW b \in Linked, Len(h.lists[b]) < ChainLimit, NEW r \in Readings, NEW k \in Nat,
         Straying(h, b, r, k)
  PROVE  Straying(h, b, LinkedStep(h, walk, t, b, r), k + 1)
<1> DEFINE v == h.lists[b]
           c == v[k + 1]
           header == HeaderOf(h, b)
           node == Node(h, walk, t, r.cur)
           w == r.nodes
           S == ChainNodes
<1>1. b \in Lists /\ b \in Bins
  BY DEF Lists, Linked
<1>2. /\ DOMAIN v = 1 .. Len(v) /\ Len(v) \in Nat /\ \A i \in DOMAIN v : v[i] \in Nat /\ v[i] < 1000
      /\ \A i, j \in DOMAIN v : v[i] = v[j] => i = j
  <2>1. ASSUME NEW i \in DOMAIN v PROVE v[i] < 1000
    <3>1. v[i] < Top(h)
      BY <1>1 DEF WellFormed
    <3>2. Top(h) = 6 * h.carved + 6 /\ h.carved \in Nat /\ h.brk \in Nat /\ Top(h) <= h.brk /\ h.brk < 1000
      BY HeapTyped
    <3>3. v[i] \in Nat
      BY <1>1, HeapTyped
    <3> HIDE DEF v
    <3> QED BY <3>1, <3>2, <3>3
  <2>2. \A i, j \in DOMAIN v : v[i] = v[j] => i = j
    <3>1. OnePlace(h.lists)
      BY DEF WellFormed
    <3> QED BY <1>1, <3>1 DEF OnePlace
  <2>3. DOMAIN v = 1 .. Len(v) /\ Len(v) \in Nat /\ \A i \in DOMAIN v : v[i] \in Nat
    BY <1>1, HeapTyped
  <2> HIDE DEF v
  <2> QED BY <2>1, <2>2, <2>3
<1>3. header \in Nat /\ header # FieldOf(b) /\ ~Plausible(header, walk)
  BY HeaderStrays
<1>4. FieldOf(b) \in Nat /\ 1000 < FieldOf(b) /\ ChainLimit \in Nat
  BY <1>1, EndsTyped, ChainBound
<1>5. ASSUME NEW end, end = "unknown_next" PROVE Straying(h, b, Stop(r, end), k + 1)
  BY <1>5 DEF Straying, Stop
<1>6. CASE r.end # "reading"
  <2>1. r.end = "unknown_next" /\ LinkedStep(h, walk, t, b, r) = r
    BY <1>6 DEF Straying, LinkedStep
  <2> QED BY <2>1 DEF Straying
<1>7. CASE r.end = "reading" /\ k = Len(v)
  <2>1. k = 0 /\ Len(v) = 0 /\ Len(w) = 0 /\ r.cur = header
    <3>1. k + 1 \notin DOMAIN v
      BY <1>2, <1>7
    <3> QED BY <1>2, <1>7, <3>1 DEF Straying, Neighbour
  <2>2. Visited(w) = {}
    <3>1. w \in Seq(S)
      BY DEF Readings
    <3> HIDE DEF w, S
    <3>2. DOMAIN w = {}
      BY <2>1, <3>1
    <3> QED BY <3>2 DEF Visited
  <2>3. ~(Len(w) >= ChainLimit) /\ ~Plausible(r.cur, walk) /\ r.cur # FieldOf(b)
    BY <1>2, <1>3, <1>4, <2>1
  <2>4. LinkedStep(h, walk, t, b, r) = Stop(r, "unknown_next")
    BY <1>7, <2>2, <2>3 DEF LinkedStep
  <2> QED BY <1>5, <2>4
<1>8. CASE r.end = "reading" /\ k # Len(v)
  <2>1. /\ k < Len(v) /\ k + 1 \in DOMAIN v /\ Len(w) = k /\ r.cur = c /\ c \in Nat /\ c < 1000
        /\ \A i \in 1 .. k : w[i].chunk = v[i]
    <3>1. Len(w) = k /\ k < Len(v) /\ r.cur = Neighbour(v, k + 1, header)
          /\ \A i \in 1 .. k : w[i].chunk = v[i]
      BY <1>2, <1>8 DEF Straying
    <3>2. k + 1 \in DOMAIN v
      BY <1>2, <3>1
    <3> QED BY <1>2, <3>1, <3>2 DEF Neighbour
  <2>2. w \in Seq(S)
    BY DEF Readings
  <2>3. r.cur \notin Visited(w)
    <3> SUFFICES ASSUME NEW i \in DOMAIN w, w[i].chunk = r.cur PROVE FALSE
      BY DEF Visited
    <3>1. i \in 1 .. k
      <4> HIDE DEF w, S
      <4> QED BY <2>1, <2>2
    <3>2. i \in DOMAIN v /\ v[i] = v[k + 1] /\ i # k + 1
      BY <1>2, <2>1, <3>1
    <3> QED BY <1>2, <2>1, <3>2
  <2>4. ~(Len(w) >= ChainLimit) /\ r.cur # FieldOf(b)
    BY <1>2, <1>4, <2>1
  <2>5. CASE ~Plausible(r.cur, walk) \/ \E i \in LinkWords(b) : ~Readable(h, UserOf(r.cur) + i)
    BY <1>5, <1>8, <2>3, <2>4, <2>5 DEF LinkedStep
  <2>6. CASE ~(~Plausible(r.cur, walk) \/ \E i \in LinkWords(b) : ~Readable(h, UserOf(r.cur) + i))
    <3>1. LinkedStep(h, walk, t, b, r) = Follow(r, node, node.fd, FieldOf(b), walk)
      BY <1>8, <2>3, <2>4, <2>6 DEF LinkedStep, FollowFd
    <3>2. node.fd = Neighbour(v, k + 1 + 1, header)
      <4>1. ListOf(h, c) = b /\ At(h, b, c) = k + 1
        BY <1>1, <2>1, FreePlace
      <4>2. Word(h, UserOf(c)) = Fd(h, b, c)
        BY <1>1, <2>1, LinkWord
      <4>3. b # "tcache" /\ b # "fastbin"
        BY DEF Linked, Bins
      <4> HIDE DEF c, v, header
      <4>4. Fd(h, b, c) = Neighbour(v, k + 1 + 1, header)
        BY <4>1, <4>3 DEF Fd, v, header
      <4> QED BY <2>1, <4>2, <4>4 DEF Node
    <3>3. node \in S /\ node.chunk = c
      <4>1. 0 \in LinkWords(b)
        BY DEF LinkWords
      <4>2. UserOf(r.cur) + 0 = UserOf(r.cur)
        BY <2>1 DEF UserOf, Header
      <4>3. Readable(h, UserOf(r.cur))
        BY <2>6, <4>1, <4>2
      <4> QED BY <2>1, <4>3, NodeTyped
    <3> DEFINE q == Follow(r, node, node.fd, FieldOf(b), walk)
               z == Append(w, node)
    <3>4. /\ q.nodes = z /\ q.cur = node.fd
          /\ q.end = IF node.fd = FieldOf(b) THEN "complete"
                     ELSE IF Plausible(node.fd, walk) THEN "reading" ELSE "unknown_next"
      BY DEF Follow
    <3> HIDE DEF node, w, S
    <3>5. Len(z) = k + 1 /\ z[k + 1] = node /\ \A i \in 1 .. k : z[i] = w[i]
      BY <2>1, <2>2, <3>3, NodeAdded
    <3> HIDE DEF z, q, header, c
    <3>6. node.fd # FieldOf(b)
      BY <1>2, <1>3, <1>4, <3>2 DEF Neighbour
    <3>7. Plausible(node.fd, walk) => k + 1 + 1 \in DOMAIN v
      BY <1>3, <3>2 DEF Neighbour
    <3>8. k + 1 + 1 \in DOMAIN v => k + 1 < Len(v)
      BY <1>2
    <3>9. \A i \in 1 .. k + 1 : z[i].chunk = v[i]
      <4> SUFFICES ASSUME NEW i \in 1 .. k + 1 PROVE z[i].chunk = v[i]
        OBVIOUS
      <4>1. i \in 1 .. k \/ i = k + 1
        OBVIOUS
      <4> QED BY <2>1, <3>3, <3>5, <4>1 DEF c
    <3>10. Straying(h, b, q, k + 1)
      <4> HIDE DEF v
      <4> QED BY <3>2, <3>4, <3>5, <3>6, <3>7, <3>8, <3>9 DEF Straying, v, header
    <3> QED BY <3>1, <3>10 DEF q
  <2> QED BY <2>5, <2>6
<1> QED BY <1>6, <1>7, <1>8

\* A linked bin with its header elsewhere is read as a chain that leaves the heap.
LEMMA LinkedStrays ==
  ASSUME NEW h, WellFormed(h), h.bad = None, h.skew # 0, NEW walk \in Walks, walk.end <= h.brk, NEW t,
         NEW limit \in Nat, NEW b \in Linked, Len(h.lists[b]) < ChainLimit
  PROVE  LET chain == ReadBin(h, walk, t, limit, b).chain
         IN  chain # None => chain.end = "unknown_next"
<1> DEFINE N == ChainLimit + 1
           head == HeadOf(h, b)
           tail == TailOf(h, b)
           empty == head = FieldOf(b) /\ tail = FieldOf(b)
           linked == LinkedChain(h, walk, t, b, head, tail)
           s == ReadBin(h, walk, t, limit, b)
<1>1. b \in Bins /\ b \in Lists /\ b # "fastbin" /\ head \in Nat
  <2>1. b \in Bins /\ b \in Lists /\ b # "fastbin"
    BY DEF Bins, Lists, Linked
  <2> QED BY <2>1, EndsTyped
<1>2. N \in Nat /\ N \in 0 .. N /\ ChainLimit \in Nat /\ Len(h.lists[b]) \in Nat
  BY <1>1, ChainBound, HeapTyped
<1>3. PICK f : ReadsLinked(f, h, walk, t, b, head) /\ linked = LinkedOf(b, head, empty, f[N])
  <2> HIDE DEF head, tail
  <2> QED BY <1>1, LinkedMade
<1>4. f \in [0 .. N -> Readings] /\ f[0] = Begin(head)
      /\ \A n \in 1 .. N : f[n] = LinkedStep(h, walk, t, b, f[n - 1])
  BY <1>3 DEF ReadsLinked
<1> DEFINE T == {n \in 0 .. N : Straying(h, b, f[n], n)}
<1>5. 0 \in T
  <2>1. Begin(head).end = "reading" /\ Begin(head).nodes = <<>> /\ Begin(head).cur = head
    BY DEF Begin
  <2>2. head = Neighbour(h.lists[b], 0 + 1, HeaderOf(h, b))
    <3>1. 0 + 1 = 1
      OBVIOUS
    <3> QED BY <1>1, <3>1 DEF HeadOf
  <2> HIDE DEF head
  <2>3. Straying(h, b, Begin(head), 0)
    BY <1>2, <2>1, <2>2 DEF Straying
  <2> QED BY <1>2, <1>4, <2>3
<1>6. ASSUME NEW n \in 0 .. N - 1, n \in T PROVE n + 1 \in T
  <2>1. PICK m \in 1 .. N : m = n + 1 /\ m - 1 = n /\ m \in 0 .. N /\ n \in Nat
    BY <1>2
  <2>2. PICK r \in Readings : r = f[m - 1]
    BY <1>2, <1>4, <2>1
  <2>3. Straying(h, b, LinkedStep(h, walk, t, b, r), n + 1)
    BY <1>6, <2>1, <2>2, StrayStep
  <2> QED BY <1>4, <2>1, <2>2, <2>3
<1> HIDE DEF T, N
<1>7. N \in T
  BY <1>2, <1>5, <1>6, Induct
<1>8. f[N].end = "unknown_next"
  BY <1>2, <1>7 DEF T, N, Straying
<1> HIDE DEF empty, head, tail
<1>9. linked.end = "unknown_next"
  BY <1>3, <1>8 DEF LinkedOf
<1>10. PICK chain \in {None, linked} : s = Judged(b, chain, walk.end)
  BY <1>1, ChainRead DEF head, tail
<1> HIDE DEF linked
<1>11. s.chain = chain
  BY <1>10 DEF Judged
<1> QED BY <1>9, <1>10, <1>11

\* Where the header of a bin lies elsewhere, the snapshot kept of it left the heap.
KeptStrays ==
  ~Aligned /\ heap.bad = None => \A b \in Linked :
    kept[b] # None /\ kept[b].chain # None /\ Len(wasIn[b]) < ChainLimit =>
      kept[b].chain.end = "unknown_next"

\* So it is after every event.
LEMMA KeptStraysTold ==
  ASSUME Inv, KeptStrays, NEW h, NEW t, NEW o, NEW e, Told(h, t, o, e)
  PROVE  KeptStrays'
<1> DEFINE end == Discovered(h)
           walk == Snapshot(h, end)
           limit == L!Limit(config)
<1> SUFFICES ASSUME ~Aligned', heap'.bad = None, NEW b \in Linked, kept'[b] # None,
                    kept'[b].chain # None, Len(wasIn'[b]) < ChainLimit
             PROVE  kept'[b].chain.end = "unknown_next"
  BY DEF KeptStrays
<1>1. /\ heap' = h /\ WellFormed(h) /\ heap.brk <= h.brk /\ Emit(h, t, o, e)
      /\ h.bad = None /\ heap.bad = None /\ h.skew # 0 /\ ~Aligned
  BY DEF Told, Aligned
<1>2. b \in Bins
  BY DEF Linked
<1>3. /\ kept'[b] = IF b \in ReadNow(walk) THEN ReadBin(h, walk, t, limit, b) ELSE kept[b]
      /\ wasIn'[b] = IF b \in ReadNow(walk) THEN h.lists[b] ELSE wasIn[b]
  BY <1>1, <1>2, EmitSets
<1>4. /\ walk = None <=> end = None
      /\ end # None => walk \in Walks /\ walk.end = end /\ end <= h.brk
  BY <1>1, EventWalk
<1> HIDE DEF end, walk, limit
<1>5. CASE b \in ReadNow(walk)
  <2>1. walk # None
    BY <1>2, <1>5, ReadOnce DEF CanRead
  <2>2. limit \in Nat
    BY OptionsTyped DEF Inv, limit
  <2>3. walk \in Walks /\ walk.end <= h.brk
    BY <1>4, <2>1
  <2>4. Len(h.lists[b]) < ChainLimit /\ ReadBin(h, walk, t, limit, b).chain # None
    BY <1>3, <1>5
  <2>5. ReadBin(h, walk, t, limit, b).chain.end = "unknown_next"
    BY <1>1, <2>2, <2>3, <2>4, LinkedStrays
  <2> QED BY <1>3, <1>5, <2>5
<1>6. CASE b \notin ReadNow(walk)
  BY <1>1, <1>3, <1>6 DEF KeptStrays
<1> QED BY <1>5, <1>6

\* A chain that left the heap is a finding of every scan.
LEMMA StrayFound ==
  ASSUME NEW o, NEW k, NEW t, NEW walk, NEW top, NEW b \in Bins,
         k[b] # None, k[b].chain # None, k[b].chain.end = "unknown_next"
  PROVE  \E f \in Report(o, k, t, walk, top).findings :
           f.kind = "free_list_node_outside_heap" /\ f.where = b
<1> DEFINE mapped == IF walk = None THEN 0 ELSE walk.end
           f == Suspicion("free_list_node_outside_heap", k[b].chain.head, None, b)
           prior == WalkFindings(walk) \cup WarningFindings(Warnings(o, k, t))
<1>1. f \in ChainFindings(k, b, mapped)
  <2> HIDE DEF mapped, f
  <2> QED BY DEF ChainFindings, f
<1>2. f.kind = "free_list_node_outside_heap" /\ f.where = b
  BY DEF Suspicion, Finding
<1> HIDE DEF f
<1>3. f \in FindingsAfter(prior, o, k, t, walk, top)
  <2> HIDE DEF prior
  <2>1. f \in UNION {ChainFindings(k, x, mapped) : x \in Bins}
    <3> HIDE DEF mapped
    <3> QED BY <1>1
  <2> QED BY <2>1 DEF FindingsAfter
<1>4. Report(o, k, t, walk, top).findings = FindingsAfter(prior, o, k, t, walk, top)
  <2> HIDE DEF prior
  <2> QED BY DEF Report, ReportOf, Findings, prior
<1> HIDE DEF prior
<1> QED BY <1>2, <1>3, <1>4

\* The finding of an event's scan.
LEMMA StrayTold ==
  ASSUME Inv, NEW h, NEW t, NEW o, NEW e, Told(h, t, o, e), KeptStrays'
  PROVE  HeaderTakenForStray'
<1> DEFINE scan == OnlyIf("chunks" \in config.texts, Snapshot(h, Discovered(h)))
           report == ReportOn(h, t, o, scan, kept')
<1> SUFFICES ASSUME ~Aligned', heap'.bad = None, NEW r \in Said("heap_scan")', NEW b \in Linked,
                    kept'[b] # None, kept'[b].chain # None, Len(wasIn'[b]) < ChainLimit
             PROVE  \E f \in r.body.findings : f.kind = "free_list_node_outside_heap" /\ f.where = b
  BY DEF HeaderTakenForStray
<1>1. report # None /\ r = ScanRecord(events + 1, report)
  BY EventRelated DEF Said
<1>2. kept'[b].chain.end = "unknown_next" /\ b \in Bins
  BY DEF KeptStrays, Linked
<1> HIDE DEF scan
<1>3. PICK k : k = kept'
  OBVIOUS
<1>4. report = Report(Seen(o), k, t, scan, TopValidated(h, scan))
  BY <1>1, <1>3 DEF ReportOn, OnlyIf
<1>5. \E f \in Report(Seen(o), k, t, scan, TopValidated(h, scan)).findings :
        f.kind = "free_list_node_outside_heap" /\ f.where = b
  BY <1>2, <1>3, StrayFound
<1> HIDE DEF report
<1>6. r.body = report
  BY <1>1 DEF ScanRecord, Record
<1> QED BY <1>4, <1>5, <1>6

\* Where the header of a bin lies below its fd word, every scan calls every doubly
\* linked bin it read a chain that leaves the heap, empty ones too
\* (lib.rs:4394-4418, 4515-4534, heap_scan.rs:428-486).
THEOREM StrayAlways == Spec => []HeaderTakenForStray
<1>1. Init => HeaderTakenForStray /\ KeptStrays
  <2> SUFFICES ASSUME Init PROVE HeaderTakenForStray /\ KeptStrays
    OBVIOUS
  <2>1. related = <<>> /\ \A b \in Linked : kept[b] = None
    BY DEF Init, Linked
  <2> QED BY <2>1 DEF HeaderTakenForStray, KeptStrays, Said, ToSet
<1>2. Inv /\ HeaderTakenForStray /\ KeptStrays /\ [Next]_vars => HeaderTakenForStray' /\ KeptStrays'
  <2> SUFFICES ASSUME Inv, HeaderTakenForStray, KeptStrays, [Next]_vars
               PROVE  HeaderTakenForStray' /\ KeptStrays'
    OBVIOUS
  <2>1. CASE TracedMalloc \/ TracedFree \/ TracedRealloc \/ TracedNull
    BY <2>1, EventTold, KeptStraysTold, StrayTold
  <2>2. CASE Overwrite
    <3>1. heap'.bad # None
      BY <2>2, OverwriteKeeps
    <3> QED BY <3>1 DEF HeaderTakenForStray, KeptStrays
  <2>3. CASE UntracedMalloc \/ UntracedFree
    <3>1. UNCHANGED <<related, kept, wasIn>>
      BY <2>3, HiddenKeeps DEF trace
    <3>2. heap'.bad = heap.bad /\ heap'.skew = heap.skew
      <4>1. WellFormed(heap)
        BY DEF Inv
      <4>2. CASE UntracedMalloc
        <5>1. PICK s \in Served(heap) : heap' = s.heap
          BY <4>2 DEF UntracedMalloc
        <5> QED BY <4>1, <5>1, ChunkServed DEF Serves
      <4>3. CASE UntracedFree
        <5>1. PICK c \in Freeable(heap) : heap' = Given(heap, c)
          BY <4>3 DEF UntracedFree
        <5>2. Takes(heap, heap', c)
          BY <4>1, <5>1, ChunkGiven
        <5> QED BY <5>2 DEF Takes, SameButLists
      <4> QED BY <2>3, <4>2, <4>3
    <3> QED BY <3>1, <3>2 DEF HeaderTakenForStray, KeptStrays, Aligned, Said
  <2>4. CASE UNCHANGED vars
    <3>1. UNCHANGED <<heap, related, kept, wasIn>>
      BY <2>4 DEF vars, world, trace
    <3> QED BY <3>1 DEF HeaderTakenForStray, KeptStrays, Aligned, Said
  <2> QED BY <2>1, <2>2, <2>3, <2>4 DEF Next
<1> QED BY <1>1, <1>2, InvAlways, PTL DEF Spec

================================================================================
