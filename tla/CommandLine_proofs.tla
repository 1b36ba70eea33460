-------------------------- MODULE CommandLine_proofs --------------------------
(***************************************************************************)
(* What the parser of the command line makes of a line of any length, and  *)
(* what the other proofs about the evidence need of it.                    *)
(***************************************************************************)
EXTENDS HeapEvidence, TLAPS, WellFoundedInduction, NaturalsInduction, FiniteSetTheorems

-----------------------------------------------------------------------------
(* Counting                                                                *)

\* A set of natural numbers that is not empty has a least element.
LEMMA LeastNumber ==
  ASSUME NEW S \in SUBSET Nat, S # {}
  PROVE  \E m \in S : \A n \in S : m <= n
<1>1. \E m \in S : \A n \in S : <<n, m>> \notin OpToRel(<, Nat)
  BY WFMin, NatLessThanWellFounded, Zenon
<1>2. \A n, m \in Nat : <<n, m>> \notin OpToRel(<, Nat) => m <= n
  BY DEF OpToRel
<1> QED BY <1>1, <1>2

\* What holds of 0, and of a number if of the one before, holds of all.
LEMMA Induct ==
  ASSUME NEW N \in Nat, NEW S, 0 \in S, \A n \in 0 .. N - 1 : n \in S => n + 1 \in S
  PROVE  \A n \in 0 .. N : n \in S
<1> DEFINE R == {n \in 0 .. N : n \notin S}
<1> SUFFICES ASSUME R # {} PROVE FALSE
  OBVIOUS
<1>0. R \in SUBSET Nat
  OBVIOUS
<1>1. PICK n \in R : \A m \in R : n <= m
  <2> HIDE DEF R
  <2> QED BY <1>0, LeastNumber
<1>2. n \in 0 .. N /\ n # 0 /\ n - 1 \in 0 .. N - 1 /\ ~(n <= n - 1) /\ n - 1 \in 0 .. N
  BY <1>1
<1>3. n - 1 \in S
  BY <1>1, <1>2
<1> QED BY <1>1, <1>2, <1>3

\* e lists the numbers of I, each once, in their order.
Enumerates(e, m, I) ==
  /\ m \in Nat /\ e \in [1 .. m -> I]
  /\ \A i, j \in 1 .. m : i < j => e[i] < e[j]
  /\ \A x \in I : \E i \in 1 .. m : e[i] = x

\* What a first list of some numbers has at a place, a second one has there too.
LEMMA EnumeratesAlike ==
  ASSUME NEW I \in SUBSET Nat, NEW e, NEW m, NEW f, NEW n, Enumerates(e, m, I), Enumerates(f, n, I)
  PROVE  \A r \in 1 .. m : r \in 1 .. n /\ f[r] = e[r]
<1> DEFINE R == {r \in 1 .. m : ~(r \in 1 .. n /\ f[r] = e[r])}
<1> SUFFICES ASSUME R # {} PROVE FALSE
  OBVIOUS
<1>0. R \in SUBSET Nat /\ m \in Nat /\ n \in Nat
  BY DEF Enumerates
<1>1. PICK r \in R : \A q \in R : r <= q
  <2> HIDE DEF R
  <2> QED BY <1>0, LeastNumber
<1>2. r \in 1 .. m /\ ~(r \in 1 .. n /\ f[r] = e[r])
  BY <1>1
<1>3. \A q \in 1 .. m : q < r => q \in 1 .. n /\ f[q] = e[q]
  BY <1>0, <1>1
<1> HIDE DEF R
<1>4. \A q \in 1 .. m : e[q] \in I /\ e[q] \in Nat
  BY DEF Enumerates
<1>5. \A q \in 1 .. n : f[q] \in I /\ f[q] \in Nat
  BY DEF Enumerates
<1>6. PICK t \in 1 .. n : f[t] = e[r]
  BY <1>2, <1>4 DEF Enumerates
<1>7. ~(t < r)
  <2> SUFFICES ASSUME t < r PROVE FALSE
    OBVIOUS
  <2>1. t \in 1 .. m
    BY <1>0, <1>2
  <2>2. f[t] = e[t] /\ e[t] < e[r]
    BY <1>2, <1>3, <2>1 DEF Enumerates
  <2> QED BY <1>2, <1>4, <1>6, <2>1, <2>2
<1>8. r \in 1 .. n
  BY <1>0, <1>2, <1>6, <1>7
<1>9. f[r] <= e[r]
  <2>1. CASE t = r
    BY <1>4, <1>2, <1>6, <2>1
  <2>2. CASE r < t
    <3>1. f[r] < f[t]
      BY <1>8, <2>2 DEF Enumerates
    <3> QED BY <1>2, <1>4, <1>5, <1>6, <1>8, <3>1
  <2> QED BY <1>0, <1>2, <1>7, <2>1, <2>2
<1>10. PICK u \in 1 .. m : e[u] = f[r]
  BY <1>5, <1>8 DEF Enumerates
<1>11. ~(u < r)
  <2> SUFFICES ASSUME u < r PROVE FALSE
    OBVIOUS
  <2>1. u \in 1 .. n /\ f[u] = e[u]
    BY <1>3
  <2>2. f[u] < f[r]
    BY <1>8, <2>1 DEF Enumerates
  <2> QED BY <1>5, <1>8, <1>10, <2>1, <2>2
<1>12. e[r] <= f[r]
  <2>1. CASE u = r
    BY <1>4, <1>2, <1>10, <2>1
  <2>2. CASE r < u
    <3>1. e[r] < e[u]
      BY <1>2, <2>2 DEF Enumerates
    <3> QED BY <1>2, <1>4, <1>5, <1>10, <1>8, <3>1
  <2> QED BY <1>0, <1>2, <1>11, <2>1, <2>2
<1> QED BY <1>2, <1>4, <1>5, <1>8, <1>9, <1>12

\* Numbers are listed in their order in one way only.
LEMMA EnumeratesOnce ==
  ASSUME NEW I \in SUBSET Nat, NEW e, NEW m, NEW f, NEW n, Enumerates(e, m, I), Enumerates(f, n, I)
  PROVE  m = n /\ \A r \in 1 .. m : f[r] = e[r]
<1>1. \A r \in 1 .. m : r \in 1 .. n /\ f[r] = e[r]
  BY EnumeratesAlike
<1>2. \A r \in 1 .. n : r \in 1 .. m
  BY EnumeratesAlike
<1>3. m \in Nat /\ n \in Nat
  BY DEF Enumerates
<1>4. m <= n
  <2>1. m = 0 \/ m \in 1 .. m
    BY <1>3
  <2> QED BY <1>1, <1>3, <2>1
<1>5. n <= m
  <2>1. n = 0 \/ n \in 1 .. n
    BY <1>3
  <2> QED BY <1>2, <1>3, <2>1
<1> QED BY <1>1, <1>3, <1>4, <1>5

\* One more number, or none more.
LEMMA EnumeratesMore ==
  ASSUME NEW k \in Nat, NEW I \in SUBSET (1 .. k), NEW e, NEW m, Enumerates(e, m, I)
  PROVE  Enumerates([i \in 1 .. m + 1 |-> IF i = m + 1 THEN k + 1 ELSE e[i]], m + 1, I \cup {k + 1})
<1> DEFINE J == I \cup {k + 1}
           g == [i \in 1 .. m + 1 |-> IF i = m + 1 THEN k + 1 ELSE e[i]]
<1>0. m \in Nat /\ \A i \in 1 .. m : e[i] \in I /\ e[i] \in 1 .. k
  BY DEF Enumerates
<1>1. \A i \in 1 .. m : i \in 1 .. m + 1 /\ g[i] = e[i]
  BY <1>0
<1>2. g[m + 1] = k + 1
  BY <1>0
<1>3. \A i \in 1 .. m + 1 : i \in 1 .. m \/ i = m + 1
  BY <1>0
<1>4. g \in [1 .. m + 1 -> J]
  BY <1>0
<1> HIDE DEF g
<1>5. \A i, j \in 1 .. m + 1 : i < j => g[i] < g[j]
  <2> SUFFICES ASSUME NEW i \in 1 .. m + 1, NEW j \in 1 .. m + 1, i < j PROVE g[i] < g[j]
    OBVIOUS
  <2>1. i \in 1 .. m
    BY <1>0
  <2>2. CASE j \in 1 .. m
    BY <1>1, <2>1, <2>2 DEF Enumerates
  <2>3. CASE j = m + 1
    BY <1>0, <1>1, <1>2, <2>1, <2>3
  <2> QED BY <1>3, <2>2, <2>3
<1>6. \A x \in J : \E i \in 1 .. m + 1 : g[i] = x
  <2> SUFFICES ASSUME NEW x \in J PROVE \E i \in 1 .. m + 1 : g[i] = x
    OBVIOUS
  <2>1. CASE x = k + 1
    <3>1. m + 1 \in 1 .. m + 1
      BY <1>0
    <3> QED BY <1>2, <2>1, <3>1
  <2>2. CASE x \in I
    <3>1. PICK i \in 1 .. m : e[i] = x
      BY <2>2 DEF Enumerates
    <3> QED BY <1>1, <3>1
  <2> QED BY <2>1, <2>2
<1>7. m + 1 \in Nat
  BY <1>0
<1> QED BY <1>4, <1>5, <1>6, <1>7 DEF Enumerates, g

-----------------------------------------------------------------------------
(* The loop over the options                                               *)

\* What the loop has after each option.
Looping(f, line) ==
  /\ f[0] = {L!Default}
  /\ \A k \in 1 .. Len(line) : f[k] = L!Option(f[k - 1], line[k])

\* The loop can be run over any line, and its outcome is what it has in the end.
LEMMA LoopRuns ==
  ASSUME NEW line, Len(line) \in Nat
  PROVE  \E f : Looping(f, line) /\ L!Options(line) = f[Len(line)]
<1> DEFINE N == Len(line)
           b == {L!Default}
           Upto(f, m) == f = [k \in 0 .. m |-> IF k = 0 THEN b ELSE L!Option(f[k - 1], line[k])]
           S == {m \in 0 .. N : \E f : Upto(f, m)}
           g == CHOOSE f : Upto(f, N)
<1>1. L!Options(line) = g[N]
  BY DEF L!Options
<1> HIDE DEF N, b
<1>2. N \in Nat
  BY DEF N
<1>3. 0 \in S
  <2>1. Upto([k \in 0 .. 0 |-> b], 0)
    OBVIOUS
  <2> HIDE DEF Upto
  <2> QED BY <1>2, <2>1
<1>4. ASSUME NEW m \in 0 .. N - 1, m \in S PROVE m + 1 \in S
  <2>1. PICK f : Upto(f, m)
    BY <1>4
  <2>2. m \in Nat /\ DOMAIN f = 0 .. m
    BY <1>2, <2>1
  <2> DEFINE h == [k \in 0 .. m + 1 |-> IF k = m + 1 THEN L!Option(f[m], line[m + 1]) ELSE f[k]]
             v(k) == IF k = 0 THEN b ELSE L!Option(h[k - 1], line[k])
  <2>3. \A k \in 0 .. m : h[k] = f[k]
    BY <2>2
  <2>4. ASSUME NEW k \in 0 .. m + 1 PROVE h[k] = v(k)
    <3>1. CASE k = 0
      <4>1. f[0] = b
        BY <2>1, <2>2
      <4> QED BY <2>2, <2>3, <3>1, <4>1
    <3>2. CASE k \in 1 .. m
      <4>1. h[k] = f[k] /\ h[k - 1] = f[k - 1]
        BY <2>2, <2>3, <3>2
      <4>2. f[k] = L!Option(f[k - 1], line[k])
        BY <2>1, <2>2, <3>2
      <4> QED BY <2>2, <3>2, <4>1, <4>2
    <3>3. CASE k = m + 1
      <4>1. h[k] = L!Option(f[m], line[m + 1])
        BY <2>2, <3>3
      <4>2. h[m] = f[m] /\ k - 1 = m /\ k # 0
        BY <2>2, <2>3, <3>3
      <4> QED BY <3>3, <4>1, <4>2
    <3> QED BY <2>2, <3>1, <3>2, <3>3
  <2>5. Upto(h, m + 1)
    <3>1. h = [k \in 0 .. m + 1 |-> h[k]]
      OBVIOUS
    <3> HIDE DEF h
    <3> QED BY <2>4, <3>1
  <2> HIDE DEF Upto, h
  <2> QED BY <1>2, <2>2, <2>5
<1>5. N \in S
  <2> HIDE DEF S
  <2>1. \A m \in 0 .. N : m \in S
    BY <1>2, <1>3, <1>4, Induct
  <2> QED BY <1>2, <2>1
<1>6. Upto(g, N)
  <2> HIDE DEF Upto
  <2> QED BY <1>5
<1>7. g[0] = b /\ \A k \in 1 .. N : g[k] = L!Option(g[k - 1], line[k])
  <2> HIDE DEF g
  <2> QED BY <1>2, <1>6
<1> HIDE DEF g
<1> QED BY <1>1, <1>7 DEF Looping, N, b

\* The options among the first k whose flag is one of F.
Met(line, k, F) == {i \in 1 .. k : line[i].flag \in F}

\* The options of the flags F among the first k.
OptionsOf(line, k, F) == {line[i] : i \in Met(line, k, F)}

\* The flags of F met among the first k options.
FlagsOf(line, k, F) == {line[i].flag : i \in Met(line, k, F)}

\* The first k options are taken.
Taken(line, k) ==
  /\ \A i \in 1 .. k : L!Allowed(line[i])
  /\ \A i, j \in Met(line, k, L!Stdin) : i = j

\* What has become of the texts shown.
TextsAfter(line, k) ==
  IF Met(line, k, {"--events-only"}) # {} THEN {}
  ELSE ({"notes", "explanations"}
          \cup (IF Met(line, k, {"--no-chunks"}) = {} THEN {"chunks"} ELSE {}))
       \cup (IF Met(line, k, {"--layout"}) = {} THEN {} ELSE {"layout"})

\* A value stored is that of the last option that stores it.
StoredAs(line, k, s, value) ==
  \/ Met(line, k, {s}) = {} /\ value = L!Default.stored[s]
  \/ \E i \in Met(line, k, {s}) : (\A j \in Met(line, k, {s}) : j <= i) /\ value = line[i].value

\* The values listed are those of the options that list one, in their order.
ListedAs(line, k, l, values) ==
  \E m, e : /\ Enumerates(e, m, Met(line, k, {l}))
            /\ values = [r \in 1 .. m |-> line[e[r]].value]

\* What the configuration says after the first k options.
Tells(line, k, c) ==
  /\ c = [texts |-> TextsAfter(line, k),
          views |-> UNION {L!Shown(line[i].flag) : i \in 1 .. k},
          stored |-> [s \in L!Stored |-> c.stored[s]],
          listed |-> [l \in L!Listed |-> c.listed[l]],
          breaks |-> c.breaks,
          on     |-> FlagsOf(line, k, L!Switches),
          stdin  |-> OptionsOf(line, k, L!Stdin),
          eventsOnly |-> (Met(line, k, {"--events-only"}) # {})]
  /\ \A s \in L!Stored : StoredAs(line, k, s, c.stored[s])
  /\ \A l \in L!Listed : ListedAs(line, k, l, c.listed[l])
  /\ c.breaks \in Seq(OptionsOf(line, k, L!Breaks))
  /\ ToSet(c.breaks) = OptionsOf(line, k, L!Breaks)

\* Before the first option nothing is asked for.
LEMMA TellsFirst ==
  ASSUME NEW line
  PROVE  Tells(line, 0, L!Default) /\ Taken(line, 0)
<1>1. \A F : Met(line, 0, F) = {}
  BY DEF Met
<1>2. \A l \in L!Listed : ListedAs(line, 0, l, <<>>)
  <2> SUFFICES ASSUME NEW l \in L!Listed PROVE ListedAs(line, 0, l, <<>>)
    OBVIOUS
  <2> DEFINE e == [i \in 1 .. 0 |-> 0]
  <2>1. Enumerates(e, 0, {})
    BY DEF Enumerates
  <2>2. <<>> = [r \in 1 .. 0 |-> line[e[r]].value]
    OBVIOUS
  <2> HIDE DEF e
  <2>3. Enumerates(e, 0, Met(line, 0, {l}))
    BY <1>1, <2>1
  <2> QED BY <2>2, <2>3 DEF ListedAs
<1>3. \A s \in L!Stored : StoredAs(line, 0, s, L!Default.stored[s])
  BY <1>1 DEF StoredAs
<1>4. TextsAfter(line, 0) = {"chunks", "notes", "explanations"}
  BY <1>1 DEF TextsAfter
<1>5. UNION {L!Shown(line[i].flag) : i \in 1 .. 0} = {}
  OBVIOUS
<1> DEFINE d == L!Default
<1>6. /\ d.texts = {"chunks", "notes", "explanations"} /\ d.views = {} /\ d.breaks = <<>> /\ d.on = {}
      /\ d.stdin = {} /\ d.eventsOnly = FALSE /\ d.listed = [l \in L!Listed |-> <<>>]
      /\ d.stored = [s \in L!Stored |-> d.stored[s]]
  BY DEF L!Default
<1>7. d = [texts |-> d.texts, views |-> d.views, stored |-> d.stored, listed |-> d.listed,
           breaks |-> d.breaks, on |-> d.on, stdin |-> d.stdin, eventsOnly |-> d.eventsOnly]
  BY DEF L!Default
<1> HIDE DEF d
<1>8. /\ FlagsOf(line, 0, L!Switches) = {} /\ OptionsOf(line, 0, L!Stdin) = {}
      /\ OptionsOf(line, 0, L!Breaks) = {} /\ (Met(line, 0, {"--events-only"}) # {}) = FALSE
  BY <1>1 DEF OptionsOf, FlagsOf
<1>9. ToSet(<<>>) = {} /\ <<>> \in Seq({})
  BY DEF ToSet
<1>10. \A l \in L!Listed : d.listed[l] = <<>>
  BY <1>6
<1>11. d.listed = [l \in L!Listed |-> d.listed[l]]
  BY <1>6
<1>12. d = [texts |-> TextsAfter(line, 0),
          views |-> UNION {L!Shown(line[i].flag) : i \in 1 .. 0},
          stored |-> [s \in L!Stored |-> d.stored[s]],
          listed |-> [l \in L!Listed |-> d.listed[l]],
          breaks |-> d.breaks,
          on     |-> FlagsOf(line, 0, L!Switches),
          stdin  |-> OptionsOf(line, 0, L!Stdin),
          eventsOnly |-> (Met(line, 0, {"--events-only"}) # {})]
  BY <1>4, <1>5, <1>6, <1>7, <1>8, <1>11, Zenon
<1>13. \A s \in L!Stored : StoredAs(line, 0, s, d.stored[s])
  BY <1>3 DEF d
<1>14. \A l \in L!Listed : ListedAs(line, 0, l, d.listed[l])
  BY <1>2, <1>10
<1>15. d.breaks \in Seq(OptionsOf(line, 0, L!Breaks)) /\ ToSet(d.breaks) = OptionsOf(line, 0, L!Breaks)
  BY <1>6, <1>8, <1>9
<1>16. Tells(line, 0, d)
  BY <1>12, <1>13, <1>14, <1>15 DEF Tells
<1>17. Taken(line, 0)
  BY <1>1 DEF Taken
<1> QED BY <1>16, <1>17 DEF d

\* The options met after one more.
LEMMA MetMore ==
  ASSUME NEW line, NEW k \in Nat, NEW F
  PROVE  Met(line, k + 1, F) = Met(line, k, F) \cup (IF line[k + 1].flag \in F THEN {k + 1} ELSE {})
<1>1. 1 .. k + 1 = (1 .. k) \cup {k + 1}
  OBVIOUS
<1> QED BY <1>1 DEF Met

\* The texts shown after one more option.
LEMMA TextsMore ==
  ASSUME NEW line, NEW k \in Nat, NEW c, c.texts = TextsAfter(line, k)
  PROVE  TextsAfter(line, k + 1) = L!Texts(c, line[k + 1].flag)
<1> DEFINE flag == line[k + 1].flag
           E(n) == Met(line, n, {"--events-only"})
           C(n) == Met(line, n, {"--no-chunks"})
           Y(n) == Met(line, n, {"--layout"})
<1>1. /\ E(k + 1) = E(k) \cup (IF flag = "--events-only" THEN {k + 1} ELSE {})
      /\ C(k + 1) = C(k) \cup (IF flag = "--no-chunks" THEN {k + 1} ELSE {})
      /\ Y(k + 1) = Y(k) \cup (IF flag = "--layout" THEN {k + 1} ELSE {})
  <2> HIDE DEF flag
  <2>0. \A f : Met(line, k + 1, {f}) = Met(line, k, {f}) \cup (IF flag \in {f} THEN {k + 1} ELSE {})
    BY MetMore DEF flag
  <2>1. \A f : flag \in {f} <=> flag = f
    OBVIOUS
  <2>2. \A f : Met(line, k + 1, {f}) = Met(line, k, {f}) \cup (IF flag = f THEN {k + 1} ELSE {})
    BY <2>0, <2>1, Zenon
  <2> QED BY <2>2, Zenon
<1>2. /\ E(k + 1) = {} <=> E(k) = {} /\ flag # "--events-only"
      /\ C(k + 1) = {} <=> C(k) = {} /\ flag # "--no-chunks"
      /\ Y(k + 1) = {} <=> Y(k) = {} /\ flag # "--layout"
  BY <1>1
<1>3. \A n : TextsAfter(line, n) =
         IF E(n) # {} THEN {}
         ELSE ({"notes", "explanations"} \cup (IF C(n) = {} THEN {"chunks"} ELSE {}))
              \cup (IF Y(n) = {} THEN {} ELSE {"layout"})
  BY DEF TextsAfter
<1> HIDE DEF E, C, Y, flag
<1>4. CASE flag = "--events-only"
  BY <1>2, <1>3, <1>4 DEF L!Texts, flag
<1>5. CASE flag = "--no-chunks"
  <2>1. TextsAfter(line, k + 1) = TextsAfter(line, k) \ {"chunks"}
    BY <1>2, <1>3, <1>5
  <2> QED BY <1>5, <2>1 DEF L!Texts, flag
<1>6. CASE flag = "--layout"
  <2>1. CASE E(k) # {}
    <3>1. TextsAfter(line, k + 1) = {} /\ c.texts = {}
      BY <1>2, <1>3, <1>6, <2>1
    <3> QED BY <1>6, <3>1 DEF L!Texts, flag
  <2>2. CASE E(k) = {}
    <3>1. TextsAfter(line, k + 1) = c.texts \cup {"layout"} /\ "notes" \in c.texts
      BY <1>2, <1>3, <1>6, <2>2
    <3>2. c.texts \ {"layout"} # {}
      BY <3>1
    <3> QED BY <1>6, <3>1, <3>2 DEF L!Texts, flag
  <2> QED BY <2>1, <2>2
<1>7. CASE flag \notin {"--events-only", "--no-chunks", "--layout"}
  <2>1. TextsAfter(line, k + 1) = TextsAfter(line, k)
    BY <1>2, <1>3, <1>7
  <2> QED BY <1>7, <2>1 DEF L!Texts, flag
<1> QED BY <1>4, <1>5, <1>6, <1>7

\* The value stored after one more.
LEMMA StoredMore ==
  ASSUME NEW line, NEW k \in Nat, NEW s, NEW value, StoredAs(line, k, s, value)
  PROVE  StoredAs(line, k + 1, s, IF s = line[k + 1].flag THEN line[k + 1].value ELSE value)
<1>1. Met(line, k + 1, {s}) = Met(line, k, {s}) \cup (IF line[k + 1].flag = s THEN {k + 1} ELSE {})
  BY MetMore
<1>2. Met(line, k + 1, {s}) \subseteq 1 .. k + 1
  BY DEF Met
<1>3. CASE s = line[k + 1].flag
  <2>1. k + 1 \in Met(line, k + 1, {s}) /\ \A j \in Met(line, k + 1, {s}) : j <= k + 1
    BY <1>1, <1>2, <1>3
  <2> QED BY <1>3, <2>1 DEF StoredAs
<1>4. CASE s # line[k + 1].flag
  <2>1. Met(line, k + 1, {s}) = Met(line, k, {s})
    BY <1>1, <1>4
  <2> QED BY <1>4, <2>1 DEF StoredAs
<1> QED BY <1>3, <1>4

\* The values listed after one more.
LEMMA ListedMore ==
  ASSUME NEW line, NEW k \in Nat, NEW l, NEW values, ListedAs(line, k, l, values)
  PROVE  ListedAs(line, k + 1, l,
                  IF l = line[k + 1].flag THEN Append(values, line[k + 1].value) ELSE values)
<1>1. Met(line, k + 1, {l}) = Met(line, k, {l}) \cup (IF line[k + 1].flag = l THEN {k + 1} ELSE {})
  BY MetMore
<1>2. CASE l = line[k + 1].flag
  <2>1. PICK m, e : Enumerates(e, m, Met(line, k, {l})) /\ values = [r \in 1 .. m |-> line[e[r]].value]
    BY DEF ListedAs
  <2> DEFINE g == [i \in 1 .. m + 1 |-> IF i = m + 1 THEN k + 1 ELSE e[i]]
             more == [r \in 1 .. m + 1 |-> line[g[r]].value]
  <2>2. Met(line, k, {l}) \in SUBSET (1 .. k)
    BY DEF Met
  <2>3. Enumerates(g, m + 1, Met(line, k, {l}) \cup {k + 1})
    BY <2>1, <2>2, EnumeratesMore
  <2>4. m \in Nat
    BY <2>1 DEF Enumerates
  <2>5. Append(values, line[k + 1].value) = more
    <3>1. Len(values) = m /\ DOMAIN values = 1 .. m
      BY <2>1, <2>4
    <3>2. Append(values, line[k + 1].value) =
            [i \in 1 .. m + 1 |-> IF i = m + 1 THEN line[k + 1].value ELSE values[i]]
      <4>1. values \in Seq({values[i] : i \in 1 .. m})
        BY <2>1, <2>4
      <4> QED BY <3>1, <4>1
    <3>3. \A i \in 1 .. m + 1 : more[i] = IF i = m + 1 THEN line[k + 1].value ELSE values[i]
      <4> SUFFICES ASSUME NEW i \in 1 .. m + 1
                   PROVE  more[i] = IF i = m + 1 THEN line[k + 1].value ELSE values[i]
        OBVIOUS
      <4>1. CASE i = m + 1
        BY <4>1
      <4>2. CASE i # m + 1
        <5>1. i \in 1 .. m
          BY <2>4, <4>2
        <5> QED BY <2>1, <4>2, <5>1
      <4> QED BY <4>1, <4>2
    <3> QED BY <3>2, <3>3
  <2> HIDE DEF g
  <2>6. Enumerates(g, m + 1, Met(line, k + 1, {l}))
    BY <1>1, <1>2, <2>3
  <2>7. ListedAs(line, k + 1, l, more)
    BY <2>6 DEF ListedAs
  <2> HIDE DEF more
  <2> QED BY <1>2, <2>5, <2>7
<1>3. CASE l # line[k + 1].flag
  <2>1. Met(line, k + 1, {l}) = Met(line, k, {l})
    BY <1>1, <1>3
  <2>2. ListedAs(line, k + 1, l, values)
    BY <2>1 DEF ListedAs
  <2> QED BY <1>3, <2>2
<1> QED BY <1>2, <1>3

\* The options of some flags, after one more.
LEMMA OptionsMore ==
  ASSUME NEW line, NEW k \in Nat, NEW F
  PROVE  OptionsOf(line, k + 1, F) =
           OptionsOf(line, k, F) \cup (IF line[k + 1].flag \in F THEN {line[k + 1]} ELSE {})
<1>1. Met(line, k + 1, F) = Met(line, k, F) \cup (IF line[k + 1].flag \in F THEN {k + 1} ELSE {})
  BY MetMore
<1> QED BY <1>1 DEF OptionsOf

\* The flags of some options, after one more.
LEMMA FlagsMore ==
  ASSUME NEW line, NEW k \in Nat, NEW F
  PROVE  FlagsOf(line, k + 1, F) =
           FlagsOf(line, k, F) \cup ({line[k + 1].flag} \cap F)
<1>1. Met(line, k + 1, F) = Met(line, k, F) \cup (IF line[k + 1].flag \in F THEN {k + 1} ELSE {})
  BY MetMore
<1> QED BY <1>1 DEF FlagsOf

\* What is shown, after one more.
LEMMA ViewsMore ==
  ASSUME NEW line, NEW k \in Nat
  PROVE  UNION {L!Shown(line[i].flag) : i \in 1 .. k + 1} =
           (UNION {L!Shown(line[i].flag) : i \in 1 .. k}) \cup L!Shown(line[k + 1].flag)
<1> DEFINE s(i) == L!Shown(line[i].flag)
<1>1. 1 .. k + 1 = (1 .. k) \cup {k + 1}
  OBVIOUS
<1> HIDE DEF s
<1>2. UNION {s(i) : i \in 1 .. k + 1} = (UNION {s(i) : i \in 1 .. k}) \cup s(k + 1)
  BY <1>1
<1> QED BY <1>2 DEF s

\* The break conditions, after one more.
LEMMA BreaksMore ==
  ASSUME NEW S, NEW seq \in Seq(S), ToSet(seq) = S, NEW o
  PROVE  Append(seq, o) \in Seq(S \cup {o}) /\ ToSet(Append(seq, o)) = S \cup {o}
<1>1. Len(seq) \in Nat /\ seq \in [1 .. Len(seq) -> S] /\ DOMAIN seq = 1 .. Len(seq)
  OBVIOUS
<1>3. seq \in Seq(S \cup {o})
  BY <1>1
<1> DEFINE t == Append(seq, o)
<1>4. t \in Seq(S \cup {o})
  BY <1>3
<1>5. /\ DOMAIN t = 1 .. Len(seq) + 1 /\ t[Len(seq) + 1] = o
      /\ \A i \in 1 .. Len(seq) : t[i] = seq[i] /\ i \in 1 .. Len(seq) + 1
  BY <1>1, <1>3
<1>6. \A i \in 1 .. Len(seq) + 1 : i \in 1 .. Len(seq) \/ i = Len(seq) + 1
  BY <1>1
<1> HIDE DEF t
<1>7. S = {seq[i] : i \in 1 .. Len(seq)}
  BY <1>1 DEF ToSet
<1>8. Len(seq) + 1 \in 1 .. Len(seq) + 1
  BY <1>1
<1>9. ToSet(t) = S \cup {o}
  BY <1>5, <1>6, <1>7, <1>8 DEF ToSet
<1> QED BY <1>4, <1>9 DEF t

\* What the configuration says after one more.
LEMMA TellsMore ==
  ASSUME NEW line, NEW k \in Nat, NEW c, Tells(line, k, c),
         line[k + 1].flag \in L!Stdin => Met(line, k, L!Stdin) = {}
  PROVE  Tells(line, k + 1, L!Applied(c, line[k + 1]))
<1> DEFINE o == line[k + 1]
           d == L!Applied(c, o)
           only(n) == Met(line, n, {"--events-only"}) # {}
<1>1. /\ c.texts = TextsAfter(line, k) /\ c.views = UNION {L!Shown(line[i].flag) : i \in 1 .. k}
      /\ c.on = FlagsOf(line, k, L!Switches)
      /\ c.stdin = OptionsOf(line, k, L!Stdin) /\ c.eventsOnly = only(k)
      /\ \A s \in L!Stored : StoredAs(line, k, s, c.stored[s])
      /\ \A l \in L!Listed : ListedAs(line, k, l, c.listed[l])
      /\ c.breaks \in Seq(OptionsOf(line, k, L!Breaks))
      /\ ToSet(c.breaks) = OptionsOf(line, k, L!Breaks)
  BY DEF Tells
<1>2. /\ d.texts = L!Texts(c, o.flag) /\ d.views = c.views \cup L!Shown(o.flag)
      /\ d.stored = [s \in L!Stored |-> IF s = o.flag THEN o.value ELSE c.stored[s]]
      /\ d.listed = [l \in L!Listed |-> IF l = o.flag THEN Append(c.listed[l], o.value) ELSE c.listed[l]]
      /\ d.breaks = (IF o.flag \in L!Breaks THEN Append(c.breaks, o) ELSE c.breaks)
      /\ d.on = c.on \cup ({o.flag} \cap L!Switches)
      /\ d.stdin = (IF o.flag \in L!Stdin THEN {o} ELSE c.stdin)
      /\ d.eventsOnly = (c.eventsOnly \/ o.flag = "--events-only")
  BY DEF L!Applied
<1>3. d = [texts |-> d.texts, views |-> d.views, stored |-> d.stored, listed |-> d.listed,
           breaks |-> d.breaks, on |-> d.on, stdin |-> d.stdin, eventsOnly |-> d.eventsOnly]
  BY DEF L!Applied
<1> HIDE DEF d
<1>4. d.texts = TextsAfter(line, k + 1)
  BY <1>1, <1>2, TextsMore DEF o
<1>5. d.views = UNION {L!Shown(line[i].flag) : i \in 1 .. k + 1}
  BY <1>1, <1>2, ViewsMore DEF o
<1>6. d.stored = [s \in L!Stored |-> d.stored[s]] /\ \A s \in L!Stored : StoredAs(line, k + 1, s, d.stored[s])
  <2>1. \A s \in L!Stored : StoredAs(line, k + 1, s, IF s = o.flag THEN o.value ELSE c.stored[s])
    BY <1>1, StoredMore DEF o
  <2> HIDE DEF o
  <2> QED BY <1>2, <2>1
<1>7. d.listed = [l \in L!Listed |-> d.listed[l]] /\ \A l \in L!Listed : ListedAs(line, k + 1, l, d.listed[l])
  <2>1. \A l \in L!Listed :
          ListedAs(line, k + 1, l, IF l = o.flag THEN Append(c.listed[l], o.value) ELSE c.listed[l])
    BY <1>1, ListedMore DEF o
  <2> HIDE DEF o
  <2> QED BY <1>2, <2>1
<1>8. d.on = FlagsOf(line, k + 1, L!Switches)
  <2>1. FlagsOf(line, k + 1, L!Switches) =
          FlagsOf(line, k, L!Switches) \cup ({o.flag} \cap L!Switches)
    BY FlagsMore DEF o
  <2> HIDE DEF o
  <2> QED BY <1>1, <1>2, <2>1
<1>9. d.stdin = OptionsOf(line, k + 1, L!Stdin)
  <2> DEFINE S(n) == OptionsOf(line, n, L!Stdin)
  <2>1. S(k + 1) = S(k) \cup (IF o.flag \in L!Stdin THEN {o} ELSE {})
    BY OptionsMore DEF o
  <2>2. o.flag \in L!Stdin => S(k) = {}
    BY DEF o, OptionsOf
  <2> HIDE DEF S, o
  <2>3. c.stdin = S(k)
    BY <1>1 DEF S
  <2>4. d.stdin = S(k + 1)
    BY <1>2, <2>1, <2>2, <2>3
  <2> QED BY <2>4 DEF S
<1>10. d.eventsOnly = only(k + 1)
  <2>1. Met(line, k + 1, {"--events-only"}) =
          Met(line, k, {"--events-only"}) \cup (IF o.flag \in {"--events-only"} THEN {k + 1} ELSE {})
    BY MetMore DEF o
  <2> HIDE DEF o
  <2>2. only(k + 1) <=> (only(k) \/ o.flag = "--events-only")
    BY <2>1
  <2> QED BY <1>1, <1>2, <2>2
<1>11. /\ d.breaks \in Seq(OptionsOf(line, k + 1, L!Breaks))
       /\ ToSet(d.breaks) = OptionsOf(line, k + 1, L!Breaks)
  <2> DEFINE B(n) == OptionsOf(line, n, L!Breaks)
  <2>1. B(k + 1) = B(k) \cup (IF o.flag \in L!Breaks THEN {o} ELSE {})
    BY OptionsMore DEF o
  <2> HIDE DEF B, o
  <2>2. c.breaks \in Seq(B(k)) /\ ToSet(c.breaks) = B(k)
    BY <1>1 DEF B
  <2>3. d.breaks \in Seq(B(k + 1)) /\ ToSet(d.breaks) = B(k + 1)
    <3>1. CASE o.flag \in L!Breaks
      <4>1. B(k + 1) = B(k) \cup {o} /\ d.breaks = Append(c.breaks, o)
        BY <1>2, <2>1, <3>1
      <4>2. Append(c.breaks, o) \in Seq(B(k) \cup {o}) /\ ToSet(Append(c.breaks, o)) = B(k) \cup {o}
        BY ONLY <2>2, BreaksMore
      <4> QED BY <4>1, <4>2, Zenon
    <3>2. CASE o.flag \notin L!Breaks
      <4>1. B(k + 1) = B(k) /\ d.breaks = c.breaks
        BY <1>2, <2>1, <3>2
      <4> QED BY <2>2, <4>1
    <3> QED BY <3>1, <3>2
  <2> QED BY <2>3 DEF B
<1> HIDE DEF only
<1>12. d = [texts |-> TextsAfter(line, k + 1),
            views |-> UNION {L!Shown(line[i].flag) : i \in 1 .. k + 1},
            stored |-> [s \in L!Stored |-> d.stored[s]],
            listed |-> [l \in L!Listed |-> d.listed[l]],
            breaks |-> d.breaks,
            on     |-> FlagsOf(line, k + 1, L!Switches),
            stdin  |-> OptionsOf(line, k + 1, L!Stdin),
            eventsOnly |-> only(k + 1)]
  BY <1>3, <1>4, <1>5, <1>6, <1>7, <1>8, <1>9, <1>10, Zenon
<1>13. Tells(line, k + 1, d)
  BY <1>6, <1>7, <1>11, <1>12 DEF Tells, only
<1> QED BY <1>13 DEF d, o

\* The loop leaves what the options say, and nothing if one of them is not taken.
LEMMA LoopTells ==
  ASSUME NEW line, NEW f, Looping(f, line), Len(line) \in Nat
  PROVE  \A k \in 0 .. Len(line) :
           \/ Taken(line, k) /\ \E c : f[k] = {c} /\ Tells(line, k, c)
           \/ ~Taken(line, k) /\ f[k] = {}
<1> DEFINE Said1(k) == \/ Taken(line, k) /\ \E c : f[k] = {c} /\ Tells(line, k, c)
                       \/ ~Taken(line, k) /\ f[k] = {}
           S == {k \in 0 .. Len(line) : Said1(k)}
<1>1. 0 \in S
  BY TellsFirst DEF Looping
<1>2. ASSUME NEW k \in 0 .. Len(line) - 1, k \in S PROVE k + 1 \in S
  <2> DEFINE o == line[k + 1]
  <2>1. k \in Nat /\ k + 1 \in 1 .. Len(line) /\ k + 1 \in 0 .. Len(line) /\ k + 1 - 1 = k
    OBVIOUS
  <2>2. f[k + 1] = L!Option(f[k], o)
    BY <2>1 DEF Looping
  <2>3. Met(line, k + 1, L!Stdin) = Met(line, k, L!Stdin) \cup (IF o.flag \in L!Stdin THEN {k + 1} ELSE {})
    BY <2>1, MetMore
  <2>4. Met(line, k, L!Stdin) \subseteq 1 .. k /\ k + 1 \notin 1 .. k /\ 1 .. k + 1 = (1 .. k) \cup {k + 1}
    BY <2>1 DEF Met
  <2> DEFINE M == Met(line, k, L!Stdin)
             N == Met(line, k + 1, L!Stdin)
  <2>5. Taken(line, k + 1) <=> Taken(line, k) /\ L!Allowed(o) /\ (o.flag \in L!Stdin => M = {})
    <3>1. (\A i \in 1 .. k + 1 : L!Allowed(line[i])) <=> (\A i \in 1 .. k : L!Allowed(line[i])) /\ L!Allowed(o)
      BY <2>4
    <3>2. (\A i, j \in N : i = j) <=> (\A i, j \in M : i = j) /\ (o.flag \in L!Stdin => M = {})
      <4>1. CASE o.flag \in L!Stdin
        <5>1. N = M \cup {k + 1} /\ k + 1 \notin M
          BY <2>3, <2>4, <4>1
        <5> HIDE DEF M, N
        <5> QED BY <4>1, <5>1
      <4>2. CASE o.flag \notin L!Stdin
        <5>1. N = M
          BY <2>3, <4>2
        <5> QED BY <4>2, <5>1
      <4> QED BY <4>1, <4>2
    <3> HIDE DEF M, N, o
    <3>3. \A n : Taken(line, n) <=> (\A i \in 1 .. n : L!Allowed(line[i])) /\ (\A i, j \in Met(line, n, L!Stdin) : i = j)
      BY DEF Taken
    <3> QED BY <3>1, <3>2, <3>3 DEF M, N
  <2> HIDE DEF o
  <2>6. CASE Taken(line, k)
    <3>1. PICK c : f[k] = {c} /\ Tells(line, k, c)
      BY <1>2, <2>6
    <3>2. c.stdin = {line[i] : i \in M}
      BY <3>1 DEF Tells, OptionsOf
    <3>3. c.stdin = {} <=> M = {}
      BY <3>2
    <3>4. f[k + 1] = {L!Applied(x, o) : x \in {y \in {c} : L!Allowed(o) /\ (o.flag \in L!Stdin => y.stdin = {})}}
      BY <2>2, <3>1 DEF L!Option
    <3>5. CASE L!Allowed(o) /\ (o.flag \in L!Stdin => M = {})
      <4>1. f[k + 1] = {L!Applied(c, o)}
        BY <3>3, <3>4, <3>5
      <4>2. Tells(line, k + 1, L!Applied(c, o))
        BY <2>1, <3>1, <3>5, TellsMore DEF o
      <4>3. Taken(line, k + 1)
        BY <2>5, <2>6, <3>5
      <4> QED BY <2>1, <4>1, <4>2, <4>3
    <3>6. CASE ~(L!Allowed(o) /\ (o.flag \in L!Stdin => M = {}))
      <4>1. f[k + 1] = {}
        BY <3>3, <3>4, <3>6
      <4>2. ~Taken(line, k + 1)
        BY <2>5, <3>6
      <4> QED BY <2>1, <4>1, <4>2
    <3> QED BY <3>5, <3>6
  <2>7. CASE ~Taken(line, k)
    <3>1. f[k] = {}
      BY <1>2, <2>7
    <3>2. f[k + 1] = {}
      BY <2>2, <3>1 DEF L!Option
    <3>3. ~Taken(line, k + 1)
      BY <2>5, <2>7
    <3> QED BY <2>1, <3>2, <3>3
  <2> QED BY <2>6, <2>7
<1> HIDE DEF S
<1>3. \A k \in 0 .. Len(line) : k \in S
  BY <1>1, <1>2, Induct
<1> QED BY <1>3 DEF S

\* What the loop over a whole line leaves.
LEMMA OptionsTell ==
  ASSUME NEW line, Len(line) \in Nat
  PROVE  \/ Taken(line, Len(line)) /\ \E c : L!Options(line) = {c} /\ Tells(line, Len(line), c)
         \/ ~Taken(line, Len(line)) /\ L!Options(line) = {}
<1>1. PICK f : Looping(f, line) /\ L!Options(line) = f[Len(line)]
  BY LoopRuns
<1>2. Len(line) \in 0 .. Len(line)
  OBVIOUS
<1> QED BY <1>1, <1>2, LoopTells

-----------------------------------------------------------------------------
(* The same options in another order                                       *)

\* A line and the order p its options are given in another line.
Reordered(p, line, other) ==
  LET N == Len(line) IN
  /\ N \in Nat /\ p \in [1 .. N -> 1 .. N] /\ Len(other) = N
  /\ \A i \in 1 .. N : other[i] = line[p[i]]
  /\ \A i, j \in 1 .. N : p[i] = p[j] => i = j
  /\ \A j \in 1 .. N : \E i \in 1 .. N : p[i] = j
  /\ \A i, j \in 1 .. N : i < j /\ line[p[i]].flag = line[p[j]].flag
                          /\ line[p[i]].flag \in L!Stored \cup L!Listed => p[i] < p[j]

\* A reordering of a line, as the model has it, reorders the line.
LEMMA ReordersLine ==
  ASSUME NEW line, Len(line) \in Nat, DOMAIN line = 1 .. Len(line), NEW p, Reorders(p, line)
  PROVE  Reordered(p, line, [i \in DOMAIN line |-> line[p[i]]])
<1> DEFINE N == Len(line)
           D == 1 .. N
           other == [i \in DOMAIN line |-> line[p[i]]]
<1>1. /\ p \in [D -> D]
      /\ \A i, j \in D : i < j => p[i] # p[j]
      /\ \A i, j \in D : i < j /\ line[p[i]].flag = line[p[j]].flag
                          /\ line[p[i]].flag \in L!Stored \cup L!Listed => p[i] < p[j]
  BY DEF Reorders
<1>2. \A i, j \in D : p[i] = p[j] => i = j
  <2>1. \A i, j \in D : i < j \/ j < i \/ i = j
    OBVIOUS
  <2> HIDE DEF D
  <2> QED BY <1>1, <2>1
<1>3. IsFiniteSet(D)
  BY FS_Interval
<1>4. p \in Injection(D, D)
  <2> HIDE DEF D
  <2> QED BY <1>1, <1>2 DEF Injection, IsInjective
<1>5. p \in Surjection(D, D)
  BY <1>3, <1>4, FS_Injection, Zenon
<1>6. \A j \in D : \E i \in D : p[i] = j
  BY <1>5 DEF Surjection
<1>7. Len(other) = N /\ \A i \in D : other[i] = line[p[i]]
  OBVIOUS
<1> HIDE DEF other
<1>8. N \in Nat
  OBVIOUS
<1>9. Reordered(p, line, other)
  BY <1>1, <1>2, <1>6, <1>7, <1>8 DEF Reordered
<1> QED BY <1>9 DEF other

\* An option is met in one line where it is in the other.
LEMMA MetReordered ==
  ASSUME NEW p, NEW line, NEW other, Reordered(p, line, other), NEW F
  PROVE  LET N == Len(line) IN
         /\ \A i \in 1 .. N : i \in Met(other, N, F) <=> p[i] \in Met(line, N, F)
         /\ Met(other, N, F) \subseteq 1 .. N /\ Met(line, N, F) \subseteq 1 .. N
         /\ Met(other, N, F) = {} <=> Met(line, N, F) = {}
         /\ OptionsOf(other, N, F) = OptionsOf(line, N, F)
         /\ FlagsOf(other, N, F) = FlagsOf(line, N, F)
<1> DEFINE N == Len(line)
           A == Met(line, N, F)
           B == Met(other, N, F)
<1>1. \A i \in 1 .. N : i \in B <=> p[i] \in A
  BY DEF Reordered, Met
<1>2. B \subseteq 1 .. N /\ A \subseteq 1 .. N
  BY DEF Met
<1> HIDE DEF A, B
<1>3. \A j \in A : \E i \in B : p[i] = j
  BY <1>1, <1>2 DEF Reordered
<1>4. \A i \in B : p[i] \in A /\ other[i] = line[p[i]]
  BY <1>1, <1>2 DEF Reordered
<1>5. B = {} <=> A = {}
  BY <1>3, <1>4
<1>6. {other[i] : i \in B} = {line[i] : i \in A}
  BY <1>3, <1>4
<1>7. {other[i].flag : i \in B} = {line[i].flag : i \in A}
  BY <1>3, <1>4
<1> QED BY <1>1, <1>2, <1>5, <1>6, <1>7 DEF A, B, OptionsOf, FlagsOf

\* A line is taken whatever its order.
LEMMA TakenReordered ==
  ASSUME NEW p, NEW line, NEW other, Reordered(p, line, other)
  PROVE  Taken(line, Len(line)) => Taken(other, Len(line))
<1> DEFINE N == Len(line)
           A == Met(line, N, L!Stdin)
           B == Met(other, N, L!Stdin)
<1> SUFFICES ASSUME Taken(line, N) PROVE Taken(other, N)
  OBVIOUS
<1>1. (\A i \in 1 .. N : i \in B <=> p[i] \in A) /\ B \subseteq 1 .. N
  BY MetReordered
<1>2. \A i, j \in A : i = j
  BY DEF Taken
<1> HIDE DEF A, B
<1>3. \A i, j \in B : i = j
  BY <1>1, <1>2 DEF Reordered
<1>4. \A i \in 1 .. N : L!Allowed(other[i])
  <2>1. \A i \in 1 .. N : p[i] \in 1 .. N /\ other[i] = line[p[i]]
    BY DEF Reordered
  <2> QED BY <2>1 DEF Taken
<1> QED BY <1>3, <1>4 DEF Taken, B

\* The last option that stores a value is the same.
LEMMA StoredReordered ==
  ASSUME NEW p, NEW line, NEW other, Reordered(p, line, other), NEW s \in L!Stored,
         NEW v, StoredAs(line, Len(line), s, v), NEW w, StoredAs(other, Len(line), s, w)
  PROVE  v = w
<1> DEFINE N == Len(line)
           A == Met(line, N, {s})
           B == Met(other, N, {s})
<1>1. /\ \A i \in 1 .. N : i \in B <=> p[i] \in A
      /\ B \subseteq 1 .. N /\ A \subseteq 1 .. N /\ (B = {} <=> A = {})
  BY MetReordered
<1>2. (A = {} /\ v = L!Default.stored[s]) \/ \E i \in A : (\A j \in A : j <= i) /\ v = line[i].value
  BY DEF StoredAs
<1>3. (B = {} /\ w = L!Default.stored[s]) \/ \E i \in B : (\A j \in B : j <= i) /\ w = other[i].value
  BY DEF StoredAs
<1>4. \A i \in A : line[i].flag = s
  BY DEF Met
<1> HIDE DEF A, B
<1>5. CASE A = {}
  BY <1>1, <1>2, <1>3, <1>5
<1>6. CASE A # {}
  <2>1. PICK i \in A : (\A j \in A : j <= i) /\ v = line[i].value
    BY <1>2, <1>6
  <2>2. PICK j \in B : (\A q \in B : q <= j) /\ w = other[j].value
    BY <1>1, <1>3, <1>6
  <2>3. PICK q \in 1 .. N : p[q] = i
    BY <1>1 DEF Reordered
  <2>4. q \in B /\ p[j] \in A /\ j \in 1 .. N /\ N \in Nat /\ p[j] \in 1 .. N /\ i \in 1 .. N
    BY <1>1, <2>3 DEF Reordered
  <2>5. q <= j /\ p[j] <= i
    BY <2>1, <2>2, <2>4
  <2>6. ~(q < j)
    <3> SUFFICES ASSUME q < j PROVE FALSE
      OBVIOUS
    <3>1. line[p[q]].flag = s /\ line[p[j]].flag = s
      BY <1>4, <2>3, <2>4
    <3>2. s \in L!Stored \cup L!Listed
      OBVIOUS
    <3>3. \A a, b \in 1 .. N : a < b /\ line[p[a]].flag = line[p[b]].flag
                               /\ line[p[a]].flag \in L!Stored \cup L!Listed => p[a] < p[b]
      BY DEF Reordered
    <3>4. p[q] < p[j]
      BY <2>4, <3>1, <3>2, <3>3
    <3> QED BY <2>3, <2>4, <2>5, <3>4
  <2>7. q = j
    BY <2>4, <2>5, <2>6
  <2>8. other[j] = line[p[j]]
    BY <2>4 DEF Reordered
  <2> QED BY <2>1, <2>2, <2>3, <2>7, <2>8
<1> QED BY <1>5, <1>6

\* The values listed are the same, in the same order.
LEMMA ListedReordered ==
  ASSUME NEW p, NEW line, NEW other, Reordered(p, line, other), NEW l \in L!Listed,
         NEW v, ListedAs(line, Len(line), l, v), NEW w, ListedAs(other, Len(line), l, w)
  PROVE  v = w
<1> DEFINE N == Len(line)
           A == Met(line, N, {l})
           B == Met(other, N, {l})
<1>1. /\ \A i \in 1 .. N : i \in B <=> p[i] \in A
      /\ B \subseteq 1 .. N /\ A \subseteq 1 .. N
  BY MetReordered
<1>2. PICK m, e : Enumerates(e, m, A) /\ v = [r \in 1 .. m |-> line[e[r]].value]
  BY DEF ListedAs
<1>3. PICK n, f : Enumerates(f, n, B) /\ w = [r \in 1 .. n |-> other[f[r]].value]
  BY DEF ListedAs
<1>4. \A i \in A : line[i].flag = l
  BY DEF Met
<1> HIDE DEF A, B
<1> DEFINE g == [r \in 1 .. n |-> p[f[r]]]
<1>5. n \in Nat /\ \A r \in 1 .. n : f[r] \in B /\ f[r] \in 1 .. N
  BY <1>1, <1>3 DEF Enumerates
<1>6. \A r \in 1 .. n : g[r] = p[f[r]] /\ g[r] \in A
  BY <1>1, <1>5
<1>7. g \in [1 .. n -> A]
  BY <1>6
<1> HIDE DEF g
<1>8. \A i, j \in 1 .. n : i < j => g[i] < g[j]
  <2> SUFFICES ASSUME NEW i \in 1 .. n, NEW j \in 1 .. n, i < j PROVE g[i] < g[j]
    OBVIOUS
  <2>1. f[i] < f[j]
    BY <1>3 DEF Enumerates
  <2>2. line[p[f[i]]].flag = l /\ line[p[f[j]]].flag = l
    BY <1>4, <1>6
  <2>3. p[f[i]] < p[f[j]]
    BY <1>5, <2>1, <2>2 DEF Reordered
  <2> QED BY <1>6, <2>3
<1>9. \A x \in A : \E i \in 1 .. n : g[i] = x
  <2> SUFFICES ASSUME NEW x \in A PROVE \E i \in 1 .. n : g[i] = x
    OBVIOUS
  <2>1. PICK y \in 1 .. N : p[y] = x
    BY <1>1 DEF Reordered
  <2>2. y \in B
    BY <1>1, <2>1
  <2>3. PICK i \in 1 .. n : f[i] = y
    BY <1>3, <2>2 DEF Enumerates
  <2> QED BY <1>6, <2>1, <2>3
<1>10. Enumerates(g, n, A)
  BY <1>5, <1>7, <1>8, <1>9 DEF Enumerates
<1>11. A \in SUBSET Nat
  BY <1>1
<1>12. m = n /\ \A r \in 1 .. m : g[r] = e[r]
  BY <1>2, <1>10, <1>11, EnumeratesOnce
<1>13. \A r \in 1 .. n : other[f[r]] = line[e[r]]
  BY <1>5, <1>6, <1>12 DEF Reordered
<1> QED BY <1>2, <1>3, <1>12, <1>13

\* A configuration with other break conditions.
Breaking(c, b) ==
  [texts |-> c.texts, views |-> c.views, stored |-> c.stored, listed |-> c.listed, breaks |-> b,
   on |-> c.on, stdin |-> c.stdin, eventsOnly |-> c.eventsOnly]

\* Two configurations that differ in the order of their break conditions only.
LEMMA TellsReordered ==
  ASSUME NEW p, NEW line, NEW other, Reordered(p, line, other),
         NEW c, Tells(line, Len(line), c), NEW d, Tells(other, Len(line), d)
  PROVE  /\ c = Breaking(c, c.breaks) /\ d = Breaking(c, d.breaks)
         /\ ToSet(d.breaks) = ToSet(c.breaks)
<1> DEFINE N == Len(line)
<1>1. \A F : /\ Met(other, N, F) = {} <=> Met(line, N, F) = {}
             /\ OptionsOf(other, N, F) = OptionsOf(line, N, F)
             /\ FlagsOf(other, N, F) = FlagsOf(line, N, F)
  BY MetReordered
<1>2. TextsAfter(other, N) = TextsAfter(line, N)
  BY <1>1 DEF TextsAfter
<1>3. UNION {L!Shown(other[i].flag) : i \in 1 .. N} = UNION {L!Shown(line[i].flag) : i \in 1 .. N}
  <2> DEFINE sh(o) == L!Shown(o.flag)
  <2> HIDE DEF sh
  <2>1. \A i \in 1 .. N : p[i] \in 1 .. N /\ other[i] = line[p[i]]
    BY DEF Reordered
  <2>2. \A j \in 1 .. N : \E i \in 1 .. N : p[i] = j
    BY DEF Reordered
  <2>3. \A i \in 1 .. N : \E j \in 1 .. N : sh(other[i]) = sh(line[j])
    BY <2>1
  <2>4. \A j \in 1 .. N : \E i \in 1 .. N : sh(line[j]) = sh(other[i])
    BY <2>1, <2>2
  <2>5. {sh(other[i]) : i \in 1 .. N} = {sh(line[i]) : i \in 1 .. N}
    BY <2>3, <2>4
  <2> QED BY <2>5 DEF sh
<1>4. \A s \in L!Stored : c.stored[s] = d.stored[s]
  BY StoredReordered DEF Tells
<1>5. \A l \in L!Listed : c.listed[l] = d.listed[l]
  BY ListedReordered DEF Tells
<1>6. c = [texts |-> TextsAfter(line, N), views |-> UNION {L!Shown(line[i].flag) : i \in 1 .. N},
           stored |-> [s \in L!Stored |-> c.stored[s]], listed |-> [l \in L!Listed |-> c.listed[l]],
           breaks |-> c.breaks, on |-> FlagsOf(line, N, L!Switches),
           stdin  |-> OptionsOf(line, N, L!Stdin),
           eventsOnly |-> (Met(line, N, {"--events-only"}) # {})]
  BY DEF Tells
<1>7. d = [texts |-> TextsAfter(other, N), views |-> UNION {L!Shown(other[i].flag) : i \in 1 .. N},
           stored |-> [s \in L!Stored |-> d.stored[s]], listed |-> [l \in L!Listed |-> d.listed[l]],
           breaks |-> d.breaks, on |-> FlagsOf(other, N, L!Switches),
           stdin  |-> OptionsOf(other, N, L!Stdin),
           eventsOnly |-> (Met(other, N, {"--events-only"}) # {})]
  BY DEF Tells
<1>8. /\ [s \in L!Stored |-> d.stored[s]] = [s \in L!Stored |-> c.stored[s]]
      /\ [l \in L!Listed |-> d.listed[l]] = [l \in L!Listed |-> c.listed[l]]
      /\ (Met(other, N, {"--events-only"}) # {}) = (Met(line, N, {"--events-only"}) # {})
  BY <1>1, <1>4, <1>5
<1> DEFINE v == UNION {L!Shown(line[i].flag) : i \in 1 .. N}
           st == [s \in L!Stored |-> c.stored[s]]
           li == [l \in L!Listed |-> c.listed[l]]
           ev == Met(line, N, {"--events-only"}) # {}
           Conf(b) == [texts |-> TextsAfter(line, N), views |-> v, stored |-> st, listed |-> li, breaks |-> b,
                       on |-> FlagsOf(line, N, L!Switches), stdin |-> OptionsOf(line, N, L!Stdin),
                       eventsOnly |-> ev]
<1>9. c = Conf(c.breaks)
  BY <1>6, Zenon
<1>10. d = Conf(d.breaks)
  BY <1>1, <1>2, <1>3, <1>7, <1>8, Zenon
<1> HIDE DEF v, st, li, ev
<1>11. \A a, b : Breaking(Conf(a), b) = Conf(b)
  BY DEF Breaking
<1>12. c = Breaking(c, c.breaks) /\ d = Breaking(c, d.breaks)
  <2> HIDE DEF Conf
  <2> QED BY <1>9, <1>10, <1>11
<1>13. ToSet(d.breaks) = ToSet(c.breaks)
  BY <1>1 DEF Tells
<1> QED BY <1>12, <1>13

\* What is made of a configuration after the last option leaves its break conditions.
LEMMA RefusedAlike ==
  ASSUME NEW c, NEW b
  PROVE  L!Refused(Breaking(c, b), Program) <=> L!Refused(c, Program)
<1> DEFINE d == Breaking(c, b)
<1>1. d.on = c.on /\ d.stored = c.stored /\ d.eventsOnly = c.eventsOnly
  BY DEF Breaking
<1> HIDE DEF d
<1>2. L!Preset(d) = L!Preset(c) /\ L!Mode(d) = L!Mode(c)
  BY <1>1 DEF L!Preset, L!Mode
<1>3. L!Refused(d, Program) <=> L!Refused(c, Program)
  BY <1>1, <1>2 DEF L!Refused
<1> QED BY <1>3 DEF d

\* A configuration with another display, and how the last steps change a display.
Displaying(c, texts, views, b) ==
  [texts |-> texts, views |-> views, stored |-> c.stored, listed |-> c.listed, breaks |-> b,
   on |-> c.on, stdin |-> c.stdin, eventsOnly |-> c.eventsOnly]
Presetting(c, views, texts) == [c EXCEPT !.views = views, !.texts = texts]
Trimming(c, texts, views)   == [c EXCEPT !.texts = texts, !.views = views]

\* What is displayed can be set and trimmed without a look at the rest.
LEMMA DisplayingElse ==
  ASSUME NEW c, NEW b, NEW x, NEW y, NEW t, NEW v
  PROVE  /\ Presetting(Displaying(c, x, y, b), v, t) = Displaying(c, t, v, b)
         /\ Trimming(Displaying(c, x, y, b), t, v) = Displaying(c, t, v, b)
<1> DEFINE m == Displaying(c, x, y, b)
<1>1. [m EXCEPT !.views = v] = Displaying(c, x, v, b)
  BY DEF Displaying
<1>2. [m EXCEPT !.texts = t] = Displaying(c, t, y, b)
  BY DEF Displaying
<1>3. [Displaying(c, x, v, b) EXCEPT !.texts = t] = Displaying(c, t, v, b)
  BY DEF Displaying
<1>4. [Displaying(c, t, y, b) EXCEPT !.views = v] = Displaying(c, t, v, b)
  BY DEF Displaying
<1> HIDE DEF m
<1>5. Presetting(m, v, t) = [[m EXCEPT !.views = v] EXCEPT !.texts = t]
  BY DEF Presetting
<1>6. Trimming(m, t, v) = [[m EXCEPT !.texts = t] EXCEPT !.views = v]
  BY DEF Trimming
<1>7. Presetting(m, v, t) = Displaying(c, t, v, b) /\ Trimming(m, t, v) = Displaying(c, t, v, b)
  BY <1>1, <1>2, <1>3, <1>4, <1>5, <1>6
<1> QED BY <1>7 DEF m

\* The end of the parse leaves the break conditions, and the values stored.
LEMMA FinishedAlike ==
  ASSUME NEW c, NEW b, c = Breaking(c, c.breaks)
  PROVE  /\ L!Trimmed(L!WithPreset(c)) = Breaking(L!Trimmed(L!WithPreset(c)), c.breaks)
         /\ L!Trimmed(L!WithPreset(Breaking(c, b))) = Breaking(L!Trimmed(L!WithPreset(c)), b)
         /\ L!Trimmed(L!WithPreset(c)).stored = c.stored
<1> DEFINE d == Breaking(c, b)
           v == c.views \cup L!PresetViews(L!Preset(c))
           t == c.texts \cup (IF L!Preset(c) = "none" THEN {} ELSE {"layout"})
<1>1. c = Displaying(c, c.texts, c.views, c.breaks) /\ d = Displaying(c, c.texts, c.views, b)
  BY Zenon DEF Breaking, Displaying
<1>2. d.on = c.on /\ d.stored = c.stored /\ d.views = c.views /\ d.texts = c.texts
  BY DEF Breaking
<1> HIDE DEF d
<1>3. L!Preset(d) = L!Preset(c)
  BY <1>2 DEF L!Preset
<1>4. L!WithPreset(c) = Presetting(c, v, t)
  BY DEF L!WithPreset, Presetting
<1>5. L!WithPreset(d) = Presetting(d, v, t)
  <2>1. L!WithPreset(d) = Presetting(d, d.views \cup L!PresetViews(L!Preset(d)),
                                     d.texts \cup (IF L!Preset(d) = "none" THEN {} ELSE {"layout"}))
    BY DEF L!WithPreset, Presetting
  <2> QED BY <1>2, <1>3, <2>1
<1> HIDE DEF v, t
<1>6. L!WithPreset(c) = Displaying(c, t, v, c.breaks) /\ L!WithPreset(d) = Displaying(c, t, v, b)
  <2>1. Presetting(Displaying(c, c.texts, c.views, c.breaks), v, t) = Displaying(c, t, v, c.breaks)
    BY DisplayingElse
  <2>2. Presetting(Displaying(c, c.texts, c.views, b), v, t) = Displaying(c, t, v, b)
    BY DisplayingElse
  <2> QED BY <1>1, <1>4, <1>5, <2>1, <2>2
<1>7. ASSUME NEW z
      PROVE  L!Trimmed(Displaying(c, t, v, z)) =
               IF t \subseteq {"layout"} THEN Displaying(c, {}, v \ {"heap_scan"}, z)
               ELSE Displaying(c, t, v, z)
  <2> DEFINE m == Displaying(c, t, v, z)
  <2>1. m.texts = t /\ m.views = v
    BY DEF Displaying
  <2>2. Trimming(m, {}, v \ {"heap_scan"}) = Displaying(c, {}, v \ {"heap_scan"}, z)
    BY DisplayingElse
  <2> HIDE DEF m
  <2>3. L!Trimmed(m) = IF m.texts \subseteq {"layout"} THEN Trimming(m, {}, m.views \ {"heap_scan"}) ELSE m
    BY DEF L!Trimmed, Trimming
  <2>4. L!Trimmed(m) = IF t \subseteq {"layout"} THEN Displaying(c, {}, v \ {"heap_scan"}, z) ELSE m
    BY <2>1, <2>2, <2>3
  <2> QED BY <2>4 DEF m
<1>8. \A x, y, z, b2 : Breaking(Displaying(c, x, y, z), b2) = Displaying(c, x, y, b2)
  BY DEF Breaking, Displaying
<1>9. /\ L!Trimmed(L!WithPreset(c)) = Breaking(L!Trimmed(L!WithPreset(c)), c.breaks)
      /\ L!Trimmed(L!WithPreset(d)) = Breaking(L!Trimmed(L!WithPreset(c)), b)
  BY <1>6, <1>7, <1>8
<1>10. L!Trimmed(L!WithPreset(c)).stored = c.stored
  <2>1. \A x, y, z : Displaying(c, x, y, z).stored = c.stored
    BY DEF Displaying
  <2> QED BY <1>6, <1>7, <2>1
<1> QED BY <1>9, <1>10 DEF d

\* A line and the same options in another order stand for configurations that are alike.
LEMMA ParsedAlike ==
  ASSUME NEW p, NEW line, NEW other, Reordered(p, line, other), NEW x \in L!Parse(line, Program)
  PROVE  \E y \in L!Parse(other, Program) : Alike(y, x)
<1> DEFINE N == Len(line)
           End(c) == L!Trimmed(L!WithPreset(c))
<1>1. N \in Nat /\ Len(other) = N
  BY DEF Reordered
<1>2. PICK c \in L!Options(line) : ~L!Refused(c, Program) /\ x = End(c)
  BY DEF L!Parse
<1>3. Taken(line, N) /\ Tells(line, N, c)
  BY <1>1, <1>2, OptionsTell
<1>4. Taken(other, N)
  BY <1>3, TakenReordered
<1>5. PICK d : L!Options(other) = {d} /\ Tells(other, N, d)
  BY <1>1, <1>4, OptionsTell
<1>6. c = Breaking(c, c.breaks) /\ d = Breaking(c, d.breaks) /\ ToSet(d.breaks) = ToSet(c.breaks)
  BY <1>3, <1>5, TellsReordered
<1>7. ~L!Refused(d, Program)
  <2>1. L!Refused(Breaking(c, d.breaks), Program) <=> L!Refused(c, Program)
    BY RefusedAlike
  <2> QED BY <1>2, <1>6, <2>1
<1>8. End(d) \in L!Parse(other, Program)
  <2>1. d \in {z \in L!Options(other) : ~L!Refused(z, Program)}
    BY <1>5, <1>7
  <2> QED BY <2>1 DEF L!Parse
<1>9. x = Breaking(x, c.breaks) /\ End(d) = Breaking(x, d.breaks)
  <2>1. /\ End(c) = Breaking(End(c), c.breaks)
        /\ End(Breaking(c, d.breaks)) = Breaking(End(c), d.breaks)
    BY <1>6, FinishedAlike
  <2> HIDE DEF End
  <2> QED BY <1>2, <1>6, <2>1
<1> DEFINE y == End(d)
<1> HIDE DEF End, y
<1>10. Alike(y, x)
  <2>1. y = Breaking(x, d.breaks)
    BY <1>9 DEF y
  <2>2. x.breaks = c.breaks /\ y.breaks = d.breaks
    BY <1>9, <2>1 DEF Breaking
  <2>3. \A b, e : [Breaking(x, b) EXCEPT !.breaks = e] = Breaking(x, e)
    BY DEF Breaking
  <2>4. [y EXCEPT !.breaks = ToSet(y.breaks)] = Breaking(x, ToSet(d.breaks))
    BY <2>1, <2>2, <2>3
  <2>5. [x EXCEPT !.breaks = ToSet(x.breaks)] = Breaking(x, ToSet(c.breaks))
    BY <1>9, <2>2, <2>3
  <2> QED BY <1>6, <2>4, <2>5 DEF Alike
<1> QED BY <1>8, <1>10 DEF y

-----------------------------------------------------------------------------
(* The configuration of a session                                          *)

\* The line and what was made of it stay what they were.
ConfigKept == setup \in Setups /\ config \in L!Parse(setup.line, Program)

\* No step of the session touches the line or its configuration.
LEMMA ConfigAlways == Spec => []ConfigKept
<1>1. Init => ConfigKept
  BY DEF Init, ConfigKept
<1>2. ConfigKept /\ [Next]_vars => ConfigKept'
  BY DEF Next, TracedMalloc, TracedFree, TracedRealloc, TracedNull, Event, UntracedMalloc, UntracedFree,
         Hidden, Overwrite, vars, ConfigKept
<1> QED BY <1>1, <1>2, PTL DEF Spec

\* Where the options of a command line stand in it changes nothing of the session they
\* start, but that the last of two that set one value counts: in whatever order the
\* others are given, the line is taken as well, and it stands for the same configuration,
\* up to the order of its break conditions (app.rs:4025-4342).
THEOREM OrderAlways == Spec => []OptionOrder
<1>1. ConfigKept => OptionOrder
  <2> SUFFICES ASSUME ConfigKept, NEW p, Reorders(p, setup.line)
               PROVE  \E c \in L!Parse([i \in DOMAIN setup.line |-> setup.line[p[i]]], Program) :
                        Alike(c, config)
    BY DEF OptionOrder
  <2>1. setup.line \in Seq(ToSet(setup.line))
    BY SetupsTyped DEF ConfigKept
  <2>2. Len(setup.line) \in Nat /\ DOMAIN setup.line = 1 .. Len(setup.line)
    BY <2>1
  <2> DEFINE other == [i \in DOMAIN setup.line |-> setup.line[p[i]]]
  <2>3. Reordered(p, setup.line, other)
    BY <2>2, ReordersLine
  <2> HIDE DEF other
  <2>4. \E c \in L!Parse(other, Program) : Alike(c, config)
    BY <2>3, ParsedAlike DEF ConfigKept
  <2> QED BY <2>4 DEF other
<1> QED BY <1>1, ConfigAlways, PTL

\* What the numbers of a configuration are, and what it breaks on.
LEMMA ConfigNumbers ==
  ASSUME NEW s \in Setups, NEW c \in L!Parse(s.line, Program)
  PROVE  /\ L!Limit(c) \in Nat /\ c.stored["--max-layout-chunks"] \in Nat
         /\ c.breaks \in Seq(ToSet(c.breaks))
<1> DEFINE line == s.line
           N == Len(line)
<1>1. line \in Seq(ToSet(line)) /\ \A o \in ToSet(line) : o.flag \in L!Limits => o.value \in Nat \cup {None}
  BY SetupsTyped
<1>2. N \in Nat /\ \A i \in 1 .. N : line[i] \in ToSet(line)
  BY <1>1 DEF ToSet
<1> HIDE DEF line, N
<1>3. PICK d \in L!Options(line) : c = L!Trimmed(L!WithPreset(d))
  BY DEF L!Parse, line
<1>4. Taken(line, N) /\ Tells(line, N, d)
  <2>1. \/ Taken(line, N) /\ \E e : L!Options(line) = {e} /\ Tells(line, N, e)
        \/ ~Taken(line, N) /\ L!Options(line) = {}
    BY <1>2, OptionsTell DEF N
  <2> QED BY <1>3, <2>1
<1>5. d.breaks \in Seq(ToSet(d.breaks))
  BY <1>4 DEF Tells
<1>6. \A f \in {"--max-regular-bins", "--max-layout-chunks"} : d.stored[f] \in Nat
  <2> SUFFICES ASSUME NEW f \in {"--max-regular-bins", "--max-layout-chunks"} PROVE d.stored[f] \in Nat
    OBVIOUS
  <2>1. f \in L!Limits /\ f \in L!Stored /\ L!Default.stored[f] \in Nat
    BY DEF L!Limits, L!Stored, L!Default
  <2>2. StoredAs(line, N, f, d.stored[f])
    BY <1>4, <2>1 DEF Tells
  <2>3. CASE d.stored[f] = L!Default.stored[f]
    BY <2>1, <2>3
  <2>4. CASE \E i \in Met(line, N, {f}) : d.stored[f] = line[i].value
    <3>1. PICK i \in Met(line, N, {f}) : d.stored[f] = line[i].value
      BY <2>4
    <3>2. i \in 1 .. N /\ line[i].flag = f
      BY DEF Met
    <3>3. line[i].value # None
      <4>1. L!Allowed(line[i])
        BY <1>4, <3>2 DEF Taken
      <4> QED BY <2>1, <3>2, <4>1 DEF L!Allowed
    <3>4. line[i].value \in Nat \cup {None}
      BY <1>1, <1>2, <2>1, <3>2
    <3> QED BY <3>1, <3>3, <3>4
  <2> QED BY <2>2, <2>3, <2>4 DEF StoredAs
<1>7. c.stored = d.stored /\ c.breaks = d.breaks
  <2>1. d = Breaking(d, d.breaks)
    BY <1>4, Zenon DEF Tells, Breaking
  <2>2. c = Breaking(c, d.breaks)
    BY <1>3, <2>1, FinishedAlike
  <2>3. c.breaks = d.breaks
    BY <2>2 DEF Breaking
  <2>4. c.stored = d.stored
    BY <1>3, <2>1, FinishedAlike
  <2> QED BY <2>3, <2>4
<1> QED BY <1>5, <1>6, <1>7 DEF L!Limit
=============================================================================
