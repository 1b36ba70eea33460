-------------------------- MODULE LiveSession_proofs --------------------------
(***************************************************************************)
(* What holds of a live session whatever the user presses and the target   *)
(* does: the proofs of LiveSession's properties.                           *)
(***************************************************************************)
EXTENDS LiveSession, LiveInterface_proofs

-----------------------------------------------------------------------------
(* What a queue of updates tells.  f says of each update what it tells of  *)
(* one thing, a set of at most one value; the last one counts.             *)

Silent(q, f)     == \A i \in DOMAIN q : f[q[i]] = {}
LastTold(q, f, v) == \E i \in DOMAIN q : /\ f[q[i]] = {v}
                                         /\ \A j \in DOMAIN q : j > i => f[q[j]] = {}
Sums(q, f, T) == (T = {} /\ Silent(q, f)) \/ (\E v \in T : T = {v} /\ LastTold(q, f, v))

Over(T, U) == IF U = {} THEN T ELSE U

\* What one update tells is all there is to it.
LEMMA SumsOne ==
  ASSUME NEW u, NEW f, f[u] = {} \/ \E v : f[u] = {v}
  PROVE  Sums(<<u>>, f, f[u])
BY DEF Sums, Silent, LastTold

\* No update tells nothing.
LEMMA SumsNone ==
  ASSUME NEW f
  PROVE  Sums(<<>>, f, {})
BY DEF Sums, Silent

\* Of two queues the second one has the last word.
LEMMA SumsJoin ==
  ASSUME NEW Q, NEW p \in Seq(Q), NEW q \in Seq(Q), NEW f, NEW T, NEW U,
         Sums(p, f, T), Sums(q, f, U)
  PROVE  Sums(p \o q, f, Over(T, U))
<1>1. /\ Len(p) \in Nat /\ Len(q) \in Nat /\ Len(p \o q) = Len(p) + Len(q)
      /\ DOMAIN p = 1 .. Len(p) /\ DOMAIN q = 1 .. Len(q) /\ DOMAIN (p \o q) = 1 .. Len(p \o q)
      /\ \A i \in 1 .. Len(p) : (p \o q)[i] = p[i]
      /\ \A i \in 1 .. Len(q) : (p \o q)[Len(p) + i] = q[i]
  OBVIOUS
<1> DEFINE r == p \o q
<1>2. \A j \in DOMAIN r : j > Len(p) => j - Len(p) \in DOMAIN q /\ r[j] = q[j - Len(p)]
  <2> SUFFICES ASSUME NEW j \in DOMAIN r, j > Len(p)
               PROVE  j - Len(p) \in DOMAIN q /\ r[j] = q[j - Len(p)]
    OBVIOUS
  <2>1. j - Len(p) \in 1 .. Len(q) /\ Len(p) + (j - Len(p)) = j
    BY <1>1
  <2> QED BY <1>1, <2>1
<1>3. \A j \in DOMAIN r : ~(j > Len(p)) => j \in DOMAIN p /\ r[j] = p[j]
  BY <1>1
<1> HIDE DEF r
<1>4. CASE U # {}
  <2>1. PICK v \in U : U = {v} /\ LastTold(q, f, v)
    BY <1>4 DEF Sums
  <2>2. PICK i \in DOMAIN q : f[q[i]] = {v} /\ \A j \in DOMAIN q : j > i => f[q[j]] = {}
    BY <2>1 DEF LastTold
  <2>3. Len(p) + i \in DOMAIN r /\ r[Len(p) + i] = q[i] /\ i \in Nat
    BY <1>1 DEF r
  <2>4. \A j \in DOMAIN r : j > Len(p) + i => f[r[j]] = {}
    <3> SUFFICES ASSUME NEW j \in DOMAIN r, j > Len(p) + i PROVE f[r[j]] = {}
      OBVIOUS
    <3>1. j \in Nat /\ j > Len(p) /\ j - Len(p) > i
      BY <1>1, <2>3 DEF r
    <3> QED BY <1>2, <2>2, <3>1
  <2> QED BY <1>4, <2>1, <2>2, <2>3, <2>4 DEF Sums, LastTold, Over, r
<1>5. CASE U = {}
  <2>1. Silent(q, f)
    BY <1>5 DEF Sums
  <2>2. CASE T = {}
    <3>1. Silent(p, f)
      BY <2>2 DEF Sums
    <3> QED BY <1>2, <1>3, <1>5, <2>1, <2>2, <3>1 DEF Sums, Silent, Over, r
  <2>3. CASE T # {}
    <3>1. PICK v \in T : T = {v} /\ LastTold(p, f, v)
      BY <2>3 DEF Sums
    <3>2. PICK i \in DOMAIN p : f[p[i]] = {v} /\ \A j \in DOMAIN p : j > i => f[p[j]] = {}
      BY <3>1 DEF LastTold
    <3>3. i \in DOMAIN r /\ r[i] = p[i]
      BY <1>1 DEF r
    <3>4. \A j \in DOMAIN r : j > i => f[r[j]] = {}
      BY <1>2, <1>3, <2>1, <3>2 DEF Silent
    <3> QED BY <1>5, <3>1, <3>2, <3>3, <3>4 DEF Sums, LastTold, Over, r
  <2> QED BY <2>2, <2>3
<1> QED BY <1>4, <1>5

\* When the first one is read, the rest tells the rest.
LEMMA SumsTail ==
  ASSUME NEW Q, NEW q \in Seq(Q), q # <<>>, NEW f, NEW T, Sums(q, f, T)
  PROVE  \E U : Sums(Tail(q), f, U) /\ T = Over(f[Head(q)], U)
<1>1. /\ Len(q) \in Nat /\ Len(q) > 0 /\ DOMAIN q = 1 .. Len(q) /\ Head(q) = q[1]
      /\ Len(Tail(q)) = Len(q) - 1 /\ DOMAIN Tail(q) = 1 .. Len(q) - 1
      /\ \A i \in 1 .. Len(q) - 1 : Tail(q)[i] = q[i + 1]
  OBVIOUS
<1> DEFINE r == Tail(q)
<1>2. \A i \in DOMAIN r : i + 1 \in DOMAIN q /\ r[i] = q[i + 1]
  BY <1>1
<1>3. \A i \in DOMAIN q : i > 1 => i - 1 \in DOMAIN r /\ r[i - 1] = q[i]
  <2> SUFFICES ASSUME NEW i \in DOMAIN q, i > 1 PROVE i - 1 \in DOMAIN r /\ r[i - 1] = q[i]
    OBVIOUS
  <2>1. i - 1 \in 1 .. Len(q) - 1 /\ (i - 1) + 1 = i
    BY <1>1
  <2> QED BY <1>1, <2>1
<1>4. 1 \in DOMAIN q /\ DOMAIN q \subseteq Nat /\ DOMAIN r \subseteq Nat \ {0}
  BY <1>1
<1> HIDE DEF r
<1>5. CASE T = {}
  <2>1. Silent(q, f)
    BY <1>5 DEF Sums
  <2>2. f[Head(q)] = {} /\ Silent(r, f)
    BY <1>1, <1>2, <1>4, <2>1 DEF Silent
  <2> QED BY <1>5, <2>2 DEF Sums, Over, r
<1>6. CASE T # {}
  <2>1. PICK v \in T : T = {v} /\ LastTold(q, f, v)
    BY <1>6 DEF Sums
  <2>2. PICK i \in DOMAIN q : f[q[i]] = {v} /\ \A j \in DOMAIN q : j > i => f[q[j]] = {}
    BY <2>1 DEF LastTold
  <2>3. CASE i = 1
    <3>1. \A j \in DOMAIN r : f[r[j]] = {}
      BY <1>2, <1>4, <2>2, <2>3
    <3> QED BY <1>1, <2>1, <2>2, <2>3, <3>1 DEF Sums, Silent, Over, r
  <2>4. CASE i # 1
    <3>1. i - 1 \in DOMAIN r /\ r[i - 1] = q[i]
      BY <1>1, <1>3, <2>4
    <3>2. \A j \in DOMAIN r : j > i - 1 => f[r[j]] = {}
      BY <1>2, <1>4, <2>2
    <3>3. LastTold(r, f, v)
      BY <2>2, <3>1, <3>2 DEF LastTold
    <3> QED BY <1>6, <2>1, <3>3 DEF Sums, Over, r
  <2> QED BY <2>3, <2>4
<1> QED BY <1>5, <1>6

-----------------------------------------------------------------------------
(* What the updates of a session tell                                      *)

\* The lines that may be typed, recalled and executed.
OpenedWith(s) == {s.opening[i].line : i \in 1 .. Len(s.opening)}
Lines == {Blank, Spoilt, [word |-> "mem", arg |-> None]}
         \cup (UNION {s.lines : s \in Setups})
         \cup (UNION {OpenedWith(s) : s \in Setups})

News      == Updates(Lines)
EndTold(u) == IF u.kind = "SessionEnd" THEN {"end"} ELSE {}
OnStatus  == [u \in News |-> StatusTold(u)]
OnReason  == [u \in News |-> ReasonTold(u)]
OnList    == [u \in News |-> ListTold(u)]
OnEnd     == [u \in News |-> EndTold(u)]

\* The updates q tell S of the status, R of the reason, L of the breakpoints, and E of
\* the end of the session.
Tells(q, S, R, L, E) ==
  /\ q \in Seq(News)
  /\ Sums(q, OnStatus, S) /\ Sums(q, OnReason, R) /\ Sums(q, OnList, L) /\ Sums(q, OnEnd, E)

\* One update tells what it tells.
LEMMA TellsOne ==
  ASSUME NEW u \in News
  PROVE  Tells(<<u>>, StatusTold(u), ReasonTold(u), ListTold(u), EndTold(u))
<1>1. /\ OnStatus[u] = StatusTold(u) /\ OnReason[u] = ReasonTold(u) /\ OnList[u] = ListTold(u)
      /\ OnEnd[u] = EndTold(u)
  BY DEF OnStatus, OnReason, OnList, OnEnd
<1>2. StatusTold(u) = {} \/ \E v : StatusTold(u) = {v}
  BY DEF StatusTold
<1>3. ReasonTold(u) = {} \/ \E v : ReasonTold(u) = {v}
  BY DEF ReasonTold
<1>4. ListTold(u) = {} \/ \E v : ListTold(u) = {v}
  BY DEF ListTold
<1>5. EndTold(u) = {} \/ \E v : EndTold(u) = {v}
  BY DEF EndTold
<1>6. <<u>> \in Seq(News)
  OBVIOUS
<1> QED BY <1>1, <1>2, <1>3, <1>4, <1>5, <1>6, SumsOne DEF Tells

\* No update tells nothing.
LEMMA TellsNone == Tells(<<>>, {}, {}, {}, {})
<1>1. <<>> \in Seq(News)
  OBVIOUS
<1> QED BY <1>1, SumsNone DEF Tells

\* Updates put behind others have the last word.
LEMMA TellsJoin ==
  ASSUME NEW p, NEW q, NEW S, NEW R, NEW L, NEW E, NEW S2, NEW R2, NEW L2, NEW E2,
         Tells(p, S, R, L, E), Tells(q, S2, R2, L2, E2)
  PROVE  Tells(p \o q, Over(S, S2), Over(R, R2), Over(L, L2), Over(E, E2))
<1>1. p \in Seq(News) /\ q \in Seq(News)
  BY DEF Tells
<1>2. p \o q \in Seq(News)
  BY <1>1
<1>3. /\ Sums(p \o q, OnStatus, Over(S, S2)) /\ Sums(p \o q, OnReason, Over(R, R2))
      /\ Sums(p \o q, OnList, Over(L, L2)) /\ Sums(p \o q, OnEnd, Over(E, E2))
  BY <1>1, SumsJoin DEF Tells
<1> QED BY <1>2, <1>3 DEF Tells

\* When the first update is read the others tell the rest.
LEMMA TellsTail ==
  ASSUME NEW q, q # <<>>, NEW S, NEW R, NEW L, NEW E, Tells(q, S, R, L, E)
  PROVE  \E S2, R2, L2, E2 : /\ Tells(Tail(q), S2, R2, L2, E2)
                             /\ S = Over(StatusTold(Head(q)), S2)
                             /\ R = Over(ReasonTold(Head(q)), R2)
                             /\ L = Over(ListTold(Head(q)), L2)
                             /\ E = Over(EndTold(Head(q)), E2)
<1>1. q \in Seq(News) /\ Tail(q) \in Seq(News) /\ Head(q) \in News
  BY DEF Tells
<1>2. /\ OnStatus[Head(q)] = StatusTold(Head(q)) /\ OnReason[Head(q)] = ReasonTold(Head(q))
      /\ OnList[Head(q)] = ListTold(Head(q)) /\ OnEnd[Head(q)] = EndTold(Head(q))
  BY <1>1 DEF OnStatus, OnReason, OnList, OnEnd
<1>3. PICK S2 : Sums(Tail(q), OnStatus, S2) /\ S = Over(OnStatus[Head(q)], S2)
  BY <1>1, SumsTail DEF Tells
<1>4. PICK R2 : Sums(Tail(q), OnReason, R2) /\ R = Over(OnReason[Head(q)], R2)
  BY <1>1, SumsTail DEF Tells
<1>5. PICK L2 : Sums(Tail(q), OnList, L2) /\ L = Over(OnList[Head(q)], L2)
  BY <1>1, SumsTail DEF Tells
<1>6. PICK E2 : Sums(Tail(q), OnEnd, E2) /\ E = Over(OnEnd[Head(q)], E2)
  BY <1>1, SumsTail DEF Tells
<1> QED BY <1>1, <1>2, <1>3, <1>4, <1>5, <1>6 DEF Tells

\* What is told one after the other is told.
LEMMA NowJoin ==
  ASSUME NEW T, NEW U, NEW x, NEW y, NEW z, Now(T, x, y), Now(U, y, z)
  PROVE  Now(Over(T, U), x, z)
BY DEF Now, Over

\* What the rest tells, once the first is known.
LEMMA NowRest ==
  ASSUME NEW T, NEW U, NEW x, NEW y, NEW z, Now(Over(T, U), x, z), Now(T, x, y)
  PROVE  Now(U, y, z)
BY DEF Now, Over

-----------------------------------------------------------------------------
(* The updates the worker sends                                            *)

Reasons(u) == IF Inferred(u) = None THEN {} ELSE {Inferred(u)}

\* The status of a command.
LEMMA SayTells ==
  ASSUME NEW verb \in Verbs \cup {None}, NEW answer \in Answers, NEW status \in Statuses,
         NEW message \in Messages, NEW u, u = Say(verb, answer, status, message)
  PROVE  Tells(<<u>>, {status}, Reasons(u), {}, {})
<1>1. u \in News /\ u.kind = "CommandStatus" /\ u.status = status
  BY DEF Say, News, Updates, CommandStatuses
<1>2. /\ StatusTold(u) = {status} /\ ListTold(u) = {} /\ EndTold(u) = {}
      /\ ReasonTold(u) = Reasons(u)
  BY <1>1 DEF StatusTold, ReasonTold, ListTold, EndTold, Reasons
<1> QED BY <1>1, <1>2, TellsOne

\* A status that gives no reason: neither an exit nor a pause that was asked for.
LEMMA SayQuiet ==
  ASSUME NEW verb \in Verbs \cup {None}, NEW answer \in Answers, NEW status \in Statuses,
         status # "Exited", status = "Paused" => verb # "Pause" \/ answer # "Completed"
  PROVE  Tells(<<Say(verb, answer, status, "other")>>, {status}, {}, {}, {})
<1> DEFINE u == Say(verb, answer, status, "other")
<1>1. "other" \in Messages
  BY DEF Messages
<1>2. Tells(<<u>>, {status}, Reasons(u), {}, {})
  BY <1>1, SayTells
<1>3. Reasons(u) = {}
  BY DEF Inferred, Reasons, Say
<1> HIDE DEF u
<1> QED BY <1>2, <1>3 DEF u

\* The other updates.
LEMMA OthersTell ==
  /\ Tells(<<Event>>, {}, {}, {}, {})
  /\ Tells(<<End>>, {"Exited"}, {"exit"}, {}, {"end"})
  /\ \A l \in Seq(Nat) : Tells(<<Layout(l)>>, {}, {}, {}, {})
  /\ \A u \in Nat \cup {None} : Tells(<<Match(u)>>, {"Paused"}, {"condition"}, {}, {})
  /\ \A l \in Seq(Breakpoints) : Tells(<<List(l)>>, {}, {}, {l}, {})
  /\ \A at \in Places(Lines), w \in Seq(Nat) : Tells(<<Shown(at, w)>>, {}, {}, {}, {})
  /\ \A id \in Places(Lines) : Tells(<<CodeAt(id)>>, {}, {}, {}, {})
<1> USE DEF StatusTold, ReasonTold, ListTold, EndTold
<1>1. Tells(<<Event>>, {}, {}, {}, {})
  <2>1. Event \in News /\ Event.kind = "Event"
    BY DEF News, Updates, Event
  <2> QED BY <2>1, TellsOne
<1>2. Tells(<<End>>, {"Exited"}, {"exit"}, {}, {"end"})
  <2>1. End \in News /\ End.kind = "SessionEnd"
    BY DEF News, Updates, End
  <2> QED BY <2>1, TellsOne
<1>3. ASSUME NEW l \in Seq(Nat) PROVE Tells(<<Layout(l)>>, {}, {}, {}, {})
  <2>1. Layout(l) \in News /\ Layout(l).kind = "HeapLayout"
    BY DEF News, Updates, HeapLayouts, Layout
  <2> QED BY <2>1, TellsOne
<1>4. ASSUME NEW u \in Nat \cup {None} PROVE Tells(<<Match(u)>>, {"Paused"}, {"condition"}, {}, {})
  <2>1. Match(u) \in News /\ Match(u).kind = "BreakMatched"
    BY DEF News, Updates, BreakMatches, Match
  <2> QED BY <2>1, TellsOne
<1>5. ASSUME NEW l \in Seq(Breakpoints) PROVE Tells(<<List(l)>>, {}, {}, {l}, {})
  <2>1. List(l) \in News /\ List(l).kind = "UserBreakpoints" /\ List(l).list = l
    BY DEF News, Updates, BreakpointLists, List
  <2> QED BY <2>1, TellsOne
<1>6. ASSUME NEW at \in Places(Lines), NEW w \in Seq(Nat)
      PROVE Tells(<<Shown(at, w)>>, {}, {}, {}, {})
  <2>1. Shown(at, w) \in News /\ Shown(at, w).kind = "MemoryInspection"
    BY DEF News, Updates, MemoryShown, Shown
  <2> QED BY <2>1, TellsOne
<1>7. ASSUME NEW id \in Places(Lines) PROVE Tells(<<CodeAt(id)>>, {}, {}, {}, {})
  <2>1. CodeAt(id) \in News /\ CodeAt(id).kind = "CodeInspection"
    BY DEF News, Updates, CodeShown, CodeAt
  <2> QED BY <2>1, TellsOne
<1> QED BY <1>1, <1>2, <1>3, <1>4, <1>5, <1>6, <1>7

-----------------------------------------------------------------------------
(* A step of the worker                                                    *)

Pendings == {"Pause"} \cup Underway \cup {"StepAllocatorEvent"} \cup StepVerbs
Workers ==
  [status : Statuses, held : BOOLEAN, pending : SUBSET Pendings, stopping : BOOLEAN,
   stepping : SourceSteps \cup {None}, lost : BOOLEAN, over : BOOLEAN]

\* A process that is gone unnoticed runs no source step; an exit that is known of ends
\* the trace, or is taken for a pause.
WorkerOK(w) ==
  /\ w \in Workers
  /\ w.lost => w.stepping = None
  /\ w.status = "Exited" => w.lost \/ w.over

\* The loop knows of a pause.
Held(w) == w.status = "Paused" => w.held
Stands(w, v) == (Held(w) => Held(v)) /\ (v.stopping => w.stopping)

\* From w to v, for the reason c, is a step whose updates tell what came of it: the
\* status and the reason as long as the worker knows better than the process itself.
Fits(w, v, S, R, L, E, c, reg) ==
  /\ WorkerOK(v)
  /\ L = {} \/ L = {reg}
  /\ E # {} => v.over
  /\ ~v.lost /\ ~v.over => Now(S, w.status, v.status)
  /\ c = None => (v.held /\ ~v.lost => w.held /\ (w.lost \/ R = {}))
  /\ c \notin {None, "unexplained"} => v.lost \/ R = {c}
  /\ v.lost => (w.lost /\ c = None) \/ c = "unexplained"
  /\ w.lost => c = None /\ (v.lost \/ v.over)

Fit(w, o, reg) ==
  \E S, R, L, E : Tells(o.said, S, R, L, E) /\ Fits(w, o.worker, S, R, L, E, o.cause, reg)

\* A step that is put together fits if its parts do.
LEMMA OutFits ==
  ASSUME NEW w, NEW v, NEW q, NEW c, NEW reg, NEW S, NEW R, NEW L, NEW E,
         Tells(q, S, R, L, E), Fits(w, v, S, R, L, E, c, reg)
  PROVE  Fit(w, W!Out(v, q, c), reg)
<1>1. W!Out(v, q, c).said = q /\ W!Out(v, q, c).worker = v /\ W!Out(v, q, c).cause = c
  BY DEF W!Out
<1> QED BY <1>1 DEF Fit

\* What the hit of a breakpoint and a met condition send first.
LEMMA BeforeTells ==
  ASSUME NEW event, Tells(event, {}, {}, {}, {}), NEW u \in Nat \cup {None},
         NEW b \in W!Before(event, Match(u))
  PROVE  \E S, R : Tells(b, S, R, {}, {})
<1>1. CASE b = <<>>
  BY <1>1, TellsNone
<1>2. CASE b = event
  BY <1>2
<1>3. CASE b = event \o <<Match(u)>>
  <2>1. Tells(<<Match(u)>>, {"Paused"}, {"condition"}, {}, {})
    BY OthersTell
  <2>2. Tells(b, Over({}, {"Paused"}), Over({}, {"condition"}), Over({}, {}), Over({}, {}))
    BY <1>3, <2>1, TellsJoin
  <2> QED BY <2>2 DEF Over
<1> QED BY <1>1, <1>2, <1>3 DEF W!Before

\* A condition that is met is told after the event that met it.
LEMMA MatchTells ==
  ASSUME NEW event, Tells(event, {}, {}, {}, {}), NEW u \in Nat \cup {None}
  PROVE  Tells(event \o <<Match(u)>>, {"Paused"}, {"condition"}, {}, {})
<1>1. Tells(<<Match(u)>>, {"Paused"}, {"condition"}, {}, {})
  BY OthersTell
<1>2. Tells(event \o <<Match(u)>>, Over({}, {"Paused"}), Over({}, {"condition"}), Over({}, {}),
            Over({}, {}))
  BY <1>1, TellsJoin
<1> QED BY <1>2 DEF Over

\* The updates q and then a status, with the reasons told by the latter.
LEMMA ThenSays ==
  ASSUME NEW q, NEW S, NEW R, NEW L, NEW E, Tells(q, S, R, L, E),
         NEW verb \in Verbs \cup {None}, NEW answer \in Answers, NEW status \in Statuses,
         NEW message \in Messages, NEW u, u = Say(verb, answer, status, message)
  PROVE  Tells(q \o <<u>>, {status}, Over(R, Reasons(u)), L, E)
<1>1. Tells(<<u>>, {status}, Reasons(u), {}, {})
  BY SayTells
<1>2. Tells(q \o <<u>>, Over(S, {status}), Over(R, Reasons(u)), Over(L, {}), Over(E, {}))
  BY <1>1, TellsJoin
<1> QED BY <1>2 DEF Over

\* The list of the breakpoints, and that one of them was hit.
LEMMA HitTells ==
  ASSUME NEW q, NEW S, NEW R, Tells(q, S, R, {}, {}), NEW reg \in Seq(Breakpoints)
  PROVE  /\ Tells(q \o W!HitSaid(reg), S, R, {reg}, {})
         /\ Tells(W!HitReported, {"Paused"}, {"breakpoint"}, {}, {})
         /\ Tells(q \o W!HitSaid(reg) \o W!HitReported, {"Paused"}, {"breakpoint"}, {reg}, {})
<1>1. Tells(W!HitSaid(reg), {}, {}, {reg}, {})
  BY OthersTell DEF W!HitSaid, W!List, List
<1>2. Tells(q \o W!HitSaid(reg), Over(S, {}), Over(R, {}), Over({}, {reg}), Over({}, {}))
  BY <1>1, TellsJoin
<1>3. Tells(q \o W!HitSaid(reg), S, R, {reg}, {})
  BY <1>2 DEF Over
<1>4. Tells(W!HitReported, {"Paused"}, {"breakpoint"}, {}, {})
  <2> DEFINE u == Say(None, "Completed", "Paused", "hit")
  <2>1. "Completed" \in Answers /\ "Paused" \in Statuses /\ "hit" \in Messages
    BY DEF Answers, Statuses, Messages
  <2>2. Tells(<<u>>, {"Paused"}, Reasons(u), {}, {})
    BY <2>1, SayTells
  <2>3. Reasons(u) = {"breakpoint"}
    <3>1. Inferred(u) = "breakpoint"
      BY DEF Inferred, Say
    <3>2. None # "breakpoint"
      BY NoneIsNothing DEF Causes
    <3> QED BY <3>1, <3>2 DEF Reasons
  <2> QED BY <2>2, <2>3 DEF W!HitReported, W!Say, Say
<1>5. Tells((q \o W!HitSaid(reg)) \o W!HitReported, Over(S, {"Paused"}), Over(R, {"breakpoint"}),
            Over({reg}, {}), Over({}, {}))
  BY <1>3, <1>4, TellsJoin
<1> QED BY <1>3, <1>4, <1>5 DEF Over

\* The worker speaks the language of the interface.
LEMMA SameWords ==
  /\ \A verb, answer, status, message :
       W!Say(verb, answer, status, message) = Say(verb, answer, status, message)
  /\ \A l : W!List(l) = List(l)
  /\ \A user : W!Match(user) = Match(user)
  /\ W!End = End
  /\ \A verb : W!StatusOf(verb) = StatusOf(verb)
  /\ \A status, verb : W!Valid(status, verb) = Valid(status, verb)
  /\ W!SourceSteps = SourceSteps /\ W!StepVerbs = StepVerbs
<1> USE DEF W!Say, Say, W!List, List, W!Match, Match, W!End, End, W!SourceSteps, SourceSteps, W!StepVerbs, StepVerbs, W!Underway, Underway
<1>1. \A verb : W!StatusOf(verb) = StatusOf(verb)
  BY DEF W!StatusOf, StatusOf
<1>2. \A status, verb : W!Valid(status, verb) = Valid(status, verb)
  BY <1>1 DEF W!Valid, Valid
<1> QED BY <1>1, <1>2

\* A process that is held, and known to be.
LEMMA HoldingRight ==
  ASSUME NEW w, WorkerOK(w), ~w.lost, NEW gone
  PROVE  LET v == W!Holding(w, gone) IN
         /\ WorkerOK(v) /\ v.status = "Paused" /\ v.held = TRUE /\ v.lost = FALSE
         /\ v.over = w.over /\ Stands(w, v)
<1> DEFINE v == W!Holding(w, gone)
<1>1. w.pending \ gone \in SUBSET Pendings
  BY DEF WorkerOK, Workers
<1>2. v \in Workers /\ v.status = "Paused" /\ v.held = TRUE /\ v.lost = w.lost
      /\ v.over = w.over /\ v.stopping = w.stopping /\ v.stepping = w.stepping
  BY <1>1 DEF WorkerOK, Workers, W!Holding, Statuses
<1> HIDE DEF v
<1> QED BY <1>2 DEF WorkerOK, Workers, Stands, Held, v

\* A step after which the worker holds the process, and says why.
LEMMA PauseFits ==
  ASSUME NEW w, WorkerOK(w), NEW v, WorkerOK(v), v.status = "Paused", ~w.lost,
         v.lost = FALSE, NEW q, NEW R, NEW L, NEW reg, L = {} \/ L = {reg}, NEW c,
         c # None, c = "unexplained" \/ R = {c}, Tells(q, {"Paused"}, R, L, {})
  PROVE  Fit(w, W!Out(v, q, c), reg)
<1>1. Fits(w, v, {"Paused"}, R, L, {}, c, reg)
  BY DEF Fits, Now
<1> QED BY <1>1, OutFits

\* A step after which all is as before, for what the interface is told of.
LEMMA StillFits ==
  ASSUME NEW w, WorkerOK(w), NEW v, WorkerOK(v), v.held = w.held, v.lost = w.lost \/ v.over,
         ~v.lost \/ w.lost,
         NEW S, ~v.lost /\ ~v.over => Now(S, w.status, v.status), NEW q, NEW reg,
         Tells(q, S, {}, {}, {})
  PROVE  Fit(w, W!Out(v, q, None), reg)
<1>1. Fits(w, v, S, {}, {}, {}, None, reg)
  BY DEF Fits
<1> QED BY <1>1, OutFits

\* A command that ends tells why the target stands still (infer_debugger_stop_reason).
LEMMA SaysWhy ==
  ASSUME NEW verb \in StepVerbs \cup {"Pause", "StepAllocatorEvent"}
  PROVE  /\ verb # "Pause" =>
              Tells(<<Say(verb, "Completed", "Paused", "moved")>>, {"Paused"}, {verb}, {}, {})
         /\ verb = "Pause" =>
              Tells(<<Say(verb, "Completed", "Paused", "other")>>, {"Paused"}, {verb}, {}, {})
         /\ verb \in StepVerbs \ SourceSteps =>
              Tells(<<Say(verb, "Failed", "Paused", "signal")>>, {"Paused"}, {"signal"}, {}, {})
<1>1. /\ "Completed" \in Answers /\ "Failed" \in Answers /\ "Paused" \in Statuses
      /\ "moved" \in Messages /\ "other" \in Messages /\ "signal" \in Messages
      /\ verb \in Verbs \cup {None}
  BY DEF Answers, Statuses, Messages, Verbs, Controls
<1>2. None \notin StepVerbs \cup {"Pause", "StepAllocatorEvent", "signal"}
  BY NoneIsNothing DEF Causes
<1>3. ASSUME verb # "Pause"
      PROVE  Tells(<<Say(verb, "Completed", "Paused", "moved")>>, {"Paused"}, {verb}, {}, {})
  <2> DEFINE u == Say(verb, "Completed", "Paused", "moved")
  <2>1. Inferred(u) = verb
    BY <1>3 DEF Inferred, Say
  <2>2. Tells(<<u>>, {"Paused"}, Reasons(u), {}, {})
    BY <1>1, SayTells
  <2> HIDE DEF u
  <2> QED BY <1>2, <2>1, <2>2 DEF Reasons, u
<1>4. ASSUME verb = "Pause"
      PROVE  Tells(<<Say(verb, "Completed", "Paused", "other")>>, {"Paused"}, {verb}, {}, {})
  <2> DEFINE u == Say(verb, "Completed", "Paused", "other")
  <2>1. Inferred(u) = verb
    BY <1>4 DEF Inferred, Say
  <2>2. Tells(<<u>>, {"Paused"}, Reasons(u), {}, {})
    BY <1>1, SayTells
  <2> HIDE DEF u
  <2> QED BY <1>2, <2>1, <2>2 DEF Reasons, u
<1>5. ASSUME verb \in StepVerbs \ SourceSteps
      PROVE  Tells(<<Say(verb, "Failed", "Paused", "signal")>>, {"Paused"}, {"signal"}, {}, {})
  <2> DEFINE u == Say(verb, "Failed", "Paused", "signal")
  <2>1. Inferred(u) = "signal"
    BY <1>5 DEF Inferred, Say, StepVerbs, SourceSteps
  <2>2. Tells(<<u>>, {"Paused"}, Reasons(u), {}, {})
    BY <1>1, SayTells
  <2> HIDE DEF u
  <2> QED BY <1>2, <2>1, <2>2 DEF Reasons, u
<1> QED BY <1>3, <1>4, <1>5

\* A pause that was asked for.
LEMMA PauseOutcomesFit ==
  ASSUME NEW w, WorkerOK(w), ~w.lost, NEW reg, NEW o \in W!PauseOutcomes(w)
  PROVE  Fit(w, o, reg) /\ Stands(w, o.worker)
<1> DEFINE v == W!Holding(w, {"Pause"})
           q == <<Say("Pause", "Completed", "Paused", "other")>>
<1>1. o = W!Out(v, q, "Pause") /\ o.worker = v
  BY SameWords DEF W!PauseOutcomes, W!Out
<1>2. WorkerOK(v) /\ v.status = "Paused" /\ v.lost = FALSE /\ Stands(w, v)
  BY HoldingRight
<1>3. Tells(q, {"Paused"}, {"Pause"}, {}, {})
  BY SaysWhy
<1>4. "Pause" # None
  BY NoneIsNothing DEF Causes
<1> DEFINE c == "Pause"
<1>5. o = W!Out(v, q, c) /\ c # None /\ Tells(q, {"Paused"}, {c}, {}, {})
  BY <1>1, <1>3, <1>4
<1> HIDE DEF v, q, c
<1>6. Fit(w, W!Out(v, q, c), reg)
  BY <1>2, <1>5, PauseFits
<1> QED BY <1>1, <1>2, <1>5, <1>6

\* The end of a step over a call.
LEMMA NextiOutcomesFit ==
  ASSUME NEW w, WorkerOK(w), ~w.lost, NEW reg, NEW o \in W!NextiOutcomes(w)
  PROVE  Fit(w, o, reg) /\ Stands(w, o.worker)
<1> DEFINE v == W!Holding(w, {"StepInstructionOver"})
           q == <<Say("StepInstructionOver", "Completed", "Paused", "moved")>>
           r == <<Say("StepInstructionOver", "Failed", "Paused", "signal")>>
<1>1. (o = W!Out(v, q, "StepInstructionOver") \/ o = W!Out(v, r, "signal")) /\ o.worker = v
  BY SameWords DEF W!NextiOutcomes, W!Out
<1>2. WorkerOK(v) /\ v.status = "Paused" /\ v.lost = FALSE /\ Stands(w, v)
  BY HoldingRight
<1>3. Tells(q, {"Paused"}, {"StepInstructionOver"}, {}, {}) /\ Tells(r, {"Paused"}, {"signal"}, {}, {})
  BY SaysWhy DEF StepVerbs, SourceSteps
<1>4. "StepInstructionOver" # None /\ "signal" # None
  BY NoneIsNothing DEF Causes, StepVerbs
<1>5. PICK c : /\ c # None
               /\ \/ o = W!Out(v, q, c) /\ Tells(q, {"Paused"}, {c}, {}, {})
                  \/ o = W!Out(v, r, c) /\ Tells(r, {"Paused"}, {c}, {}, {})
  BY <1>1, <1>3, <1>4
<1> HIDE DEF v, q, r
<1> QED BY <1>1, <1>2, <1>5, PauseFits

\* The end of the time a process has to end by itself.
LEMMA GraceOutcomesFit ==
  ASSUME NEW w, WorkerOK(w), ~w.lost, NEW reg, NEW o \in W!GraceOutcomes(w)
  PROVE  Fit(w, o, reg) /\ Stands(w, o.worker)
<1> DEFINE v == [w EXCEPT !.status = "Stopping", !.stopping = FALSE]
           q == <<Say(None, "Completed", "Stopping", "other")>>
<1>1. o = W!Out(v, q, None) /\ o.worker = v
  BY SameWords DEF W!GraceOutcomes, W!Out
<1>2. WorkerOK(v) /\ v.status = "Stopping" /\ v.held = w.held /\ v.lost = w.lost /\ ~v.stopping
  BY DEF WorkerOK, Workers, Statuses
<1>3. Tells(q, {"Stopping"}, {}, {}, {})
  BY SayQuiet DEF Answers, Statuses
<1> HIDE DEF v, q
<1>4. Now({"Stopping"}, w.status, v.status)
  BY <1>2 DEF Now
<1> QED BY <1>1, <1>2, <1>3, <1>4, StillFits DEF Stands, Held

\* The trace fails: nobody is told.
LEMMA FailsFit ==
  ASSUME NEW w, WorkerOK(w), NEW reg
  PROVE  Fit(w, W!Fails(w), reg) /\ Stands(w, W!Fails(w).worker) /\ WorkerOK(W!Fails(w).worker)
<1> DEFINE v == [w EXCEPT !.over = TRUE, !.lost = FALSE]
<1>1. W!Fails(w) = W!Out(v, <<>>, None) /\ W!Fails(w).worker = v
  BY DEF W!Fails, W!Out
<1>2. /\ WorkerOK(v) /\ v.status = w.status /\ v.held = w.held /\ v.lost = FALSE /\ v.over = TRUE
      /\ v.stopping = w.stopping
  BY DEF WorkerOK, Workers
<1> HIDE DEF v
<1>3. Tells(<<>>, {}, {}, {}, {})
  BY TellsNone
<1> QED BY <1>1, <1>2, <1>3, StillFits DEF Stands, Held

\* The process ends.
LEMMA ExitOutcomesFit ==
  ASSUME NEW w, WorkerOK(w), ~w.lost, NEW reg, NEW o \in W!ExitOutcomes(w)
  PROVE  Fit(w, o, reg) /\ Stands(w, o.worker)
<1> DEFINE v == W!Ended(w)
           u == Say(None, "Completed", "Exited", "other")
<1>1. o = W!Out(v, <<u, End>>, None) /\ o.worker = v
  BY SameWords DEF W!ExitOutcomes, W!Out
<1>2. WorkerOK(v) /\ v.over = TRUE /\ v.lost = FALSE /\ v.held = FALSE /\ Stands(w, v)
  BY DEF W!Ended, WorkerOK, Workers, Statuses, Stands, Held
<1>3. Tells(<<u>>, {"Exited"}, Reasons(u), {}, {})
  BY SayTells DEF Answers, Statuses, Messages
<1>4. Tells(<<End>>, {"Exited"}, {"exit"}, {}, {"end"})
  BY OthersTell
<1>5. Tells(<<u>> \o <<End>>, Over({"Exited"}, {"Exited"}), Over(Reasons(u), {"exit"}), Over({}, {}),
            Over({}, {"end"}))
  BY <1>3, <1>4, TellsJoin
<1>6. <<u, End>> = <<u>> \o <<End>>
  OBVIOUS
<1> HIDE DEF v, u
<1>7. Tells(<<u, End>>, {"Exited"}, {"exit"}, {}, {"end"})
  BY <1>5, <1>6 DEF Over
<1>8. Fits(w, v, {"Exited"}, {"exit"}, {}, {"end"}, None, reg)
  BY <1>2 DEF Fits
<1> QED BY <1>1, <1>2, <1>7, <1>8, OutFits

\* An allocator event: the loop goes on, a condition is met, or a step ends.
LEMMA EventOutcomesFit ==
  ASSUME NEW w, WorkerOK(w), ~w.lost, NEW reg, NEW event, Tells(event, {}, {}, {}, {}),
         NEW user \in Nat \cup {None}, NEW o \in W!EventOutcomes(w, event, Match(user))
  PROVE  Fit(w, o, reg) /\ Stands(w, o.worker)
<1> DEFINE both == {"StepAllocatorEvent", "StepInstructionOver"}
           v == W!Holding(w, both)
           x == W!Holding(w, {"StepAllocatorEvent"})
           m == event \o <<Match(user)>>
           f == Say("StepInstructionOver", "Failed", "Paused", "other")
           s == Say("StepAllocatorEvent", "Completed", "Paused", "moved")
<1>1. \/ o = W!Out(w, event, None)
      \/ o = W!Out(v, m \o <<f>>, "condition")
      \/ o = W!Out(v, m \o <<>>, "condition")
      \/ o = W!Out(x, event \o <<s>>, "StepAllocatorEvent")
  BY SameWords DEF W!EventOutcomes
<1>2. /\ WorkerOK(v) /\ v.status = "Paused" /\ v.lost = FALSE /\ Stands(w, v)
      /\ WorkerOK(x) /\ x.status = "Paused" /\ x.lost = FALSE /\ Stands(w, x)
  <2> HIDE DEF both
  <2> QED BY HoldingRight
<1>3. Tells(m, {"Paused"}, {"condition"}, {}, {})
  BY MatchTells
<1>4. Tells(<<f>>, {"Paused"}, {}, {}, {})
  BY SayQuiet DEF Verbs, Controls, StepVerbs, Answers, Statuses
<1>5. Tells(m \o <<f>>, {"Paused"}, {"condition"}, {}, {})
  <2>1. Tells(m \o <<f>>, Over({"Paused"}, {"Paused"}), Over({"condition"}, {}), Over({}, {}), Over({}, {}))
    BY <1>3, <1>4, TellsJoin
  <2> QED BY <2>1 DEF Over
<1>6. Tells(m \o <<>>, {"Paused"}, {"condition"}, {}, {})
  <2>1. Tells(m \o <<>>, Over({"Paused"}, {}), Over({"condition"}, {}), Over({}, {}), Over({}, {}))
    BY <1>3, TellsNone, TellsJoin
  <2> QED BY <2>1 DEF Over
<1>7. Tells(event \o <<s>>, {"Paused"}, {"StepAllocatorEvent"}, {}, {})
  <2>1. Tells(<<s>>, {"Paused"}, {"StepAllocatorEvent"}, {}, {})
    BY SaysWhy
  <2>2. Tells(event \o <<s>>, Over({}, {"Paused"}), Over({}, {"StepAllocatorEvent"}), Over({}, {}), Over({}, {}))
    BY <2>1, TellsJoin
  <2> QED BY <2>2 DEF Over
<1>8. "condition" # None /\ "StepAllocatorEvent" # None
  BY NoneIsNothing DEF Causes
<1>9. CASE o = W!Out(w, event, None)
  <2>1. o.worker = w
    BY <1>9 DEF W!Out
  <2>2. Fit(w, W!Out(w, event, None), reg)
    BY StillFits DEF Now
  <2> QED BY <1>9, <2>1, <2>2 DEF Stands
<1>10. ASSUME NEW c, NEW q, c # None, Tells(q, {"Paused"}, {c}, {}, {}),
              NEW y \in {v, x}, o = W!Out(y, q, c)
       PROVE  Fit(w, o, reg) /\ Stands(w, o.worker)
  <2>1. o.worker = y
    BY <1>10 DEF W!Out
  <2>2. Fit(w, W!Out(y, q, c), reg)
    <3> HIDE DEF v, x
    <3> QED BY <1>2, <1>10, PauseFits
  <2> QED BY <1>2, <1>10, <2>1, <2>2
<1> HIDE DEF v, x, m, f, s
<1> QED BY <1>1, <1>5, <1>6, <1>7, <1>8, <1>9, <1>10

\* A user breakpoint is hit.
LEMMA HitOutcomesFit ==
  ASSUME NEW w, WorkerOK(w), ~w.lost, NEW reg \in Seq(Breakpoints), NEW event,
         Tells(event, {}, {}, {}, {}), NEW user \in Nat \cup {None},
         NEW o \in W!HitOutcomes(w, reg, event, Match(user))
  PROVE  Fit(w, o, reg) /\ Stands(w, o.worker)
<1> DEFINE v == W!Holding(w, {"StepAllocatorEvent"})
<1>1. PICK b \in W!Before(event, Match(user)) :
        o = W!Out(v, b \o W!HitSaid(reg) \o W!HitReported, "breakpoint")
  BY DEF W!HitOutcomes
<1>2. WorkerOK(v) /\ v.status = "Paused" /\ v.lost = FALSE /\ Stands(w, v)
  BY HoldingRight
<1>3. PICK S, R : Tells(b, S, R, {}, {})
  BY BeforeTells
<1>4. PICK c : c = "breakpoint" /\ c # None
  BY NoneIsNothing DEF Causes
<1> DEFINE q == b \o W!HitSaid(reg) \o W!HitReported
<1>5. Tells(q, {"Paused"}, {c}, {reg}, {})
  BY <1>3, <1>4, HitTells
<1> HIDE DEF v, q
<1>6. Fit(w, W!Out(v, q, c), reg)
  BY <1>2, <1>4, <1>5, PauseFits
<1>7. o.worker = v
  BY <1>1 DEF W!Out, q
<1> QED BY <1>1, <1>2, <1>4, <1>6, <1>7 DEF q

\* A source step: it goes on, ends, is interrupted, or the process ends under it,
\* which is taken for a pause.
LEMMA SourceOutcomesFit ==
  ASSUME NEW w, WorkerOK(w), ~w.lost, w.stepping # None, NEW reg \in Seq(Breakpoints), NEW event,
         Tells(event, {}, {}, {}, {}), NEW user \in Nat \cup {None},
         NEW o \in W!SourceOutcomes(w, reg, event, Match(user))
  PROVE  Fit(w, o, reg) /\ Stands(w, o.worker)
<1> DEFINE h == W!Holding(w, {})
           back == [h EXCEPT !.stepping = None]
           gone == [back EXCEPT !.lost = TRUE]
           known == [back EXCEPT !.lost = TRUE, !.status = "Exited"]
           m == event \o <<Match(user)>>
           say(answer, status, message) == Say(w.stepping, answer, status, message)
<1>1. \/ o = W!Out(w, event, None)
      \/ o = W!Out(back, <<say("Completed", "Paused", "moved")>>, w.stepping)
      \/ o = W!Out(back, <<say("Completed", "Paused", "other")>>, "unexplained")
      \/ o = W!Out(back, <<say("Failed", "Paused", "signal")>>, "unexplained")
      \/ o = W!Out(back, m \o <<say("Failed", "Paused", "other")>>, "condition")
      \/ o = W!Out(gone, <<say("Completed", "Exited", "other")>>, "unexplained")
      \/ o = W!Out(known, <<say("Completed", "Exited", "other")>>, "unexplained")
      \/ o = W!Fails(w)
      \/ \E b \in W!Before(event, Match(user)) :
           o = W!Out(back, b \o W!HitSaid(reg) \o <<say("Failed", "Paused", "other")>>
                             \o W!HitReported, "breakpoint")
  BY SameWords DEF W!SourceOutcomes
<1>2. /\ h.stopping = w.stopping /\ h \in Workers /\ h.status = "Paused" /\ h.held = TRUE
      /\ h.lost = FALSE
  BY HoldingRight DEF W!Holding, WorkerOK, Workers
<1> HIDE DEF h
<1>3. /\ WorkerOK(back) /\ back.status = "Paused" /\ back.lost = FALSE /\ Stands(w, back)
  BY <1>2 DEF WorkerOK, Workers, Stands, Held
<1>4. /\ WorkerOK(gone) /\ gone.lost = TRUE /\ Stands(w, gone)
      /\ WorkerOK(known) /\ known.lost = TRUE /\ Stands(w, known)
  BY <1>2 DEF WorkerOK, Workers, Stands, Held, Statuses
<1>5. /\ w.stepping \in SourceSteps /\ w.stepping \in Verbs \cup {None}
      /\ w.stepping \in StepVerbs \cup {"Pause", "StepAllocatorEvent"} /\ w.stepping # "Pause"
  BY DEF WorkerOK, Workers, SourceSteps, StepVerbs, Verbs, Controls
<1>6. /\ "Completed" \in Answers /\ "Failed" \in Answers /\ "Paused" \in Statuses
      /\ "Exited" \in Statuses /\ "moved" \in Messages /\ "other" \in Messages
      /\ "signal" \in Messages
  BY DEF Answers, Statuses, Messages
<1>7. CASE o = W!Out(w, event, None)
  <2>1. o.worker = w
    BY <1>7 DEF W!Out
  <2>2. Fit(w, W!Out(w, event, None), reg)
    BY StillFits DEF Now
  <2> QED BY <1>7, <2>1, <2>2 DEF Stands
<1>8. CASE o = W!Fails(w)
  BY <1>8, FailsFit
<1>9. ASSUME NEW c, NEW q, NEW R, NEW L, L = {} \/ L = {reg}, c # None, c = "unexplained" \/ R = {c},
             Tells(q, {"Paused"}, R, L, {}), o = W!Out(back, q, c)
      PROVE  Fit(w, o, reg) /\ Stands(w, o.worker)
  <2>1. o.worker = back
    BY <1>9 DEF W!Out
  <2> HIDE DEF back
  <2>2. Fit(w, W!Out(back, q, c), reg)
    BY <1>3, <1>9, PauseFits
  <2> QED BY <1>3, <1>9, <2>1, <2>2
<1>10. ASSUME NEW y, y \in {gone, known}, NEW q, NEW R, Tells(q, {"Exited"}, R, {}, {}),
              NEW c, c = "unexplained", o = W!Out(y, q, c)
       PROVE  Fit(w, o, reg) /\ Stands(w, o.worker)
  <2>1. o.worker = y
    BY <1>10 DEF W!Out
  <2> HIDE DEF gone, known
  <2>2. WorkerOK(y) /\ y.lost = TRUE /\ Stands(w, y)
    BY <1>4, <1>10
  <2>3. c # None
    BY <1>10, NoneIsNothing DEF Causes
  <2>4. Fits(w, y, {"Exited"}, R, {}, {}, c, reg)
    BY <2>2, <2>3, <1>10 DEF Fits
  <2>5. Fit(w, W!Out(y, q, c), reg)
    BY <2>4, <1>10, OutFits
  <2> QED BY <1>10, <2>1, <2>2, <2>5
<1>11. PICK un : un = "unexplained" /\ un # None
  BY NoneIsNothing DEF Causes
<1>12. Tells(<<say("Completed", "Paused", "moved")>>, {"Paused"}, {w.stepping}, {}, {})
  BY <1>5, SaysWhy
<1>13. \E R : Tells(<<say("Completed", "Paused", "other")>>, {"Paused"}, R, {}, {})
  BY <1>5, <1>6, SayTells
<1>14. \E R : Tells(<<say("Failed", "Paused", "signal")>>, {"Paused"}, R, {}, {})
  BY <1>5, <1>6, SayTells
<1>15. \E R : Tells(<<say("Completed", "Exited", "other")>>, {"Exited"}, R, {}, {})
  BY <1>5, <1>6, SayTells
<1>16. Tells(<<say("Failed", "Paused", "other")>>, {"Paused"}, {}, {}, {})
  BY <1>5, <1>6, SayQuiet
<1>17. Tells(m \o <<say("Failed", "Paused", "other")>>, {"Paused"}, {"condition"}, {}, {})
  <2>1. Tells(m, {"Paused"}, {"condition"}, {}, {})
    BY MatchTells
  <2> HIDE DEF m
  <2>2. Tells(m \o <<say("Failed", "Paused", "other")>>, Over({"Paused"}, {"Paused"}), Over({"condition"}, {}), Over({}, {}), Over({}, {}))
    BY <2>1, <1>16, TellsJoin
  <2> QED BY <2>2 DEF Over
<1>18. \A b \in W!Before(event, Match(user)) :
         Tells(b \o W!HitSaid(reg) \o <<say("Failed", "Paused", "other")>> \o W!HitReported,
               {"Paused"}, {"breakpoint"}, {reg}, {})
  <2> SUFFICES ASSUME NEW b \in W!Before(event, Match(user))
               PROVE  Tells((b \o W!HitSaid(reg) \o <<say("Failed", "Paused", "other")>>)
                              \o W!HitReported, {"Paused"}, {"breakpoint"}, {reg}, {})
    OBVIOUS
  <2>1. PICK S, R : Tells(b, S, R, {}, {})
    BY BeforeTells
  <2> DEFINE p == b \o W!HitSaid(reg)
             t == <<say("Failed", "Paused", "other")>>
  <2>2. Tells(p, S, R, {reg}, {}) /\ Tells(W!HitReported, {"Paused"}, {"breakpoint"}, {}, {})
    BY <2>1, HitTells
  <2>3. Tells(t, {"Paused"}, {}, {}, {})
    BY <1>16
  <2> HIDE DEF p, t
  <2>4. Tells(p \o t, Over(S, {"Paused"}), Over(R, {}), Over({reg}, {}), Over({}, {}))
    BY <2>2, <2>3, TellsJoin
  <2>5. Tells((p \o t) \o W!HitReported, Over(Over(S, {"Paused"}), {"Paused"}),
              Over(Over(R, {}), {"breakpoint"}), Over(Over({reg}, {}), {}), Over(Over({}, {}), {}))
    BY <2>2, <2>4, TellsJoin
  <2>6. Tells((p \o t) \o W!HitReported, {"Paused"}, {"breakpoint"}, {reg}, {})
    BY <2>5 DEF Over
  <2> QED BY <2>6 DEF p, t
<1>19. "condition" # None /\ "breakpoint" # None
  BY NoneIsNothing DEF Causes
<1> HIDE DEF back, gone, known, m, say
<1> QED BY <1>1, <1>7, <1>8, <1>9, <1>10, <1>11, <1>12, <1>13, <1>14, <1>15, <1>17, <1>18, <1>19

\* A step that the worker takes by itself.
LEMMA OwnFits ==
  ASSUME NEW w, WorkerOK(w), NEW reg \in Seq(Breakpoints), NEW event,
         Tells(event, {}, {}, {}, {}), NEW user \in Nat \cup {None},
         NEW o \in W!Own(w, reg, event, Match(user))
  PROVE  Fit(w, o, reg) /\ Stands(w, o.worker) /\ ~w.over
<1>1. ~w.over /\ w.over \in BOOLEAN /\ w.lost \in BOOLEAN
  BY DEF W!Own, WorkerOK, Workers
<1>2. CASE w.stepping # None
  <2>1. o \in W!SourceOutcomes(w, reg, event, Match(user))
    BY <1>1, <1>2 DEF W!Own
  <2>2. ~w.lost
    BY <1>2 DEF WorkerOK
  <2> QED BY <1>1, <1>2, <2>1, <2>2, SourceOutcomesFit
<1>3. CASE w.stepping = None /\ w.lost
  <2>1. o = W!Fails(w)
    BY <1>1, <1>3 DEF W!Own
  <2> QED BY <1>1, <2>1, FailsFit
<1>4. CASE w.stepping = None /\ ~w.lost
  <2>1. o \in W!EventOutcomes(w, event, Match(user)) \cup W!HitOutcomes(w, reg, event, Match(user))
             \cup W!PauseOutcomes(w) \cup W!NextiOutcomes(w) \cup W!GraceOutcomes(w)
             \cup W!ExitOutcomes(w) \cup {W!Fails(w)}
    BY <1>1, <1>4 DEF W!Own
  <2> QED BY <1>1, <1>4, <2>1, EventOutcomesFit, HitOutcomesFit, PauseOutcomesFit,
             NextiOutcomesFit, GraceOutcomesFit, ExitOutcomesFit, FailsFit
<1> QED BY <1>2, <1>3, <1>4

-----------------------------------------------------------------------------
(* The answer to a command                                                 *)

\* An answer fits, and it tells the status if the loop knows of a pause.
FitAnswer(w, o, reg) ==
  \E S, R, L, E :
    /\ Tells(o.said, S, R, L, E) /\ Fits(w, o.worker, S, R, L, E, o.cause, reg)
    /\ Held(w) /\ ~o.worker.lost /\ ~o.worker.over => S = {o.worker.status}

\* An answer that is put together fits if its parts do.
LEMMA AnswerFits ==
  ASSUME NEW w, NEW v, NEW q, NEW c, NEW reg, NEW S, NEW R, NEW L, NEW E,
         Tells(q, S, R, L, E), Fits(w, v, S, R, L, E, c, reg),
         Held(w) /\ ~v.lost /\ ~v.over => S = {v.status}
  PROVE  FitAnswer(w, W!Out(v, q, c), reg)
<1>1. W!Out(v, q, c).said = q /\ W!Out(v, q, c).worker = v /\ W!Out(v, q, c).cause = c
  BY DEF W!Out
<1> QED BY <1>1 DEF FitAnswer

\* Two updates.
LEMMA TellsTwo ==
  ASSUME NEW a, NEW b, NEW S, NEW R, NEW L, NEW E, NEW S2, NEW R2, NEW L2, NEW E2,
         Tells(<<a>>, S, R, L, E), Tells(<<b>>, S2, R2, L2, E2)
  PROVE  Tells(<<a, b>>, Over(S, S2), Over(R, R2), Over(L, L2), Over(E, E2))
<1>1. <<a, b>> = <<a>> \o <<b>>
  <2>1. <<a>> \in Seq(News) /\ <<b>> \in Seq(News)
    BY DEF Tells
  <2>2. Len(<<a>> \o <<b>>) = 2 /\ (<<a>> \o <<b>>)[1] = a /\ (<<a>> \o <<b>>)[2] = b
        /\ <<a>> \o <<b>> \in Seq(News)
    BY <2>1
  <2>3. <<a, b>> \in Seq(News) /\ Len(<<a, b>>) = 2 /\ <<a, b>>[1] = a /\ <<a, b>>[2] = b
    BY <2>1
  <2> DEFINE p == <<a, b>>
             q == <<a>> \o <<b>>
  <2> HIDE DEF p, q
  <2>4. p \in Seq(News) /\ q \in Seq(News) /\ Len(p) = 2 /\ Len(q) = 2 /\ \A i \in 1 .. 2 : p[i] = q[i]
    BY <2>2, <2>3 DEF p, q
  <2>5. p = q
    BY <2>4
  <2> QED BY <2>5 DEF p, q
<1> QED BY <1>1, TellsJoin

\* An answer that starts no pause: it tells the status, and no reason to who has one.
LEMMA GoesOn ==
  ASSUME NEW w, NEW v, WorkerOK(v), v.lost = w.lost, v.held => w.held, NEW q, NEW R, NEW reg,
         ~w.lost => R = {}, NEW s, s = v.status \/ w.lost, Tells(q, {s}, R, {}, {})
  PROVE  FitAnswer(w, W!Out(v, q, None), reg)
<1>1. Fits(w, v, {s}, R, {}, {}, None, reg)
  BY DEF Fits, Now
<1>2. Held(w) /\ ~v.lost /\ ~v.over => {s} = {v.status}
  OBVIOUS
<1> QED BY <1>1, <1>2, AnswerFits

\* The answer to a command, if it is of a worker that is not over.
LEMMA SayAnswer ==
  ASSUME NEW w, WorkerOK(w), ~w.over, NEW verb \in Verbs, NEW answer \in Answers,
         NEW status \in Statuses, status = w.status \/ status # "Exited",
         status = "Paused" => verb # "Pause" \/ answer # "Completed"
  PROVE  \E R : Tells(<<Say(verb, answer, status, "other")>>, {status}, R, {}, {})
                /\ (~w.lost => R = {})
<1>1. CASE w.lost
  <2>1. "other" \in Messages
    BY DEF Messages
  <2> QED BY <1>1, <2>1, SayTells
<1>2. CASE ~w.lost
  <2>1. status # "Exited"
    BY <1>2 DEF WorkerOK
  <2> QED BY <1>2, <2>1, SayQuiet
<1> QED BY <1>1, <1>2

\* A command that is heard, and what came of it.
LEMMA TwoAnswers ==
  ASSUME NEW w, WorkerOK(w), ~w.over, NEW verb \in Verbs,
         NEW first \in Statuses, first = w.status \/ first # "Exited",
         NEW answer \in Answers, NEW status \in Statuses, status # "Exited",
         status = "Paused" => verb # "Pause" \/ answer # "Completed"
  PROVE  \E R : Tells(<<Say(verb, "Accepted", first, "other"), Say(verb, answer, status, "other")>>,
                      {status}, R, {}, {})
                /\ (~w.lost => R = {})
<1>1. "Accepted" \in Answers /\ "Accepted" # "Completed"
  BY DEF Answers
<1>2. PICK R1 : Tells(<<Say(verb, "Accepted", first, "other")>>, {first}, R1, {}, {})
                /\ (~w.lost => R1 = {})
  BY <1>1, SayAnswer
<1>3. PICK R2 : Tells(<<Say(verb, answer, status, "other")>>, {status}, R2, {}, {})
                /\ (~w.lost => R2 = {})
  BY SayAnswer
<1>4. Tells(<<Say(verb, "Accepted", first, "other"), Say(verb, answer, status, "other")>>,
            Over({first}, {status}), Over(R1, R2), Over({}, {}), Over({}, {}))
  BY <1>2, <1>3, TellsTwo
<1>5. Tells(<<Say(verb, "Accepted", first, "other"), Say(verb, answer, status, "other")>>,
            {status}, Over(R1, R2), {}, {})
  BY <1>4 DEF Over
<1>6. ~w.lost => Over(R1, R2) = {}
  BY <1>2, <1>3 DEF Over
<1> QED BY <1>5, <1>6

\* What the answer to a command may do to the worker.
AnswerStands(w, v, verb) ==
  /\ (verb = "Stop" => ~w.stopping) /\ Held(w) => Held(v)
  /\ verb # "Stop" => (v.stopping => w.stopping)

\* A command that is refused changes nothing.
LEMMA RejectedFits ==
  ASSUME NEW w, WorkerOK(w), ~w.over, NEW verb \in Verbs, NEW reg, NEW o, o = W!Answered(w, verb, "Rejected")
  PROVE  FitAnswer(w, o, reg) /\ AnswerStands(w, o.worker, verb)
<1> DEFINE q == <<Say(verb, "Rejected", w.status, "other")>>
<1>1. o = W!Out(w, q, None) /\ o.worker = w
  BY SameWords DEF W!Answered, W!Out
<1>2. "Rejected" \in Answers /\ "Rejected" # "Completed" /\ w.status \in Statuses
  BY DEF Answers, WorkerOK, Workers
<1>3. PICK R : Tells(q, {w.status}, R, {}, {}) /\ (~w.lost => R = {})
  BY <1>2, SayAnswer
<1> HIDE DEF q
<1> QED BY <1>1, <1>3, GoesOn DEF AnswerStands

\* The first stop changes the status, the second none; both let a held process go.
LEMMA StopFits ==
  ASSUME NEW w, WorkerOK(w), ~w.over, NEW reg, NEW o \in W!StopAnswer(w), w.status # "Exited"
  PROVE  FitAnswer(w, o, reg) /\ AnswerStands(w, o.worker, "Stop")
<1> DEFINE free == [w EXCEPT !.held = FALSE, !.pending = {}, !.stopping = TRUE]
           v == [free EXCEPT !.status = "Stopping"]
           heard == Say("Stop", "Accepted", w.status, "other")
           done == Say("Stop", "Completed", "Stopping", "other")
<1>1. \/ w.stopping /\ o = W!Out(free, <<heard>>, None)
      \/ o = W!Out(v, <<heard, done>>, None)
  BY SameWords DEF W!StopAnswer
<1>2. /\ WorkerOK(free) /\ free.lost = w.lost /\ free.held = FALSE /\ free.status = w.status
      /\ WorkerOK(v) /\ v.lost = w.lost /\ v.held = FALSE /\ v.status = "Stopping"
  BY DEF WorkerOK, Workers, Statuses
<1>3. "Accepted" \in Answers /\ "Completed" \in Answers /\ w.status \in Statuses /\ "Stopping" \in Statuses
      /\ "Stop" \in Verbs
  BY DEF Answers, WorkerOK, Workers, Statuses, Verbs, Controls
<1>4. \E R : Tells(<<heard>>, {w.status}, R, {}, {}) /\ (~w.lost => R = {})
  BY <1>3, SayAnswer
<1>5. \E R : Tells(<<heard, done>>, {"Stopping"}, R, {}, {}) /\ (~w.lost => R = {})
  BY <1>3, TwoAnswers
<1> HIDE DEF free, v, heard, done
<1>6. CASE w.stopping /\ o = W!Out(free, <<heard>>, None)
  <2>1. FitAnswer(w, o, reg)
    BY <1>2, <1>4, <1>6, GoesOn
  <2> QED BY <1>6, <2>1 DEF AnswerStands
<1>7. CASE o = W!Out(v, <<heard, done>>, None)
  <2>1. FitAnswer(w, o, reg)
    BY <1>2, <1>5, <1>7, GoesOn
  <2>2. o.worker = v
    BY <1>7 DEF W!Out
  <2> QED BY <1>2, <2>1, <2>2 DEF AnswerStands, Held
<1> QED BY <1>1, <1>6, <1>7

\* A pause is noted, and told later.
LEMMA PauseAnswerFits ==
  ASSUME NEW w, WorkerOK(w), ~w.over, NEW reg, NEW o \in W!PauseAnswer(w)
  PROVE  FitAnswer(w, o, reg) /\ AnswerStands(w, o.worker, "Pause")
<1> DEFINE v == [w EXCEPT !.pending = @ \cup {"Pause"}]
           q == <<Say("Pause", "Accepted", v.status, "other")>>
<1>1. o = W!Out(v, q, None) /\ o.worker = v
  BY SameWords DEF W!PauseAnswer, W!Answered, W!Out
<1>2. /\ WorkerOK(v) /\ v.lost = w.lost /\ v.held = w.held /\ v.status = w.status
      /\ v.stopping = w.stopping
  <2>1. w.pending \cup {"Pause"} \in SUBSET Pendings
    BY DEF WorkerOK, Workers, Pendings
  <2> QED BY <2>1 DEF WorkerOK, Workers
<1>3. "Accepted" \in Answers /\ "Pause" \in Verbs /\ "Accepted" # "Completed" /\ w.status \in Statuses
  BY DEF Answers, Verbs, Controls, WorkerOK, Workers
<1> HIDE DEF v
<1>4. PICK R : Tells(q, {w.status}, R, {}, {}) /\ (~w.lost => R = {})
  BY <1>2, <1>3, SayAnswer
<1> HIDE DEF q
<1>5. FitAnswer(w, W!Out(v, q, None), reg)
  BY <1>2, <1>4, GoesOn
<1> QED BY <1>1, <1>2, <1>5 DEF AnswerStands, Held

\* A process that is let go, unless it is gone.
LEMMA LetGoFits ==
  ASSUME NEW w, WorkerOK(w), ~w.over, w.held, NEW verb \in Verbs, verb \notin {"Stop", "Pause"},
         NEW reg, NEW o \in W!LetGo(w, verb)
  PROVE  FitAnswer(w, o, reg) /\ Stands(w, o.worker)
<1> DEFINE p == [w EXCEPT !.status = "Paused"]
           r == W!Going(w, "Running")
           heard == Say(verb, "Accepted", w.status, "other")
           fail == Say(verb, "Failed", "Paused", "other")
           done == Say(verb, "Completed", "Running", "other")
<1>1. \/ w.lost /\ o = W!Out(p, <<heard, fail>>, None)
      \/ o = W!Out(r, <<heard, done>>, None)
  BY SameWords DEF W!LetGo, W!GoneFails
<1>2. /\ w.lost => WorkerOK(p) /\ p.lost = w.lost /\ p.held = TRUE /\ p.status = "Paused" /\ Stands(w, p)
      /\ WorkerOK(r) /\ r.lost = w.lost /\ r.held = FALSE /\ r.status = "Running" /\ Stands(w, r)
  BY DEF WorkerOK, Workers, Statuses, W!Going, Stands, Held
<1>3. "Accepted" \in Answers /\ "Completed" \in Answers /\ "Failed" \in Answers
      /\ w.status \in Statuses /\ "Paused" \in Statuses /\ "Running" \in Statuses
  BY DEF Answers, WorkerOK, Workers, Statuses
<1>4. \E R : Tells(<<heard, fail>>, {"Paused"}, R, {}, {}) /\ (~w.lost => R = {})
  BY <1>3, TwoAnswers
<1>5. \E R : Tells(<<heard, done>>, {"Running"}, R, {}, {}) /\ (~w.lost => R = {})
  BY <1>3, TwoAnswers
<1> HIDE DEF p, r, heard, fail, done
<1>6. CASE w.lost /\ o = W!Out(p, <<heard, fail>>, None)
  <2>1. FitAnswer(w, o, reg)
    BY <1>2, <1>4, <1>6, GoesOn
  <2>2. o.worker = p
    BY <1>6 DEF W!Out
  <2> QED BY <1>2, <1>6, <2>1, <2>2
<1>7. CASE o = W!Out(r, <<heard, done>>, None)
  <2>1. FitAnswer(w, o, reg)
    BY <1>2, <1>5, <1>7, GoesOn
  <2>2. o.worker = r
    BY <1>7 DEF W!Out
  <2> QED BY <1>2, <2>1, <2>2
<1> QED BY <1>1, <1>6, <1>7

\* A process that is held is resumed.
LEMMA ResumeFits ==
  ASSUME NEW w, WorkerOK(w), ~w.over, w.status = "Paused", NEW reg, NEW o \in W!ResumeAnswer(w)
  PROVE  FitAnswer(w, o, reg) /\ AnswerStands(w, o.worker, "Resume")
<1>1. "Resume" \in Verbs \ {"Stop", "Pause"}
  BY DEF Verbs, Controls
<1>2. CASE w.held
  <2>1. o \in W!LetGo(w, "Resume")
    BY <1>2 DEF W!ResumeAnswer
  <2> QED BY <1>1, <1>2, <2>1, LetGoFits DEF AnswerStands, Stands
<1>3. CASE ~w.held
  <2>1. o = W!Out(w, <<>>, None) /\ o.worker = w
    BY <1>3 DEF W!ResumeAnswer, W!Out
  <2>2. Fits(w, w, {}, {}, {}, {}, None, reg)
    BY DEF Fits, Now
  <2>3. ~Held(w)
    BY <1>3 DEF Held
  <2>4. FitAnswer(w, W!Out(w, <<>>, None), reg)
    BY <2>2, <2>3, TellsNone, AnswerFits
  <2> QED BY <2>1, <2>4 DEF AnswerStands
<1> QED BY <1>2, <1>3

\* A process that is held is let go, one that runs on is no longer stepping.
LEMMA ContinueFits ==
  ASSUME NEW w, WorkerOK(w), ~w.over, NEW reg, NEW o \in W!ContinueAnswer(w)
  PROVE  FitAnswer(w, o, reg) /\ AnswerStands(w, o.worker, "Continue")
<1> DEFINE calm == [w EXCEPT !.pending = @ \ {"StepInstructionOver"}]
           v == [calm EXCEPT !.status = "Running"]
           q == <<Say("Continue", "Accepted", w.status, "other"), Say("Continue", "Completed", "Running", "other")>>
<1>1. /\ w.held => o \in W!LetGo(calm, "Continue")
      /\ ~w.held => o = W!Out(v, q, None)
  BY SameWords DEF W!ContinueAnswer
<1>2. w.pending \ {"StepInstructionOver"} \in SUBSET Pendings
  BY DEF WorkerOK, Workers
<1>3. /\ WorkerOK(calm) /\ calm.lost = w.lost /\ calm.held = w.held /\ calm.status = w.status
      /\ calm.stopping = w.stopping /\ calm.over = w.over
      /\ WorkerOK(v) /\ v.lost = w.lost /\ v.held = w.held /\ v.status = "Running"
      /\ v.stopping = w.stopping
  BY <1>2 DEF WorkerOK, Workers, Statuses
<1>4. "Continue" \in Verbs \ {"Stop", "Pause"} /\ w.status \in Statuses /\ "Running" \in Statuses
      /\ "Completed" \in Answers
  BY DEF Verbs, Controls, WorkerOK, Workers, Statuses, Answers
<1>5. \E R : Tells(q, {"Running"}, R, {}, {}) /\ (~w.lost => R = {})
  BY <1>4, TwoAnswers
<1> HIDE DEF calm, v, q
<1>6. CASE w.held
  <2>1. FitAnswer(calm, o, reg) /\ Stands(calm, o.worker)
    BY <1>1, <1>3, <1>4, <1>6, LetGoFits
  <2>2. FitAnswer(w, o, reg)
    BY <1>3, <2>1 DEF FitAnswer, Fits, Held
  <2> QED BY <1>3, <2>1, <2>2 DEF AnswerStands, Stands, Held
<1>7. CASE ~w.held
  <2>1. FitAnswer(w, W!Out(v, q, None), reg)
    BY <1>3, <1>5, GoesOn
  <2>2. o.worker = v
    BY <1>1, <1>7 DEF W!Out
  <2> QED BY <1>1, <1>3, <1>7, <2>1, <2>2 DEF AnswerStands, Held
<1> QED BY <1>6, <1>7

\* A step that takes its time: the status says which.
LEMMA StartedFits ==
  ASSUME NEW w, WorkerOK(w), ~w.over, NEW verb \in {"StepAllocatorEvent", "StepInstructionOver"},
         NEW reg, NEW o, o = W!Started(w, verb)
  PROVE  FitAnswer(w, o, reg) /\ AnswerStands(w, o.worker, verb)
<1> DEFINE v == [W!Going(w, StatusOf(verb)) EXCEPT !.pending = @ \cup {verb}]
           q == <<Say(verb, "Accepted", v.status, "other")>>
<1>1. o = W!Out(v, q, None) /\ o.worker = v
  BY SameWords DEF W!Started, W!Answered, W!Out
<1>2. verb \in Verbs /\ verb # "Stop" /\ verb \in Pendings
  BY DEF Verbs, Controls, Pendings, StepVerbs
<1>3. StatusOf(verb) \in Statuses \ {"Paused", "Exited"}
  BY DEF StatusOf, Statuses, Underway, StepVerbs
<1>4. /\ WorkerOK(v) /\ v.lost = w.lost /\ v.held = FALSE /\ v.status = StatusOf(verb)
      /\ v.stopping = w.stopping
  <2>1. w.pending \cup {verb} \in SUBSET Pendings
    BY <1>2 DEF WorkerOK, Workers
  <2> DEFINE st == StatusOf(verb)
  <2> HIDE DEF st
  <2>2. st \in Statuses \ {"Paused", "Exited"}
    BY <1>3 DEF st
  <2>3. v = [[w EXCEPT !.status = st, !.held = FALSE] EXCEPT !.pending = @ \cup {verb}]
    BY DEF W!Going, st
  <2> HIDE DEF v
  <2>4. /\ v \in Workers /\ v.lost = w.lost /\ v.held = FALSE /\ v.status = st /\ v.stopping = w.stopping
        /\ v.stepping = w.stepping /\ v.over = w.over
    BY <2>1, <2>2, <2>3 DEF WorkerOK, Workers
  <2> QED BY <2>2, <2>4 DEF WorkerOK, st
<1>5. "Accepted" \in Answers
  BY DEF Answers
<1> HIDE DEF v
<1>6. PICK R : Tells(q, {v.status}, R, {}, {}) /\ (~w.lost => R = {})
  BY <1>2, <1>3, <1>4, <1>5, SayAnswer
<1> HIDE DEF q
<1>7. FitAnswer(w, W!Out(v, q, None), reg)
  BY <1>4, <1>6, GoesOn
<1> QED BY <1>1, <1>2, <1>3, <1>4, <1>7 DEF AnswerStands, Held

\* A process that is gone cannot step, and is told to stand still.
LEMMA GoneFits ==
  ASSUME NEW w, WorkerOK(w), ~w.over, w.lost, NEW verb \in Verbs \ {"Stop", "Pause"}, NEW first \in Statuses,
         first # "Exited",
         NEW reg, NEW o,
         o = W!Out(w, <<W!GoneFails(w, verb)>>, None)
           \/ o = W!Out(w, <<Say(verb, "Accepted", first, "other"), W!GoneFails(w, verb)>>, None)
  PROVE  FitAnswer(w, o, reg) /\ AnswerStands(w, o.worker, verb)
<1> DEFINE f == Say(verb, "Failed", "Paused", "other")
           a == Say(verb, "Accepted", first, "other")
<1>1. W!GoneFails(w, verb) = f
  BY SameWords DEF W!GoneFails
<1>2. "Failed" \in Answers /\ "Paused" \in Statuses
  BY DEF Answers, Statuses
<1>3. \E R : Tells(<<f>>, {"Paused"}, R, {}, {}) /\ (~w.lost => R = {})
  BY <1>2, SayAnswer
<1>4. \E R : Tells(<<a, f>>, {"Paused"}, R, {}, {}) /\ (~w.lost => R = {})
  BY <1>2, TwoAnswers
<1>5. o.worker = w
  BY DEF W!Out
<1> HIDE DEF f, a
<1>6. FitAnswer(w, W!Out(w, <<f>>, None), reg)
  BY <1>3, GoesOn
<1>7. FitAnswer(w, W!Out(w, <<a, f>>, None), reg)
  BY <1>4, GoesOn
<1>8. FitAnswer(w, o, reg)
  BY <1>1, <1>6, <1>7 DEF a
<1> QED BY <1>5, <1>8 DEF AnswerStands

\* One instruction: the process stands still again, or is gone.
LEMMA OneStepFits ==
  ASSUME NEW w, WorkerOK(w), ~w.over, w.status = "Paused", w.held,
         NEW verb \in StepVerbs \ SourceSteps, NEW reg, NEW o \in W!OneStep(w, verb)
  PROVE  FitAnswer(w, o, reg) /\ AnswerStands(w, o.worker, verb)
<1> DEFINE a == Say(verb, "Accepted", StatusOf(verb), "other")
           m == Say(verb, "Completed", "Paused", "moved")
           s == Say(verb, "Failed", "Paused", "signal")
           e == Say(verb, "Completed", "Exited", "other")
           v == W!Ended(w)
<1>1. \/ w.lost /\ o = W!Out(w, <<a, W!GoneFails(w, verb)>>, None)
      \/ ~w.lost /\ o = W!Out(w, <<a, m>>, verb)
      \/ ~w.lost /\ o = W!Out(w, <<a, s>>, "signal")
      \/ ~w.lost /\ o = W!Out(v, <<a, e, End>>, None)
  BY SameWords DEF W!OneStep
<1>2. /\ verb \in Verbs \ {"Stop", "Pause"} /\ verb \in Verbs \cup {None}
      /\ verb \in StepVerbs \cup {"Pause", "StepAllocatorEvent"}
  BY DEF Verbs, Controls, StepVerbs, SourceSteps
<1>3. StatusOf(verb) \in Statuses \ {"Paused", "Exited"}
  BY DEF StatusOf, Statuses, Underway, StepVerbs, SourceSteps
<1>4. "Accepted" \in Answers /\ "Completed" \in Answers /\ "Exited" \in Statuses /\ "other" \in Messages
  BY DEF Answers, Statuses, Messages
<1>5. verb # None /\ "signal" # None
  BY NoneIsNothing DEF Causes, StepVerbs
<1>6. Tells(<<a>>, {StatusOf(verb)}, {}, {}, {})
  BY <1>2, <1>3, <1>4, SayQuiet
<1>7. Tells(<<m>>, {"Paused"}, {verb}, {}, {}) /\ Tells(<<s>>, {"Paused"}, {"signal"}, {}, {})
  BY <1>2, SaysWhy
<1>8. Tells(<<a, m>>, {"Paused"}, {verb}, {}, {}) /\ Tells(<<a, s>>, {"Paused"}, {"signal"}, {}, {})
  <2> HIDE DEF a, m, s
  <2>1. Tells(<<a, m>>, Over({StatusOf(verb)}, {"Paused"}), Over({}, {verb}), Over({}, {}), Over({}, {}))
    BY <1>6, <1>7, TellsTwo
  <2>2. Tells(<<a, s>>, Over({StatusOf(verb)}, {"Paused"}), Over({}, {"signal"}), Over({}, {}), Over({}, {}))
    BY <1>6, <1>7, TellsTwo
  <2> QED BY <2>1, <2>2 DEF Over
<1>9. Tells(<<a, e, End>>, {"Exited"}, {"exit"}, {}, {"end"})
  <2>1. PICK R : Tells(<<e>>, {"Exited"}, R, {}, {})
    BY <1>2, <1>4, SayTells
  <2> DEFINE en == End
  <2>2. Tells(<<en>>, {"Exited"}, {"exit"}, {}, {"end"})
    BY OthersTell
  <2> HIDE DEF a, e, en
  <2>3. Tells(<<a, e>>, Over({StatusOf(verb)}, {"Exited"}), Over({}, R), Over({}, {}), Over({}, {}))
    BY <1>6, <2>1, TellsTwo
  <2>4. Tells(<<a, e>>, {"Exited"}, R, {}, {})
    BY <2>3 DEF Over
  <2>5. Tells(<<a, e>> \o <<en>>, Over({"Exited"}, {"Exited"}), Over(R, {"exit"}), Over({}, {}), Over({}, {"end"}))
    BY <2>2, <2>4, TellsJoin
  <2>6. <<a, e, en>> = <<a, e>> \o <<en>>
    <3>1. <<a, e>> \in Seq(News) /\ <<en>> \in Seq(News)
      BY <2>2, <2>4 DEF Tells
    <3> DEFINE p == <<a, e, en>>
               q == <<a, e>> \o <<en>>
    <3>2. a \in News /\ e \in News /\ en \in News
      BY <1>6, <2>1, <2>2 DEF Tells
    <3>3. p \in Seq(News) /\ Len(p) = 3 /\ p[1] = a /\ p[2] = e /\ p[3] = en
      BY <3>2
    <3>4. q \in Seq(News) /\ Len(q) = 3 /\ q[1] = a /\ q[2] = e /\ q[3] = en
      BY <3>1
    <3> HIDE DEF p, q
    <3>5. \A i \in 1 .. 3 : p[i] = q[i]
      BY <3>3, <3>4
    <3>6. p = q
      BY <3>3, <3>4, <3>5
    <3> QED BY <3>6 DEF p, q
  <2> QED BY <2>5, <2>6 DEF Over, en
<1>10. CASE w.lost /\ o = W!Out(w, <<a, W!GoneFails(w, verb)>>, None)
  BY <1>2, <1>3, <1>10, GoneFits
<1>11. CASE ~w.lost /\ o = W!Out(v, <<a, e, End>>, None)
  <2>1. WorkerOK(v) /\ v.over = TRUE /\ v.lost = FALSE /\ v.held = FALSE /\ v.stopping = w.stopping /\ v.status = "Exited"
    BY DEF W!Ended, WorkerOK, Workers, Statuses
  <2>2. o.worker = v
    BY <1>11 DEF W!Out
  <2> HIDE DEF v, a, e
  <2>3. Fits(w, v, {"Exited"}, {"exit"}, {}, {"end"}, None, reg)
    BY <2>1, <1>11 DEF Fits
  <2>4. FitAnswer(w, o, reg)
    BY <1>9, <1>11, <2>1, <2>3, AnswerFits
  <2> QED BY <1>2, <2>1, <2>2, <2>4 DEF AnswerStands, Held
<1>12. ASSUME ~w.lost, NEW c, NEW q, c # None, Tells(q, {"Paused"}, {c}, {}, {}), o = W!Out(w, q, c)
       PROVE  FitAnswer(w, o, reg) /\ AnswerStands(w, o.worker, verb)
  <2>1. o.worker = w
    BY <1>12 DEF W!Out
  <2>2. Fits(w, w, {"Paused"}, {c}, {}, {}, c, reg)
    BY <1>12 DEF Fits, Now
  <2>3. FitAnswer(w, o, reg)
    BY <1>12, <2>2, AnswerFits
  <2> QED BY <2>1, <2>3 DEF AnswerStands
<1> HIDE DEF a, m, s, e, v
<1>13. PICK sig : sig = "signal"
  OBVIOUS
<1> QED BY <1>1, <1>5, <1>8, <1>10, <1>11, <1>12, <1>13

\* A step is refused, fails, starts, or is one instruction.
LEMMA StepAnswerFits ==
  ASSUME NEW w, WorkerOK(w), ~w.over, w.status = "Paused", NEW verb \in StepVerbs, NEW reg,
         NEW o \in W!StepAnswer(w, verb)
  PROVE  FitAnswer(w, o, reg) /\ AnswerStands(w, o.worker, verb)
<1>1. verb \in Verbs \ {"Stop", "Pause"}
  BY DEF Verbs, Controls, StepVerbs, SourceSteps
<1>2. w.held \in BOOLEAN /\ w.lost \in BOOLEAN
  BY DEF WorkerOK, Workers
<1>3. \/ o = W!Answered(w, verb, "Rejected")
      \/ w.held /\ verb \in SourceSteps /\ w.lost /\ o = W!Out(w, <<W!GoneFails(w, verb)>>, None)
      \/ w.held /\ verb \in SourceSteps /\ ~w.lost
         /\ o = W!Answered([w EXCEPT !.status = StatusOf(verb), !.stepping = verb], verb, "Accepted")
      \/ w.held /\ verb \notin SourceSteps /\ o \in W!OneStep(w, verb)
      \/ w.held /\ verb = "StepInstructionOver" /\ ~w.lost /\ o = W!Started(w, verb)
  <2>1. W!SourceSteps = SourceSteps /\ W!StatusOf(verb) = StatusOf(verb)
    BY SameWords
  <2>2. "StepInstructionOver" \notin SourceSteps
    BY DEF SourceSteps
  <2>3. CASE ~w.held
    BY <2>3, <1>2 DEF W!StepAnswer, W!Rejected
  <2>4. CASE w.held /\ verb \in SourceSteps /\ w.lost
    BY <2>1, <2>4 DEF W!StepAnswer, W!Rejected
  <2>5. CASE w.held /\ verb \in SourceSteps /\ ~w.lost
    BY <2>1, <2>5 DEF W!StepAnswer, W!Rejected
  <2>6. CASE w.held /\ verb \notin SourceSteps
    BY <2>1, <2>2, <2>6 DEF W!StepAnswer, W!Rejected
  <2> QED BY <1>2, <2>3, <2>4, <2>5, <2>6
<1>4. CASE o = W!Answered(w, verb, "Rejected")
  BY <1>1, <1>4, RejectedFits
<1>5. CASE w.held /\ verb \in SourceSteps /\ w.lost /\ o = W!Out(w, <<W!GoneFails(w, verb)>>, None)
  <2>1. w.status \in Statuses /\ w.status # "Exited"
    BY DEF WorkerOK, Workers
  <2> QED BY <1>1, <1>5, <2>1, GoneFits
<1>6. CASE w.held /\ verb \in SourceSteps /\ ~w.lost
           /\ o = W!Answered([w EXCEPT !.status = StatusOf(verb), !.stepping = verb], verb, "Accepted")
  <2> DEFINE v == [w EXCEPT !.status = StatusOf(verb), !.stepping = verb]
             q == <<Say(verb, "Accepted", v.status, "other")>>
  <2>1. o = W!Out(v, q, None) /\ o.worker = v
    BY <1>6, SameWords DEF W!Answered, W!Out
  <2>2. StatusOf(verb) \in Statuses \ {"Paused", "Exited"}
    BY DEF StatusOf, Statuses, Underway, StepVerbs, SourceSteps
  <2>3. /\ WorkerOK(v) /\ v.lost = w.lost /\ v.held = w.held /\ v.status = StatusOf(verb)
        /\ v.stopping = w.stopping
    <3> DEFINE st == StatusOf(verb)
    <3> HIDE DEF st
    <3> QED BY <2>2, <1>6 DEF WorkerOK, Workers
  <2> HIDE DEF v
  <2>4. Tells(q, {v.status}, {}, {}, {})
    <3>1. "Accepted" \in Answers /\ "Accepted" # "Completed"
      BY DEF Answers
    <3> QED BY <1>1, <2>2, <2>3, <3>1, SayQuiet
  <2> HIDE DEF q
  <2>5. FitAnswer(w, W!Out(v, q, None), reg)
    BY <2>3, <2>4, GoesOn
  <2> QED BY <1>1, <2>1, <2>2, <2>3, <2>5 DEF AnswerStands, Held
<1>7. CASE w.held /\ verb \notin SourceSteps /\ o \in W!OneStep(w, verb)
  BY <1>7, OneStepFits
<1>8. CASE w.held /\ verb = "StepInstructionOver" /\ ~w.lost /\ o = W!Started(w, verb)
  BY <1>8, StartedFits
<1> QED BY <1>3, <1>4, <1>5, <1>6, <1>7, <1>8

\* A step to the next event is started, or fails, or nobody is told.
LEMMA StepEventFits ==
  ASSUME NEW w, WorkerOK(w), ~w.over, w.status = "Paused", NEW reg, NEW o \in W!StepEventAnswer(w)
  PROVE  FitAnswer(w, o, reg) /\ AnswerStands(w, o.worker, "StepAllocatorEvent")
<1> DEFINE verb == "StepAllocatorEvent"
<1>1. verb \in Verbs \ {"Stop", "Pause"}
  BY DEF Verbs, Controls
<1>2. \/ ~w.held /\ o = W!Out(w, <<>>, None)
      \/ w.lost /\ o = W!Out(w, <<W!GoneFails(w, verb)>>, None)
      \/ o = W!Started(w, verb)
  BY DEF W!StepEventAnswer
<1>3. CASE ~w.held /\ o = W!Out(w, <<>>, None)
  <2>1. o.worker = w
    BY <1>3 DEF W!Out
  <2>2. Fits(w, w, {}, {}, {}, {}, None, reg)
    BY DEF Fits, Now
  <2>3. ~Held(w)
    BY <1>3 DEF Held
  <2>4. FitAnswer(w, W!Out(w, <<>>, None), reg)
    BY <2>2, <2>3, TellsNone, AnswerFits
  <2> QED BY <1>3, <2>1, <2>4 DEF AnswerStands
<1>4. CASE w.lost /\ o = W!Out(w, <<W!GoneFails(w, verb)>>, None)
  <2>1. w.status \in Statuses /\ w.status # "Exited"
    BY DEF WorkerOK, Workers
  <2> HIDE DEF verb
  <2>2. FitAnswer(w, o, reg) /\ AnswerStands(w, o.worker, verb)
    BY <1>1, <1>4, <2>1, GoneFits
  <2> QED BY <2>2 DEF verb
<1>5. CASE o = W!Started(w, verb)
  <2>1. verb \in {"StepAllocatorEvent", "StepInstructionOver"}
    OBVIOUS
  <2> HIDE DEF verb
  <2>2. FitAnswer(w, o, reg) /\ AnswerStands(w, o.worker, verb)
    BY <1>5, <2>1, StartedFits
  <2> QED BY <2>2 DEF verb
<1> QED BY <1>2, <1>3, <1>4, <1>5

\* Whatever a control command is answered with.
LEMMA ControlFits ==
  ASSUME NEW w, WorkerOK(w), ~w.over, NEW verb \in Controls, NEW reg, NEW o \in W!Answer(w, verb)
  PROVE  FitAnswer(w, o, reg) /\ AnswerStands(w, o.worker, verb)
<1>1. verb \in Verbs
  BY DEF Verbs
<1>2. W!Valid(w.status, verb) = Valid(w.status, verb)
  BY SameWords
<1>3. CASE ~Valid(w.status, verb)
  <2>1. o = W!Answered(w, verb, "Rejected")
    BY <1>2, <1>3 DEF W!Answer, W!Rejected
  <2> QED BY <1>1, <2>1, RejectedFits
<1>4. CASE Valid(w.status, verb)
  <2>1. CASE verb = "Stop"
    <3>1. o \in W!StopAnswer(w) /\ w.status # "Exited"
      BY <1>2, <1>4, <2>1 DEF W!Answer, Valid
    <3> QED BY <2>1, <3>1, StopFits
  <2>2. CASE verb = "Pause"
    <3>1. o \in W!PauseAnswer(w)
      BY <1>2, <1>4, <2>2 DEF W!Answer
    <3> QED BY <2>2, <3>1, PauseAnswerFits
  <2>3. CASE verb = "Resume"
    <3>1. o \in W!ResumeAnswer(w) /\ w.status = "Paused"
      BY <1>2, <1>4, <2>3 DEF W!Answer, Valid
    <3> QED BY <2>3, <3>1, ResumeFits
  <2>4. CASE verb = "Continue"
    <3>1. o \in W!ContinueAnswer(w)
      BY <1>2, <1>4, <2>4 DEF W!Answer
    <3> QED BY <2>4, <3>1, ContinueFits
  <2>5. CASE verb = "StepAllocatorEvent"
    <3>1. o \in W!StepEventAnswer(w) /\ w.status = "Paused"
      BY <1>2, <1>4, <2>5 DEF W!Answer, Valid
    <3> QED BY <2>5, <3>1, StepEventFits
  <2>6. CASE verb \in StepVerbs
    <3>1. o \in W!StepAnswer(w, verb) /\ w.status = "Paused"
      BY <1>2, <1>4, <2>6 DEF W!Answer, Valid, StepVerbs, SourceSteps
    <3> QED BY <2>6, <3>1, StepAnswerFits
  <2> QED BY <2>1, <2>2, <2>3, <2>4, <2>5, <2>6 DEF Controls
<1> QED BY <1>3, <1>4

-----------------------------------------------------------------------------
(* Following the newest event: the order of what is told                   *)

\* The statuses in which a new event is selected, and those in which one comes.
Tailing   == {"Running", "SteppingToNextAllocatorEvent"}
Reporting == Tailing \cup {"SteppingInstructionOver", "SourceStepping", "SourceSteppingOver"}

\* An event comes of a process that runs, and none runs on but one that ran or paused.
Ready(v, u) ==
  /\ u.kind = "Event" => v \in Reporting
  /\ \A s \in StatusTold(u) : s \in Tailing => v \in Tailing \cup {"Paused"}

\* Nothing is told of the status between the j-th and the i-th update.
Quiet(q, j, i) == \A k \in DOMAIN q : j < k /\ k < i => StatusTold(q[k]) = {}

\* The updates q come in order after the status t.
Flow(t, q) ==
  \A i \in DOMAIN q :
    /\ Quiet(q, 0, i) => Ready(t, q[i])
    /\ \A j \in DOMAIN q, v \in Statuses :
         j < i /\ StatusTold(q[j]) = {v} /\ Quiet(q, j, i) => Ready(v, q[i])

\* Updates that come in order after any status.
Calm(q) == q \in Seq(News) /\ \A i \in DOMAIN q : \A t \in Statuses : Ready(t, q[i])

\* Calm updates come in order.
LEMMA CalmFlows ==
  ASSUME NEW q, Calm(q), NEW t \in Statuses
  PROVE  Flow(t, q)
BY DEF Calm, Flow

\* Calm updates behind calm ones are calm.
LEMMA CalmJoin ==
  ASSUME NEW p, NEW q, Calm(p), Calm(q)
  PROVE  Calm(p \o q)
<1> p \in Seq(News) /\ q \in Seq(News) /\ p \o q \in Seq(News)
  <2>1. p \in Seq(News) /\ q \in Seq(News)
    BY DEF Calm
  <2> QED BY <2>1
<1>1. /\ Len(p) \in Nat /\ Len(q) \in Nat
      /\ DOMAIN p = 1 .. Len(p) /\ DOMAIN q = 1 .. Len(q) /\ DOMAIN (p \o q) = 1 .. Len(p) + Len(q)
      /\ \A i \in 1 .. Len(p) : (p \o q)[i] = p[i]
      /\ \A i \in 1 .. Len(p) + Len(q) : i > Len(p) => (p \o q)[i] = q[i - Len(p)]
  OBVIOUS
<1>2. \A i \in 1 .. Len(p) + Len(q) : i > Len(p) => i - Len(p) \in 1 .. Len(q)
  BY <1>1
<1>3. \A i \in 1 .. Len(p) + Len(q) : i > Len(p) \/ i \in 1 .. Len(p)
  BY <1>1
<1> QED BY <1>1, <1>2, <1>3 DEF Calm

\* Updates that come in order after the last status that others told.
LEMMA FlowJoin ==
  ASSUME NEW p \in Seq(News), NEW q \in Seq(News), NEW t \in Statuses, NEW y \in Statuses, NEW S,
         Sums(p, OnStatus, S), Now(S, t, y), Flow(t, p), Flow(y, q)
  PROVE  Flow(t, p \o q)
<1>1. /\ Len(p) \in Nat /\ Len(q) \in Nat
      /\ DOMAIN p = 1 .. Len(p) /\ DOMAIN q = 1 .. Len(q) /\ DOMAIN (p \o q) = 1 .. Len(p) + Len(q)
      /\ \A i \in 1 .. Len(p) : (p \o q)[i] = p[i]
      /\ \A i \in 1 .. Len(p) + Len(q) : i > Len(p) => (p \o q)[i] = q[i - Len(p)]
      /\ \A i \in 1 .. Len(q) : (p \o q)[Len(p) + i] = q[i]
  OBVIOUS
<1> DEFINE r == p \o q
           n == Len(p)
<1>2. /\ n \in Nat
      /\ \A i \in DOMAIN r : i \in Nat /\ i > 0
      /\ \A i \in DOMAIN r : i > n => i - n \in DOMAIN q /\ r[i] = q[i - n]
      /\ \A i \in DOMAIN r : i > n \/ (i \in DOMAIN p /\ r[i] = p[i])
      /\ \A i \in DOMAIN p : i \in DOMAIN r /\ r[i] = p[i] /\ i <= n /\ i \in Nat /\ i > 0
      /\ \A i \in DOMAIN q : i + n \in DOMAIN r /\ r[i + n] = q[i] /\ i \in Nat /\ i > 0
  BY <1>1
<1>3. \A i \in DOMAIN p : OnStatus[p[i]] = StatusTold(p[i])
  BY DEF OnStatus
<1> HIDE DEF r, n
<1>4. ASSUME NEW j \in DOMAIN p, NEW v, StatusTold(p[j]) = {v},
             \A k \in DOMAIN p : j < k => StatusTold(p[k]) = {}
      PROVE  v = y
  <2>1. ~Silent(p, OnStatus)
    BY <1>3, <1>4 DEF Silent
  <2>2. PICK w \in S : S = {w} /\ LastTold(p, OnStatus, w)
    <3>1. Sums(p, OnStatus, S)
      OBVIOUS
    <3> QED BY ONLY <2>1, <3>1 DEF Sums
  <2>3. PICK i \in DOMAIN p : OnStatus[p[i]] = {w} /\ \A k \in DOMAIN p : k > i => OnStatus[p[k]] = {}
    BY <2>2 DEF LastTold
  <2>4. i = j
    <3>1. ASSUME j < i PROVE FALSE
      <4>1. StatusTold(p[i]) = {}
        BY <1>4, <3>1
      <4>2. OnStatus[p[i]] = {}
        BY <1>3, <4>1
      <4> QED BY <2>3, <4>2
    <3>2. ASSUME i < j PROVE FALSE
      <4>1. j > i
        BY <1>2, <3>2
      <4>2. StatusTold(p[j]) = {}
        BY <1>3, <2>3, <4>1
      <4> QED BY <1>4, <4>2
    <3> QED BY <1>2, <3>1, <3>2
  <2>5. v = w
    BY <1>3, <1>4, <2>3, <2>4
  <2> QED BY <2>2, <2>5 DEF Now
<1>5. ASSUME \A k \in DOMAIN p : StatusTold(p[k]) = {} PROVE t = y
  <2>1. Silent(p, OnStatus)
    BY <1>3, <1>5 DEF Silent
  <2>2. S = {}
    BY <2>1 DEF Sums, LastTold, Silent
  <2> QED BY <2>2 DEF Now
<1>6. ASSUME NEW i \in DOMAIN r, Quiet(r, 0, i) PROVE Ready(t, r[i])
  <2>1. CASE i > n
    <3>1. \A k \in DOMAIN p : StatusTold(p[k]) = {}
      <4> SUFFICES ASSUME NEW k \in DOMAIN p PROVE StatusTold(p[k]) = {}
        OBVIOUS
      <4>1. k \in DOMAIN r /\ r[k] = p[k] /\ 0 < k /\ k < i
        BY <1>2, <2>1
      <4> QED BY <1>6, <4>1 DEF Quiet
    <3>2. Quiet(q, 0, i - n)
      <4> SUFFICES ASSUME NEW k \in DOMAIN q, 0 < k, k < i - n PROVE StatusTold(q[k]) = {}
        BY DEF Quiet
      <4>1. k + n \in DOMAIN r /\ r[k + n] = q[k] /\ 0 < k + n /\ k + n < i
        BY <1>2
      <4> QED BY <1>6, <4>1 DEF Quiet
    <3>3. i - n \in DOMAIN q /\ r[i] = q[i - n]
      BY <1>2, <2>1
    <3>4. Ready(y, q[i - n])
      BY <3>2, <3>3 DEF Flow
    <3> QED BY <1>5, <3>1, <3>3, <3>4
  <2>2. CASE ~(i > n)
    <3>1. i \in DOMAIN p /\ r[i] = p[i]
      BY <1>2, <2>2
    <3>2. Quiet(p, 0, i)
      BY <1>2, <1>6 DEF Quiet
    <3> QED BY <3>1, <3>2 DEF Flow
  <2> QED BY <2>1, <2>2
<1>7. ASSUME NEW i \in DOMAIN r, NEW j \in DOMAIN r, NEW v \in Statuses, j < i, StatusTold(r[j]) = {v},
             Quiet(r, j, i)
      PROVE  Ready(v, r[i])
  <2>1. CASE j > n
    <3>1. i - n \in DOMAIN q /\ j - n \in DOMAIN q /\ r[i] = q[i - n] /\ r[j] = q[j - n] /\ j - n < i - n
      BY <1>2, <1>7, <2>1
    <3>2. Quiet(q, j - n, i - n)
      <4> SUFFICES ASSUME NEW k \in DOMAIN q, j - n < k, k < i - n PROVE StatusTold(q[k]) = {}
        BY DEF Quiet
      <4>1. k + n \in DOMAIN r /\ r[k + n] = q[k] /\ j < k + n /\ k + n < i
        BY <1>2
      <4> QED BY <1>7, <4>1 DEF Quiet
    <3> QED BY <1>7, <3>1, <3>2 DEF Flow
  <2>2. CASE ~(j > n) /\ i > n
    <3>1. j \in DOMAIN p /\ r[j] = p[j] /\ i - n \in DOMAIN q /\ r[i] = q[i - n]
      BY <1>2, <2>2
    <3>2. \A k \in DOMAIN p : j < k => StatusTold(p[k]) = {}
      <4> SUFFICES ASSUME NEW k \in DOMAIN p, j < k PROVE StatusTold(p[k]) = {}
        OBVIOUS
      <4>1. k \in DOMAIN r /\ r[k] = p[k] /\ k < i
        BY <1>2, <2>2
      <4> QED BY <1>7, <4>1 DEF Quiet
    <3>3. v = y
      BY <1>4, <1>7, <3>1, <3>2
    <3>4. Quiet(q, 0, i - n)
      <4> SUFFICES ASSUME NEW k \in DOMAIN q, 0 < k, k < i - n PROVE StatusTold(q[k]) = {}
        BY DEF Quiet
      <4>1. k + n \in DOMAIN r /\ r[k + n] = q[k] /\ j < k + n /\ k + n < i
        BY <1>2, <2>2
      <4> QED BY <1>7, <4>1 DEF Quiet
    <3> QED BY <3>1, <3>3, <3>4 DEF Flow
  <2>3. CASE ~(i > n)
    <3>1. i \in DOMAIN p /\ r[i] = p[i] /\ j \in DOMAIN p /\ r[j] = p[j]
      BY <1>2, <1>7, <2>3
    <3>2. Quiet(p, j, i)
      BY <1>2, <1>7 DEF Quiet
    <3> QED BY <1>7, <3>1, <3>2 DEF Flow
  <2> QED BY <2>1, <2>2, <2>3
<1> QED BY <1>6, <1>7 DEF Flow, r

\* When the first update is read the others come in order after what it told.
LEMMA FlowTail ==
  ASSUME NEW q \in Seq(News), q # <<>>, NEW t \in Statuses, Flow(t, q), NEW y \in Statuses,
         Now(StatusTold(Head(q)), t, y)
  PROVE  Ready(t, Head(q)) /\ Flow(y, Tail(q))
<1>1. /\ Len(q) \in Nat /\ Len(q) > 0 /\ DOMAIN q = 1 .. Len(q) /\ Head(q) = q[1]
      /\ DOMAIN Tail(q) = 1 .. Len(q) - 1
      /\ \A i \in 1 .. Len(q) - 1 : Tail(q)[i] = q[i + 1]
  OBVIOUS
<1> DEFINE r == Tail(q)
<1>2. /\ \A i \in DOMAIN r : i + 1 \in DOMAIN q /\ r[i] = q[i + 1] /\ i \in Nat /\ i > 0
      /\ 1 \in DOMAIN q /\ q[1] = Head(q)
      /\ \A i \in DOMAIN q : i \in Nat /\ i > 0
      /\ \A i \in DOMAIN q : i > 1 => i - 1 \in DOMAIN r /\ r[i - 1] = q[i]
  BY <1>1
<1> HIDE DEF r
<1>3. Ready(t, Head(q))
  <2>1. Quiet(q, 0, 1)
    BY <1>2 DEF Quiet
  <2> QED BY <1>2, <2>1 DEF Flow
<1>4. ASSUME NEW i \in DOMAIN r, Quiet(r, 0, i) PROVE Ready(y, r[i])
  <2>1. Quiet(q, 1, i + 1)
    <3> SUFFICES ASSUME NEW k \in DOMAIN q, 1 < k, k < i + 1 PROVE StatusTold(q[k]) = {}
      BY DEF Quiet
    <3>1. k - 1 \in DOMAIN r /\ r[k - 1] = q[k] /\ 0 < k - 1 /\ k - 1 < i
      BY <1>2
    <3> QED BY <1>4, <3>1 DEF Quiet
  <2>2. i + 1 \in DOMAIN q /\ r[i] = q[i + 1] /\ 1 < i + 1
    BY <1>2
  <2>3. CASE StatusTold(Head(q)) = {y}
    BY <1>2, <2>1, <2>2, <2>3 DEF Flow
  <2>4. CASE StatusTold(Head(q)) = {} /\ y = t
    <3>1. Quiet(q, 0, i + 1)
      <4> SUFFICES ASSUME NEW k \in DOMAIN q, 0 < k, k < i + 1 PROVE StatusTold(q[k]) = {}
        BY DEF Quiet
      <4>1. k = 1 \/ 1 < k
        BY <1>2
      <4> QED BY <1>2, <2>1, <2>4, <4>1 DEF Quiet
    <3> QED BY <2>2, <2>4, <3>1 DEF Flow
  <2> QED BY <2>3, <2>4 DEF Now
<1>5. ASSUME NEW i \in DOMAIN r, NEW j \in DOMAIN r, NEW v \in Statuses, j < i, StatusTold(r[j]) = {v},
             Quiet(r, j, i)
      PROVE  Ready(v, r[i])
  <2>1. Quiet(q, j + 1, i + 1)
    <3> SUFFICES ASSUME NEW k \in DOMAIN q, j + 1 < k, k < i + 1 PROVE StatusTold(q[k]) = {}
      BY DEF Quiet
    <3>1. k - 1 \in DOMAIN r /\ r[k - 1] = q[k] /\ j < k - 1 /\ k - 1 < i
      BY <1>2
    <3> QED BY <1>5, <3>1 DEF Quiet
  <2>2. i + 1 \in DOMAIN q /\ r[i] = q[i + 1] /\ j + 1 \in DOMAIN q /\ r[j] = q[j + 1] /\ j + 1 < i + 1
    BY <1>2, <1>5
  <2> QED BY <1>5, <2>1, <2>2 DEF Flow
<1> QED BY <1>3, <1>4, <1>5 DEF Flow, r

\* A sequence of updates tells a status, or none.
LEMMA SumsSome ==
  ASSUME NEW q \in Seq(News)
  PROVE  \E S : Sums(q, OnStatus, S)
<1>1. Len(q) \in Nat /\ DOMAIN q = 1 .. Len(q) /\ \A i \in DOMAIN q : q[i] \in News
  OBVIOUS
<1>2. \A i \in DOMAIN q : OnStatus[q[i]] = {} \/ \E v : OnStatus[q[i]] = {v}
  BY <1>1 DEF OnStatus, StatusTold
<1>3. CASE Silent(q, OnStatus)
  BY <1>3 DEF Sums
<1>4. CASE ~Silent(q, OnStatus)
  <2> DEFINE N == {Len(q) - i : i \in {j \in DOMAIN q : OnStatus[q[j]] # {}}}
  <2>1. N \in SUBSET Nat /\ N # {}
    <3>1. PICK i \in DOMAIN q : OnStatus[q[i]] # {}
      BY <1>4 DEF Silent
    <3>2. Len(q) - i \in N
      BY <3>1
    <3>3. \A n \in N : n \in Nat
      BY <1>1
    <3> QED BY <3>2, <3>3
  <2>2. PICK m \in N : \A n \in N : m <= n
    <3> HIDE DEF N
    <3> QED BY <2>1, LeastNumber
  <2>3. PICK i \in DOMAIN q : m = Len(q) - i /\ OnStatus[q[i]] # {}
    BY <2>2
  <2>4. ASSUME NEW j \in DOMAIN q, j > i PROVE OnStatus[q[j]] = {}
    <3> SUFFICES ASSUME OnStatus[q[j]] # {} PROVE FALSE
      OBVIOUS
    <3>1. Len(q) - j \in N
      OBVIOUS
    <3>2. m <= Len(q) - j
      BY <2>2, <3>1
    <3> QED BY <1>1, <2>3, <2>4, <3>2
  <2>5. PICK v : OnStatus[q[i]] = {v}
    BY <1>2, <2>3
  <2>6. LastTold(q, OnStatus, v)
    BY <2>4, <2>5 DEF LastTold
  <2> QED BY <2>6 DEF Sums
<1> QED BY <1>3, <1>4

\* What is told last is a status.
LEMMA SumsStatus ==
  ASSUME NEW q \in Seq(News), NEW S, Sums(q, OnStatus, S), NEW t \in Statuses
  PROVE  \E y \in Statuses : Now(S, t, y)
<1>1. CASE S = {}
  BY <1>1 DEF Now
<1>2. CASE S # {}
  <2>1. PICK v \in S : S = {v} /\ LastTold(q, OnStatus, v)
    BY <1>2 DEF Sums
  <2>2. PICK i \in DOMAIN q : OnStatus[q[i]] = {v}
    BY <2>1 DEF LastTold
  <2>3. q[i] \in News
    OBVIOUS
  <2>4. StatusTold(q[i]) = {v}
    BY <2>2, <2>3 DEF OnStatus
  <2>5. v \in Statuses
    <3>1. q[i].kind = "CommandStatus" => q[i] \in CommandStatuses
      BY <2>3, KindsApart DEF News
    <3>2. q[i].kind = "CommandStatus" => q[i].status \in Statuses
      BY <3>1 DEF CommandStatuses
    <3>3. "Paused" \in Statuses /\ "Exited" \in Statuses
      BY DEF Statuses
    <3> QED BY <2>4, <3>2, <3>3 DEF StatusTold
  <2> QED BY <2>1, <2>5 DEF Now
<1> QED BY <1>1, <1>2

\* Calm updates come in order after all others.
LEMMA FlowThen ==
  ASSUME NEW p \in Seq(News), NEW t \in Statuses, Flow(t, p), NEW c, Calm(c)
  PROVE  Flow(t, p \o c)
<1>1. PICK S : Sums(p, OnStatus, S)
  BY SumsSome
<1>2. PICK y \in Statuses : Now(S, t, y)
  BY <1>1, SumsStatus
<1>3. Flow(y, c) /\ c \in Seq(News)
  BY CalmFlows DEF Calm
<1> QED BY <1>1, <1>2, <1>3, FlowJoin

\* One update.
LEMMA FlowOne ==
  ASSUME NEW u \in News, NEW t \in Statuses, Ready(t, u)
  PROVE  Flow(t, <<u>>)
BY DEF Flow

\* An update that is no event and does not tell that the target runs is calm.
LEMMA CalmOne ==
  ASSUME NEW u \in News, u.kind # "Event", \A s \in StatusTold(u) : s \notin Tailing
  PROVE  Calm(<<u>>)
<1>1. \A t \in Statuses : Ready(t, u)
  BY DEF Ready
<1>2. <<u>> \in Seq(News)
  OBVIOUS
<1> QED BY <1>1, <1>2 DEF Calm

\* Two updates, of which the first tells a status.
LEMMA FlowTwo ==
  ASSUME NEW a \in News, NEW b \in News, NEW t \in Statuses, NEW s \in Statuses,
         StatusTold(a) = {s}, Ready(t, a), Ready(s, b)
  PROVE  Flow(t, <<a, b>>)
<1> DEFINE q == <<a, b>>
<1>1. DOMAIN q = {1, 2} /\ q[1] = a /\ q[2] = b
  OBVIOUS
<1> HIDE DEF q
<1>2. ~Quiet(q, 0, 2)
  BY <1>1 DEF Quiet
<1>3. ASSUME NEW i \in DOMAIN q, Quiet(q, 0, i) PROVE Ready(t, q[i])
  BY <1>1, <1>2, <1>3
<1>4. ASSUME NEW i \in DOMAIN q, NEW j \in DOMAIN q, NEW v \in Statuses, j < i, StatusTold(q[j]) = {v}
      PROVE  Ready(v, q[i])
  <2>1. i = 2 /\ j = 1
    BY <1>1, <1>4
  <2> QED BY <1>1, <1>4, <2>1
<1> QED BY <1>3, <1>4 DEF Flow, q

\* Updates that tell nothing come while the target runs.
LEMMA QuietFlows ==
  ASSUME NEW q, NEW R, NEW L, NEW E, Tells(q, {}, R, L, E), NEW t \in Reporting
  PROVE  q \in Seq(News) /\ Flow(t, q)
<1>1. q \in Seq(News) /\ Silent(q, OnStatus)
  BY DEF Tells, Sums
<1>2. \A i \in DOMAIN q : q[i] \in News
  BY <1>1
<1>3. \A i \in DOMAIN q : StatusTold(q[i]) = {}
  BY <1>1, <1>2 DEF Silent, OnStatus
<1> QED BY <1>1, <1>3 DEF Flow, Ready

\* The status of a command is calm unless the target runs on.
LEMMA SayCalm ==
  ASSUME NEW verb \in Verbs \cup {None}, NEW answer \in Answers, NEW status \in Statuses,
         NEW message \in Messages, NEW u, u = Say(verb, answer, status, message)
  PROVE  u \in News /\ u.kind # "Event" /\ StatusTold(u) = {status}
         /\ (status \notin Tailing => Calm(<<u>>))
<1>1. u \in News /\ u.kind = "CommandStatus" /\ u.status = status
  BY DEF Say, News, Updates, CommandStatuses
<1>2. StatusTold(u) = {status}
  BY <1>1 DEF StatusTold
<1> QED BY <1>1, <1>2, CalmOne

\* So are a condition that is met, the list of the breakpoints, and what is inspected.
LEMMA OthersCalm ==
  /\ Calm(<<>>) /\ Calm(<<End>>)
  /\ \A u \in Nat \cup {None} : Calm(<<Match(u)>>)
  /\ \A l \in Seq(Breakpoints) : Calm(<<List(l)>>)
  /\ \A at \in Places(Lines), w \in Seq(Nat) : Calm(<<Shown(at, w)>>)
  /\ \A id \in Places(Lines) : Calm(<<CodeAt(id)>>)
<1> USE DEF StatusTold, Tailing
<1>1. Calm(<<>>)
  BY DEF Calm
<1>2. Calm(<<End>>)
  <2>1. End \in News /\ End.kind = "SessionEnd"
    BY DEF News, Updates, End
  <2> QED BY <2>1, CalmOne
<1>3. ASSUME NEW u \in Nat \cup {None} PROVE Calm(<<Match(u)>>)
  <2>1. Match(u) \in News /\ Match(u).kind = "BreakMatched"
    BY DEF News, Updates, BreakMatches, Match
  <2> QED BY <2>1, CalmOne
<1>4. ASSUME NEW l \in Seq(Breakpoints) PROVE Calm(<<List(l)>>)
  <2>1. List(l) \in News /\ List(l).kind = "UserBreakpoints"
    BY DEF News, Updates, BreakpointLists, List
  <2> QED BY <2>1, CalmOne
<1>5. ASSUME NEW at \in Places(Lines), NEW w \in Seq(Nat) PROVE Calm(<<Shown(at, w)>>)
  <2>1. Shown(at, w) \in News /\ Shown(at, w).kind = "MemoryInspection"
    BY DEF News, Updates, MemoryShown, Shown
  <2> QED BY <2>1, CalmOne
<1>6. ASSUME NEW id \in Places(Lines) PROVE Calm(<<CodeAt(id)>>)
  <2>1. CodeAt(id) \in News /\ CodeAt(id).kind = "CodeInspection"
    BY DEF News, Updates, CodeShown, CodeAt
  <2> QED BY <2>1, CalmOne
<1> QED BY <1>1, <1>2, <1>3, <1>4, <1>5, <1>6

\* That a breakpoint is hit is told calmly.
LEMMA HitCalm ==
  ASSUME NEW reg \in Seq(Breakpoints)
  PROVE  Calm(W!HitSaid(reg)) /\ Calm(W!HitReported)
<1>1. Calm(W!HitSaid(reg))
  BY OthersCalm DEF W!HitSaid, W!List, List
<1>2. Calm(<<Say(None, "Completed", "Paused", "hit")>>)
  <2>1. /\ "Completed" \in Answers /\ "Paused" \in Statuses /\ "hit" \in Messages
        /\ "Paused" \notin Tailing
    BY DEF Answers, Statuses, Messages, Tailing
  <2> QED BY <2>1, SayCalm
<1> QED BY <1>1, <1>2 DEF W!HitReported, W!Say, Say

-----------------------------------------------------------------------------
(* Following the newest event: the worker                                  *)

\* A process that is gone unnoticed is taken to stand still; the status says which
\* source step runs, and that what is not held runs on.
Waits(w) ==
  /\ w.lost => w.held /\ w.status \in {"Paused", "Exited"}
  /\ w.stepping # None => w.status = StatusOf(w.stepping)
  /\ ~w.held /\ ~w.over => w.status \in Tailing \cup {"SteppingInstructionOver"}

\* What a step sends comes in order after the status there was.
Flows(w, v, q) ==
  /\ Waits(v)
  /\ \A x \in Statuses : x = w.status \/ w.lost => Flow(x, q)
FlowsOn(w, o) == Flows(w, o.worker, o.said)

\* A step that is put together sends in order if its parts do.
LEMMA OutFlows ==
  ASSUME NEW w, NEW v, NEW q, NEW c, Flows(w, v, q)
  PROVE  FlowsOn(w, W!Out(v, q, c))
<1>1. W!Out(v, q, c).said = q /\ W!Out(v, q, c).worker = v
  BY DEF W!Out
<1> QED BY <1>1 DEF FlowsOn

\* Whatever is told calmly.
LEMMA CalmOn ==
  ASSUME NEW w, NEW v, Waits(v), NEW q, Calm(q), NEW c
  PROVE  FlowsOn(w, W!Out(v, q, c))
BY CalmFlows, OutFlows DEF Flows

\* Whatever is told calmly after an event.
LEMMA EventOn ==
  ASSUME NEW w, ~w.lost, w.status \in Reporting, NEW v, Waits(v), NEW event,
         Tells(event, {}, {}, {}, {}), NEW q, Calm(q), NEW c
  PROVE  FlowsOn(w, W!Out(v, event \o q, c))
<1>1. event \in Seq(News) /\ Flow(w.status, event)
  BY QuietFlows
<1>2. \A x \in Statuses : x = w.status => Flow(x, event \o q)
  BY <1>1, FlowThen
<1> QED BY <1>2, OutFlows DEF Flows

\* What a breakpoint that is hit sends first, and what it sends then.
LEMMA HitOn ==
  ASSUME NEW w, ~w.lost, w.status \in Reporting, NEW v, Waits(v), NEW event,
         Tells(event, {}, {}, {}, {}), NEW user \in Nat \cup {None},
         NEW b \in W!Before(event, Match(user)), NEW q, Calm(q), NEW c
  PROVE  FlowsOn(w, W!Out(v, b \o q, c))
<1>1. Calm(<<Match(user)>>) /\ Calm(<<>>)
  BY OthersCalm
<1>2. event \in Seq(News) /\ <<Match(user)>> \in Seq(News) /\ q \in Seq(News) /\ <<>> \in Seq(News)
  BY <1>1 DEF Tells, Calm
<1>3. CASE b = <<>>
  <2>1. Calm(<<>> \o q)
    BY <1>1, CalmJoin
  <2> QED BY <1>3, <2>1, CalmOn
<1>4. CASE b = event
  BY <1>4, EventOn
<1>5. CASE b = event \o <<Match(user)>>
  <2> DEFINE m == <<Match(user)>>
  <2>1. (event \o m) \o q = event \o (m \o q)
    <3> HIDE DEF m
    <3>1. m \in Seq(News)
      BY <1>2 DEF m
    <3> QED BY <1>2, <3>1
  <2>2. Calm(m \o q)
    BY <1>1, CalmJoin
  <2> HIDE DEF m
  <2>3. FlowsOn(w, W!Out(v, event \o (m \o q), c))
    BY <2>2, EventOn
  <2> QED BY <1>5, <2>1, <2>3 DEF m
<1> QED BY <1>3, <1>4, <1>5 DEF W!Before

\* A process that is held waits.
LEMMA HoldingWaits ==
  ASSUME NEW w, WorkerOK(w), ~w.lost, w.stepping = None, NEW gone
  PROVE  Waits(W!Holding(w, gone))
<1> DEFINE v == W!Holding(w, gone)
<1>1. v.held = TRUE /\ v.stepping = None /\ v.lost = FALSE
  BY DEF WorkerOK, Workers, W!Holding
<1> QED BY <1>1 DEF Waits, Tailing

\* What a source step sends.
LEMMA SourceFlows ==
  ASSUME NEW w, WorkerOK(w), Waits(w), ~w.lost, w.stepping # None, NEW reg \in Seq(Breakpoints),
         NEW event, Tells(event, {}, {}, {}, {}), NEW user \in Nat \cup {None},
         NEW o \in W!SourceOutcomes(w, reg, event, Match(user))
  PROVE  FlowsOn(w, o)
<1> DEFINE h == W!Holding(w, {})
           back == [h EXCEPT !.stepping = None]
           gone == [back EXCEPT !.lost = TRUE]
           known == [back EXCEPT !.lost = TRUE, !.status = "Exited"]
           m == event \o <<Match(user)>>
           say(answer, status, message) == Say(w.stepping, answer, status, message)
<1>1. \/ o = W!Out(w, event, None)
      \/ o = W!Out(back, <<say("Completed", "Paused", "moved")>>, w.stepping)
      \/ o = W!Out(back, <<say("Completed", "Paused", "other")>>, "unexplained")
      \/ o = W!Out(back, <<say("Failed", "Paused", "signal")>>, "unexplained")
      \/ o = W!Out(back, m \o <<say("Failed", "Paused", "other")>>, "condition")
      \/ o = W!Out(gone, <<say("Completed", "Exited", "other")>>, "unexplained")
      \/ o = W!Out(known, <<say("Completed", "Exited", "other")>>, "unexplained")
      \/ o = W!Fails(w)
      \/ \E b \in W!Before(event, Match(user)) :
           o = W!Out(back, b \o W!HitSaid(reg) \o <<say("Failed", "Paused", "other")>>
                             \o W!HitReported, "breakpoint")
  BY SameWords DEF W!SourceOutcomes
<1>2. h \in Workers /\ h.held = TRUE /\ h.lost = FALSE /\ h.status = "Paused"
  BY HoldingRight DEF WorkerOK
<1> HIDE DEF h
<1>3. Waits(back) /\ Waits(gone) /\ Waits(known)
  BY <1>2 DEF Waits, Workers, Statuses
<1>4. w.status \in Reporting
  <2>1. w.stepping \in SourceSteps
    BY DEF WorkerOK, Workers
  <2> QED BY <2>1 DEF Waits, Reporting, StatusOf, SourceSteps
<1>5. /\ w.stepping \in Verbs \cup {None}
      /\ "Completed" \in Answers /\ "Failed" \in Answers /\ "Paused" \in Statuses
      /\ "Exited" \in Statuses /\ "moved" \in Messages /\ "other" \in Messages
      /\ "signal" \in Messages /\ "Paused" \notin Tailing /\ "Exited" \notin Tailing
  BY DEF Answers, Statuses, Messages, WorkerOK, Workers, Verbs, Controls, StepVerbs, Tailing
<1>6. /\ Calm(<<say("Completed", "Paused", "moved")>>)
      /\ Calm(<<say("Completed", "Paused", "other")>>)
      /\ Calm(<<say("Failed", "Paused", "signal")>>)
      /\ Calm(<<say("Failed", "Paused", "other")>>)
      /\ Calm(<<say("Completed", "Exited", "other")>>)
  BY <1>5, SayCalm
<1>7. CASE o = W!Out(w, event, None)
  <2>1. Flow(w.status, event)
    BY <1>4, QuietFlows
  <2> QED BY <1>7, <2>1, OutFlows DEF Flows
<1>8. CASE o = W!Fails(w)
  <2> DEFINE v == [w EXCEPT !.over = TRUE, !.lost = FALSE]
  <2>1. o = W!Out(v, <<>>, None) /\ Waits(v)
    BY <1>8 DEF W!Fails, Waits, WorkerOK, Workers
  <2> HIDE DEF v
  <2> QED BY <2>1, OthersCalm, CalmOn
<1>9. ASSUME NEW c, NEW q, Calm(q), NEW v, Waits(v), o = W!Out(v, q, c) PROVE FlowsOn(w, o)
  BY <1>9, CalmOn
<1>10. ASSUME NEW c, o = W!Out(back, m \o <<say("Failed", "Paused", "other")>>, c) PROVE FlowsOn(w, o)
  <2> DEFINE q == <<say("Failed", "Paused", "other")>>
  <2>1. m \in W!Before(event, Match(user)) /\ Calm(q)
    BY <1>6 DEF W!Before
  <2> HIDE DEF q, m, back
  <2> QED BY <1>3, <1>4, <1>10, <2>1, HitOn DEF q
<1>11. ASSUME NEW b \in W!Before(event, Match(user)), NEW c,
              o = W!Out(back, b \o W!HitSaid(reg) \o <<say("Failed", "Paused", "other")>>
                                \o W!HitReported, c)
       PROVE  FlowsOn(w, o)
  <2> DEFINE q == W!HitSaid(reg)
             t == <<say("Failed", "Paused", "other")>>
             r == W!HitReported
  <2>1. Calm(q) /\ Calm(t) /\ Calm(r)
    BY <1>6, HitCalm
  <2>2. q \in Seq(News) /\ t \in Seq(News) /\ r \in Seq(News) /\ b \in Seq(News)
    <3>1. \E S, R : Tells(b, S, R, {}, {})
      BY BeforeTells
    <3>2. b \in Seq(News)
      BY <3>1 DEF Tells
    <3> HIDE DEF q, t, r, back
    <3> QED BY <2>1, <3>2 DEF Calm
  <2> HIDE DEF q, t, r, back
  <2>3. b \o q \o t \o r = b \o (q \o t \o r)
    <3>1. q \o t \in Seq(News)
      BY <2>2
    <3>2. (b \o q) \o t = b \o (q \o t)
      BY <2>2
    <3>3. (b \o (q \o t)) \o r = b \o ((q \o t) \o r)
      BY <2>2, <3>1
    <3> QED BY <3>2, <3>3
  <2>4. Calm(q \o t \o r)
    BY <2>1, CalmJoin
  <2>5. FlowsOn(w, W!Out(back, b \o (q \o t \o r), c))
    BY <1>3, <1>4, <2>4, HitOn
  <2> QED BY <1>11, <2>3, <2>5 DEF q, t, r
<1> HIDE DEF back, gone, known, m, say
<1> QED BY <1>1, <1>3, <1>6, <1>7, <1>8, <1>9, <1>10, <1>11

\* The trace fails: nothing is sent.
LEMMA FailsFlow ==
  ASSUME NEW w, WorkerOK(w), Waits(w)
  PROVE  FlowsOn(w, W!Fails(w)) /\ Waits(W!Fails(w).worker)
<1> DEFINE v == [w EXCEPT !.over = TRUE, !.lost = FALSE]
<1>1. W!Fails(w) = W!Out(v, <<>>, None) /\ W!Fails(w).worker = v
  BY DEF W!Fails, W!Out
<1>2. Waits(v)
  BY DEF Waits, WorkerOK, Workers
<1> HIDE DEF v
<1> QED BY <1>1, <1>2, OthersCalm, CalmOn

\* What an allocator event brings.
LEMMA EventFlows ==
  ASSUME NEW w, WorkerOK(w), Waits(w), ~w.lost, w.stepping = None, w.status \in Reporting,
         NEW event, Tells(event, {}, {}, {}, {}), NEW user \in Nat \cup {None},
         NEW o \in W!EventOutcomes(w, event, Match(user))
  PROVE  FlowsOn(w, o)
<1> DEFINE both == {"StepAllocatorEvent", "StepInstructionOver"}
           v == W!Holding(w, both)
           x == W!Holding(w, {"StepAllocatorEvent"})
           m == event \o <<Match(user)>>
           f == <<Say("StepInstructionOver", "Failed", "Paused", "other")>>
           s == <<Say("StepAllocatorEvent", "Completed", "Paused", "moved")>>
<1>1. \/ o = W!Out(w, event, None)
      \/ \E c : o = W!Out(v, m \o f, c) \/ o = W!Out(v, m \o <<>>, c)
      \/ \E c : o = W!Out(x, event \o s, c)
  BY SameWords DEF W!EventOutcomes
<1>2. Waits(v) /\ Waits(x)
  <2> HIDE DEF both
  <2> QED BY HoldingWaits
<1>3. Calm(f) /\ Calm(s) /\ Calm(<<>>)
  <2>1. /\ "StepInstructionOver" \in Verbs \cup {None} /\ "StepAllocatorEvent" \in Verbs \cup {None}
        /\ "Completed" \in Answers /\ "Failed" \in Answers /\ "Paused" \in Statuses
        /\ "moved" \in Messages /\ "other" \in Messages /\ "Paused" \notin Tailing
    BY DEF Verbs, Controls, StepVerbs, Answers, Statuses, Messages, Tailing
  <2> QED BY <2>1, SayCalm, OthersCalm
<1>4. m \in W!Before(event, Match(user))
  BY DEF W!Before
<1>5. CASE o = W!Out(w, event, None)
  <2>1. Flow(w.status, event)
    BY QuietFlows
  <2> QED BY <1>5, <2>1, OutFlows DEF Flows
<1> HIDE DEF v, x, m, f, s
<1>6. ASSUME NEW c, o = W!Out(v, m \o f, c) \/ o = W!Out(v, m \o <<>>, c) PROVE FlowsOn(w, o)
  BY <1>2, <1>3, <1>4, <1>6, HitOn
<1>7. ASSUME NEW c, o = W!Out(x, event \o s, c) PROVE FlowsOn(w, o)
  BY <1>2, <1>3, <1>7, EventOn
<1> QED BY <1>1, <1>5, <1>6, <1>7

\* What a breakpoint that is hit brings.
LEMMA HitFlows ==
  ASSUME NEW w, WorkerOK(w), ~w.lost, w.stepping = None, w.status \in Reporting,
         NEW reg \in Seq(Breakpoints), NEW event, Tells(event, {}, {}, {}, {}),
         NEW user \in Nat \cup {None}, NEW o \in W!HitOutcomes(w, reg, event, Match(user))
  PROVE  FlowsOn(w, o)
<1> DEFINE v == W!Holding(w, {"StepAllocatorEvent"})
           q == W!HitSaid(reg)
           r == W!HitReported
<1>0. PICK b \in W!Before(event, Match(user)) : \E c : o = W!Out(v, b \o q \o r, c)
  BY DEF W!HitOutcomes
<1>1. PICK c : o = W!Out(v, b \o q \o r, c)
  BY <1>0
<1>2. Waits(v)
  BY HoldingWaits
<1>3. Calm(q) /\ Calm(r)
  BY HitCalm
<1>4. q \in Seq(News) /\ r \in Seq(News) /\ b \in Seq(News)
  <2>1. \E S, R : Tells(b, S, R, {}, {})
    BY BeforeTells
  <2> QED BY <1>3, <2>1 DEF Calm, Tells
<1> HIDE DEF v, q, r
<1>5. b \o q \o r = b \o (q \o r)
  BY <1>4
<1>6. Calm(q \o r)
  BY <1>3, CalmJoin
<1>7. FlowsOn(w, W!Out(v, b \o (q \o r), c))
  BY <1>2, <1>6, HitOn
<1> QED BY <1>1, <1>5, <1>7

\* What the worker sends of its own accord comes in order, if no stop was sent.
LEMMA OwnFlows ==
  ASSUME NEW w, WorkerOK(w), Waits(w), ~w.stopping, NEW reg \in Seq(Breakpoints), NEW event,
         Tells(event, {}, {}, {}, {}), NEW user \in Nat \cup {None},
         NEW o \in W!Own(w, reg, event, Match(user))
  PROVE  FlowsOn(w, o)
<1>1. /\ ~w.over /\ ~(w.held /\ w.stepping = None)
      /\ w.over \in BOOLEAN /\ w.lost \in BOOLEAN /\ w.held \in BOOLEAN
  BY DEF W!Own, WorkerOK, Workers
<1>2. CASE w.stepping # None
  <2>1. o \in W!SourceOutcomes(w, reg, event, Match(user)) /\ ~w.lost
    BY <1>1, <1>2 DEF W!Own, WorkerOK
  <2> QED BY <1>2, <2>1, SourceFlows
<1>3. CASE w.stepping = None /\ w.lost
  <2>1. o = W!Fails(w)
    BY <1>1, <1>3 DEF W!Own
  <2> QED BY <2>1, FailsFlow
<1>4. CASE w.stepping = None /\ ~w.lost
  <2>1. o \in W!EventOutcomes(w, event, Match(user)) \cup W!HitOutcomes(w, reg, event, Match(user))
             \cup W!PauseOutcomes(w) \cup W!NextiOutcomes(w) \cup W!GraceOutcomes(w)
             \cup W!ExitOutcomes(w) \cup {W!Fails(w)}
    BY <1>1, <1>4 DEF W!Own
  <2>2. w.status \in Reporting
    BY <1>1, <1>4 DEF Waits, Reporting
  <2>3. /\ "Pause" \in Verbs \cup {None} /\ "StepInstructionOver" \in Verbs \cup {None}
        /\ None \in Verbs \cup {None}
        /\ "Completed" \in Answers /\ "Failed" \in Answers /\ "Paused" \in Statuses
        /\ "Exited" \in Statuses /\ "moved" \in Messages /\ "other" \in Messages
        /\ "signal" \in Messages /\ "Paused" \notin Tailing /\ "Exited" \notin Tailing
    BY DEF Verbs, Controls, StepVerbs, Answers, Statuses, Messages, Tailing
  <2>4. CASE o \in W!PauseOutcomes(w)
    <3> DEFINE q == <<Say("Pause", "Completed", "Paused", "other")>>
               v == W!Holding(w, {"Pause"})
    <3>1. \E c : o = W!Out(v, q, c)
      BY <2>4, SameWords DEF W!PauseOutcomes
    <3>2. Calm(q) /\ Waits(v)
      BY <1>4, <2>3, SayCalm, HoldingWaits
    <3> HIDE DEF q, v
    <3> QED BY <3>1, <3>2, CalmOn
  <2>5. CASE o \in W!NextiOutcomes(w)
    <3> DEFINE q == <<Say("StepInstructionOver", "Completed", "Paused", "moved")>>
               r == <<Say("StepInstructionOver", "Failed", "Paused", "signal")>>
               v == W!Holding(w, {"StepInstructionOver"})
    <3>1. \E c : o = W!Out(v, q, c) \/ o = W!Out(v, r, c)
      BY <2>5, SameWords DEF W!NextiOutcomes
    <3>2. Calm(q) /\ Calm(r) /\ Waits(v)
      BY <1>4, <2>3, SayCalm, HoldingWaits
    <3> HIDE DEF q, r, v
    <3> QED BY <3>1, <3>2, CalmOn
  <2>6. CASE o \in W!ExitOutcomes(w)
    <3> DEFINE q == <<Say(None, "Completed", "Exited", "other")>>
               e == <<End>>
               v == W!Ended(w)
    <3>1. o = W!Out(v, <<Say(None, "Completed", "Exited", "other"), End>>, None)
      BY <2>6, SameWords DEF W!ExitOutcomes
    <3>2. <<Say(None, "Completed", "Exited", "other"), End>> = q \o e
      OBVIOUS
    <3>3. Calm(q) /\ Calm(e)
      BY <2>3, SayCalm, OthersCalm
    <3>4. Waits(v)
      BY <1>4 DEF W!Ended, Waits, WorkerOK, Workers
    <3> HIDE DEF q, e, v
    <3>5. Calm(q \o e)
      BY <3>3, CalmJoin
    <3> QED BY <3>1, <3>2, <3>4, <3>5, CalmOn
  <2>7. o \notin W!GraceOutcomes(w)
    BY DEF W!GraceOutcomes
  <2> QED BY <1>4, <2>1, <2>2, <2>4, <2>5, <2>6, <2>7, EventFlows, HitFlows, FailsFlow
<1> QED BY <1>1, <1>2, <1>3, <1>4

-----------------------------------------------------------------------------
(* Following the newest event: the answers to the commands                 *)

\* Two updates, or three, that are calm one by one.
LEMMA CalmMore ==
  ASSUME NEW a, NEW b, NEW c, Calm(<<a>>), Calm(<<b>>), Calm(<<c>>)
  PROVE  Calm(<<a, b>>) /\ Calm(<<a, b, c>>)
<1>1. ASSUME NEW u, Calm(<<u>>) PROVE u \in News /\ \A t \in Statuses : Ready(t, u)
  <2> DEFINE q == <<u>>
  <2>1. 1 \in DOMAIN q /\ q[1] = u
    OBVIOUS
  <2> HIDE DEF q
  <2>2. q \in Seq(News) /\ \A i \in DOMAIN q : \A t \in Statuses : Ready(t, q[i])
    BY <1>1 DEF Calm, q
  <2>3. q[1] \in News
    BY <2>1, <2>2
  <2> QED BY <2>1, <2>2, <2>3
<1> DEFINE p == <<a, b>>
           q == <<a, b, c>>
<1>a. a \in News /\ b \in News /\ c \in News
  BY <1>1
<1>2. p \in Seq(News) /\ DOMAIN p = {1, 2} /\ p[1] = a /\ p[2] = b
  BY <1>a
<1>3. q \in Seq(News) /\ DOMAIN q = {1, 2, 3} /\ q[1] = a /\ q[2] = b /\ q[3] = c
  BY <1>a
<1> HIDE DEF p, q
<1>4. Calm(p) /\ Calm(q)
  BY <1>1, <1>2, <1>3 DEF Calm
<1> QED BY <1>4 DEF p, q

\* The status of a command, when nothing is read out of its message.
LEMMA SayOther ==
  ASSUME NEW verb \in Verbs \cup {None}, NEW answer \in Answers, NEW s \in Statuses
  PROVE  /\ Say(verb, answer, s, "other") \in News
         /\ Say(verb, answer, s, "other").kind # "Event"
         /\ StatusTold(Say(verb, answer, s, "other")) = {s}
         /\ (s \notin Tailing => Calm(<<Say(verb, answer, s, "other")>>))
<1>1. "other" \in Messages
  BY DEF Messages
<1> QED BY <1>1, SayCalm

\* One status: that the target runs on is only told of one that ran, or paused.
LEMMA OneFlows ==
  ASSUME NEW w, NEW v, Waits(v), NEW verb \in Verbs \cup {None}, NEW answer \in Answers,
         NEW s \in Statuses, NEW c,
         s \in Tailing => ~w.lost /\ w.status \in Tailing \cup {"Paused"}
  PROVE  FlowsOn(w, W!Out(v, <<Say(verb, answer, s, "other")>>, c))
<1> DEFINE u == Say(verb, answer, s, "other")
<1>1. /\ u \in News /\ u.kind # "Event" /\ StatusTold(u) = {s}
      /\ (s \notin Tailing => Calm(<<u>>))
  BY SayOther
<1> HIDE DEF u
<1>2. ASSUME NEW x \in Statuses, x = w.status \/ w.lost PROVE Flow(x, <<u>>)
  <2>1. Ready(x, u)
    BY <1>1, <1>2 DEF Ready
  <2> QED BY <1>1, <2>1, FlowOne
<1>3. Flows(w, v, <<u>>)
  BY <1>2 DEF Flows
<1>4. FlowsOn(w, W!Out(v, <<u>>, c))
  BY <1>3, OutFlows
<1> QED BY <1>4 DEF u

\* A command is heard in the status there is, and changes it.
LEMMA TwoFlow ==
  ASSUME NEW w, WorkerOK(w), Waits(w), NEW v, Waits(v), NEW verb \in Verbs, NEW answer \in Answers,
         NEW s \in Statuses, NEW c,
         s \in Tailing => ~w.lost /\ w.status \in Tailing \cup {"Paused"}
  PROVE  FlowsOn(w, W!Out(v, <<Say(verb, "Accepted", w.status, "other"),
                               Say(verb, answer, s, "other")>>, c))
<1> DEFINE a == Say(verb, "Accepted", w.status, "other")
           b == Say(verb, answer, s, "other")
<1>1. /\ a \in News /\ a.kind # "Event" /\ StatusTold(a) = {w.status}
      /\ b \in News /\ b.kind # "Event" /\ StatusTold(b) = {s} /\ w.status \in Statuses
  <2>1. "other" \in Messages /\ "Accepted" \in Answers /\ w.status \in Statuses
        /\ verb \in Verbs \cup {None}
    BY DEF Messages, Answers, WorkerOK, Workers
  <2> QED BY <2>1, SayOther
<1>2. w.lost => w.status \notin Tailing
  BY DEF Waits, Tailing
<1> HIDE DEF a, b
<1>3. ASSUME NEW x \in Statuses, x = w.status \/ w.lost PROVE Flow(x, <<a, b>>)
  <2>1. Ready(x, a) /\ Ready(w.status, b)
    BY <1>1, <1>2, <1>3 DEF Ready
  <2> QED BY <1>1, <2>1, FlowTwo
<1>4. Flows(w, v, <<a, b>>)
  BY <1>3 DEF Flows
<1>5. FlowsOn(w, W!Out(v, <<a, b>>, c))
  BY <1>4, OutFlows
<1> QED BY <1>5 DEF a, b

\* A process that is let go ran before, or paused.
LEMMA LetGoFlows ==
  ASSUME NEW w, WorkerOK(w), Waits(w), ~w.over, w.held, w.stepping = None,
         w.status \in Tailing \cup {"Paused"}, NEW verb \in Verbs, NEW o \in W!LetGo(w, verb)
  PROVE  FlowsOn(w, o)
<1> DEFINE p == [w EXCEPT !.status = "Paused"]
           r == W!Going(w, "Running")
<1>1. \/ w.lost /\ o = W!Out(p, <<Say(verb, "Accepted", w.status, "other"),
                                  Say(verb, "Failed", "Paused", "other")>>, None)
      \/ ~w.lost /\ o = W!Out(r, <<Say(verb, "Accepted", w.status, "other"),
                                   Say(verb, "Completed", "Running", "other")>>, None)
  BY SameWords DEF W!LetGo, W!GoneFails
<1>2. Waits(p) /\ (~w.lost => Waits(r))
  BY DEF Waits, WorkerOK, Workers, W!Going, Tailing
<1>3. /\ "Completed" \in Answers /\ "Failed" \in Answers
      /\ "Paused" \in Statuses /\ "Running" \in Statuses /\ "Paused" \notin Tailing
  BY DEF Answers, Statuses, Tailing
<1> HIDE DEF p, r
<1> QED BY <1>1, <1>2, <1>3, TwoFlow

\* A command to continue lets go, or changes the status of what runs on.
LEMMA ContinueFlows ==
  ASSUME NEW w, WorkerOK(w), Waits(w), ~w.over, w.stepping = None,
         w.status \in {"Paused", "SteppingToNextAllocatorEvent"}, NEW o \in W!ContinueAnswer(w)
  PROVE  FlowsOn(w, o)
<1> DEFINE calm == [w EXCEPT !.pending = @ \ {"StepInstructionOver"}]
           v == [calm EXCEPT !.status = "Running"]
<1>1. /\ w.held => o \in W!LetGo(calm, "Continue")
      /\ ~w.held => o = W!Out(v, <<Say("Continue", "Accepted", w.status, "other"),
                                   Say("Continue", "Completed", "Running", "other")>>, None)
  BY SameWords DEF W!ContinueAnswer
<1>2. w.pending \ {"StepInstructionOver"} \in SUBSET Pendings
  BY DEF WorkerOK, Workers
<1>3. /\ WorkerOK(calm) /\ calm.lost = w.lost /\ calm.held = w.held /\ calm.status = w.status
      /\ calm.stepping = w.stepping /\ calm.over = w.over
      /\ v.lost = w.lost /\ v.held = w.held /\ v.status = "Running" /\ v.stepping = w.stepping
      /\ WorkerOK(v)
  BY <1>2 DEF WorkerOK, Workers, Statuses
<1>4. "Continue" \in Verbs /\ "Running" \in Statuses /\ "Completed" \in Answers
  BY DEF Verbs, Controls, Statuses, Answers
<1> HIDE DEF calm, v
<1>5. Waits(calm) /\ (~w.held => ~w.lost /\ Waits(v)) /\ w.status \in Tailing \cup {"Paused"}
  BY <1>3 DEF Waits, Tailing
<1>6. CASE w.held
  <2>1. FlowsOn(calm, o)
    BY <1>1, <1>3, <1>4, <1>5, <1>6, LetGoFlows
  <2> QED BY <1>3, <2>1 DEF FlowsOn, Flows
<1>7. CASE ~w.held
  BY <1>1, <1>4, <1>5, <1>7, TwoFlow
<1> QED BY <1>6, <1>7

\* A step that takes its time starts from a pause.
LEMMA StartedFlows ==
  ASSUME NEW w, WorkerOK(w), Waits(w), ~w.over, ~w.lost, w.stepping = None, w.status = "Paused",
         NEW verb \in {"StepAllocatorEvent", "StepInstructionOver"}, NEW o, o = W!Started(w, verb)
  PROVE  FlowsOn(w, o)
<1> DEFINE v == [W!Going(w, StatusOf(verb)) EXCEPT !.pending = @ \cup {verb}]
           st == StatusOf(verb)
<1>1. o = W!Out(v, <<Say(verb, "Accepted", v.status, "other")>>, None)
  BY SameWords DEF W!Started, W!Answered, W!Out
<1>2. verb \in Verbs /\ "Accepted" \in Answers
  BY DEF Verbs, Controls, StepVerbs, Answers
<1>3. st \in Statuses /\ st \in Tailing \cup {"SteppingInstructionOver"}
  BY DEF StatusOf, Statuses, Underway, StepVerbs, Tailing
<1>4. v.lost = w.lost /\ v.held = FALSE /\ v.status = st /\ v.stepping = w.stepping
  <2> HIDE DEF st
  <2>1. v = [[w EXCEPT !.status = st, !.held = FALSE] EXCEPT !.pending = @ \cup {verb}]
    BY DEF W!Going, st
  <2> HIDE DEF v
  <2> QED BY <2>1 DEF WorkerOK, Workers
<1> HIDE DEF v, st
<1>5. Waits(v)
  BY <1>3, <1>4 DEF Waits
<1> QED BY <1>1, <1>2, <1>3, <1>4, <1>5, OneFlows

\* One instruction leaves the target standing, or is its last.
LEMMA OneStepFlows ==
  ASSUME NEW w, WorkerOK(w), Waits(w), ~w.over, w.stepping = None,
         NEW verb \in StepVerbs \ SourceSteps, NEW o \in W!OneStep(w, verb)
  PROVE  FlowsOn(w, o)
<1> DEFINE a == Say(verb, "Accepted", StatusOf(verb), "other")
           f == Say(verb, "Failed", "Paused", "other")
           m == Say(verb, "Completed", "Paused", "moved")
           s == Say(verb, "Failed", "Paused", "signal")
           e == Say(verb, "Completed", "Exited", "other")
           en == End
           v == W!Ended(w)
<1>1. \/ \E c : o = W!Out(w, <<a, f>>, c) \/ o = W!Out(w, <<a, m>>, c) \/ o = W!Out(w, <<a, s>>, c)
      \/ \E c : o = W!Out(v, <<a, e, en>>, c)
  BY SameWords DEF W!OneStep, W!GoneFails
<1>2. verb \in Verbs \cup {None}
  BY DEF Verbs, Controls
<1>3. StatusOf(verb) \in Statuses \ Tailing
  BY DEF StatusOf, Statuses, Underway, StepVerbs, SourceSteps, Tailing
<1>4. /\ "Accepted" \in Answers /\ "Completed" \in Answers /\ "Failed" \in Answers
      /\ "Paused" \in Statuses \ Tailing /\ "Exited" \in Statuses \ Tailing
      /\ "other" \in Messages /\ "moved" \in Messages /\ "signal" \in Messages
  BY DEF Answers, Statuses, Tailing, Messages
<1>5. Calm(<<a>>) /\ Calm(<<f>>) /\ Calm(<<m>>) /\ Calm(<<s>>) /\ Calm(<<e>>)
  BY <1>2, <1>3, <1>4, SayCalm
<1>6. Calm(<<en>>)
  BY OthersCalm
<1>7. Waits(v)
  BY DEF W!Ended, Waits, WorkerOK, Workers
<1> HIDE DEF a, f, m, s, e, en, v
<1>8. Calm(<<a, f>>) /\ Calm(<<a, m>>) /\ Calm(<<a, s>>) /\ Calm(<<a, e, en>>)
  BY <1>5, <1>6, CalmMore
<1> QED BY <1>1, <1>7, <1>8, CalmOn

\* A step is refused, fails, or is made.
LEMMA StepAnswerFlows ==
  ASSUME NEW w, WorkerOK(w), Waits(w), ~w.over, w.stepping = None, w.status = "Paused",
         NEW verb \in StepVerbs, NEW o \in W!StepAnswer(w, verb)
  PROVE  FlowsOn(w, o)
<1> DEFINE v == [w EXCEPT !.status = StatusOf(verb), !.stepping = verb]
           st == StatusOf(verb)
<1>1. verb \in Verbs /\ (verb \in SourceSteps => verb # "StepInstructionOver")
  BY DEF Verbs, Controls, SourceSteps
<1>2. w.held \in BOOLEAN /\ w.lost \in BOOLEAN /\ w.status \in Statuses
  BY DEF WorkerOK, Workers
<1>3. \/ o = W!Out(w, <<Say(verb, "Rejected", w.status, "other")>>, None)
      \/ o = W!Out(w, <<Say(verb, "Failed", "Paused", "other")>>, None)
      \/ verb \in SourceSteps /\ ~w.lost /\ o = W!Out(v, <<Say(verb, "Accepted", v.status, "other")>>, None)
      \/ verb \notin SourceSteps /\ o \in W!OneStep(w, verb)
      \/ verb = "StepInstructionOver" /\ ~w.lost /\ o = W!Started(w, verb)
  <2>1. W!SourceSteps = SourceSteps /\ W!StatusOf(verb) = StatusOf(verb)
    BY SameWords
  <2>2. /\ W!Rejected(w, verb) = {W!Out(w, <<Say(verb, "Rejected", w.status, "other")>>, None)}
        /\ W!Out(w, <<W!GoneFails(w, verb)>>, None) = W!Out(w, <<Say(verb, "Failed", "Paused", "other")>>, None)
        /\ W!Answered(v, verb, "Accepted") = W!Out(v, <<Say(verb, "Accepted", v.status, "other")>>, None)
    BY SameWords DEF W!Rejected, W!Answered, W!GoneFails
  <2>3. CASE ~w.held
    BY <1>2, <2>2, <2>3 DEF W!StepAnswer
  <2>4. CASE w.held /\ verb \in SourceSteps /\ w.lost
    BY <2>1, <2>2, <2>4 DEF W!StepAnswer
  <2>5. CASE w.held /\ verb \in SourceSteps /\ ~w.lost
    BY <2>1, <2>2, <2>5 DEF W!StepAnswer
  <2>6. CASE w.held /\ verb \notin SourceSteps
    BY <1>1, <2>1, <2>2, <2>6 DEF W!StepAnswer
  <2> QED BY <1>2, <2>3, <2>4, <2>5, <2>6
<1>4. /\ "Rejected" \in Answers /\ "Failed" \in Answers /\ "Accepted" \in Answers
      /\ "Paused" \in Statuses /\ "Paused" \notin Tailing
  BY DEF Answers, Statuses, Tailing
<1>5. st \in Statuses /\ (verb \in SourceSteps => st \notin Tailing)
  BY DEF StatusOf, Statuses, Underway, StepVerbs, SourceSteps, Tailing
<1>6. v.status = st /\ v.stepping = verb /\ v.held = w.held /\ v.lost = w.lost /\ v.over = w.over
  <2> HIDE DEF st
  <2>1. v = [w EXCEPT !.status = st, !.stepping = verb]
    BY DEF st
  <2> HIDE DEF v
  <2> QED BY <2>1 DEF WorkerOK, Workers
<1>7. ASSUME ~w.lost, verb \in SourceSteps,
             o = W!Out(v, <<Say(verb, "Accepted", v.status, "other")>>, None)
      PROVE  FlowsOn(w, o)
  <2>1. w.held
    BY <1>4, <1>2 DEF Waits, WorkerOK
  <2> HIDE DEF v
  <2>2. Waits(v)
    BY <1>6, <1>7, <2>1 DEF Waits, st
  <2> HIDE DEF st
  <2> QED BY <1>1, <1>4, <1>5, <1>6, <1>7, <2>2, OneFlows
<1> HIDE DEF v, st
<1>8. CASE o = W!Out(w, <<Say(verb, "Rejected", w.status, "other")>>, None)
  BY <1>1, <1>2, <1>4, <1>8, OneFlows
<1>9. CASE o = W!Out(w, <<Say(verb, "Failed", "Paused", "other")>>, None)
  BY <1>1, <1>4, <1>9, OneFlows
<1> QED BY <1>3, <1>7, <1>8, <1>9, OneStepFlows, StartedFlows

\* A step to the next event starts from a pause; nobody is told that there is none.
LEMMA StepEventFlows ==
  ASSUME NEW w, WorkerOK(w), Waits(w), ~w.over, w.stepping = None, w.status = "Paused",
         NEW o \in W!StepEventAnswer(w)
  PROVE  FlowsOn(w, o)
<1> DEFINE verb == "StepAllocatorEvent"
<1>1. \/ o = W!Out(w, <<>>, None)
      \/ o = W!Out(w, <<Say(verb, "Failed", "Paused", "other")>>, None)
      \/ ~w.lost /\ o = W!Started(w, verb)
  BY SameWords DEF W!StepEventAnswer, W!GoneFails
<1>2. verb \in Verbs \cup {None} /\ verb \in {"StepAllocatorEvent", "StepInstructionOver"}
  BY DEF Verbs, Controls
<1>3. "Failed" \in Answers /\ "Paused" \in Statuses /\ "Paused" \notin Tailing
  BY DEF Answers, Statuses, Tailing
<1> HIDE DEF verb
<1>4. CASE o = W!Out(w, <<>>, None)
  BY <1>4, OthersCalm, CalmOn
<1>5. CASE o = W!Out(w, <<Say(verb, "Failed", "Paused", "other")>>, None)
  BY <1>2, <1>3, <1>5, OneFlows
<1>6. CASE ~w.lost /\ o = W!Started(w, verb)
  BY <1>2, <1>6, StartedFlows
<1> QED BY <1>1, <1>4, <1>5, <1>6

\* A command that is refused is told the status there is.
LEMMA RejectedFlows ==
  ASSUME NEW w, WorkerOK(w), Waits(w), NEW verb \in Verbs, NEW o, o = W!Answered(w, verb, "Rejected")
  PROVE  FlowsOn(w, o)
<1>1. o = W!Out(w, <<Say(verb, "Rejected", w.status, "other")>>, None)
  BY SameWords DEF W!Answered
<1>2. "Rejected" \in Answers /\ w.status \in Statuses
  BY DEF Answers, WorkerOK, Workers
<1>3. w.lost => w.status \notin Tailing
  BY DEF Waits, Tailing
<1> QED BY <1>1, <1>2, <1>3, OneFlows

\* Whatever a control command is answered with, unless it is a stop.
LEMMA ControlFlows ==
  ASSUME NEW w, WorkerOK(w), Waits(w), ~w.over, w.stepping = None,
         NEW verb \in Controls \ {"Stop"}, NEW o \in W!Answer(w, verb)
  PROVE  FlowsOn(w, o)
<1>1. verb \in Verbs
  BY DEF Verbs
<1>2. W!Valid(w.status, verb) = Valid(w.status, verb)
  BY SameWords
<1>3. CASE ~Valid(w.status, verb)
  <2>1. o = W!Answered(w, verb, "Rejected")
    BY <1>2, <1>3 DEF W!Answer, W!Rejected
  <2> QED BY <1>1, <2>1, RejectedFlows
<1>4. CASE Valid(w.status, verb)
  <2>1. CASE verb = "Pause"
    <3> DEFINE v == [w EXCEPT !.pending = @ \cup {"Pause"}]
    <3>1. o = W!Out(v, <<Say("Pause", "Accepted", v.status, "other")>>, None)
      BY <1>2, <1>4, <2>1, SameWords DEF W!Answer, W!PauseAnswer, W!Answered
    <3>2. Waits(v) /\ v.status = w.status
      BY DEF Waits, WorkerOK, Workers
    <3>3. "Pause" \in Verbs \cup {None} /\ "Accepted" \in Answers /\ w.status \in Statuses
      BY DEF Verbs, Controls, Answers, WorkerOK, Workers
    <3>4. w.lost => w.status \notin Tailing
      BY DEF Waits, Tailing
    <3> HIDE DEF v
    <3> QED BY <3>1, <3>2, <3>3, <3>4, OneFlows
  <2>2. CASE verb = "Resume"
    <3>1. w.status = "Paused" /\ o \in W!ResumeAnswer(w)
      BY <1>2, <1>4, <2>2 DEF W!Answer, Valid
    <3>2. CASE w.held
      <4>1. o \in W!LetGo(w, "Resume") /\ "Resume" \in Verbs
        BY <3>1, <3>2 DEF W!ResumeAnswer, Verbs, Controls
      <4> QED BY <3>1, <3>2, <4>1, LetGoFlows
    <3>3. CASE ~w.held
      <4>1. o = W!Out(w, <<>>, None)
        BY <3>1, <3>3 DEF W!ResumeAnswer
      <4> QED BY <4>1, OthersCalm, CalmOn
    <3> QED BY <3>2, <3>3
  <2>3. CASE verb = "Continue"
    <3>1. w.status \in {"Paused", "SteppingToNextAllocatorEvent"} /\ o \in W!ContinueAnswer(w)
      BY <1>2, <1>4, <2>3 DEF W!Answer, Valid
    <3> QED BY <3>1, ContinueFlows
  <2>4. CASE verb = "StepAllocatorEvent"
    <3>1. w.status = "Paused" /\ o \in W!StepEventAnswer(w)
      BY <1>2, <1>4, <2>4 DEF W!Answer, Valid
    <3> QED BY <3>1, StepEventFlows
  <2>5. CASE verb \in StepVerbs
    <3>1. w.status = "Paused" /\ o \in W!StepAnswer(w, verb)
      BY <1>2, <1>4, <2>5 DEF W!Answer, Valid, StepVerbs, SourceSteps
    <3> QED BY <2>5, <3>1, StepAnswerFlows
  <2> QED BY <2>1, <2>2, <2>3, <2>4, <2>5 DEF Controls
<1> QED BY <1>3, <1>4

\* A reply to a command that leaves the worker paused as it is.
LEMMA ReplyFlows ==
  ASSUME NEW w, WorkerOK(w), Waits(w), w.status = "Paused", NEW verb \in Edits \cup Inspections,
         NEW answer \in {"Completed", "Failed"}, NEW said, Calm(said), NEW o,
         o = W!Out(w, <<Say(verb, "Accepted", w.status, "other")>> \o said
                        \o <<Say(verb, answer, w.status, "other")>>, None)
  PROVE  FlowsOn(w, o)
<1> DEFINE p == <<Say(verb, "Accepted", w.status, "other")>>
           q == <<Say(verb, answer, w.status, "other")>>
<1>1. /\ verb \in Verbs \cup {None} /\ answer \in Answers /\ "Accepted" \in Answers
      /\ w.status \in Statuses /\ w.status \notin Tailing
  BY DEF Verbs, Answers, Statuses, Tailing
<1>2. Calm(p) /\ Calm(q)
  BY <1>1, SayOther
<1>3. o = W!Out(w, (p \o said) \o q, None)
  OBVIOUS
<1> HIDE DEF p, q
<1> QED BY <1>2, <1>3, CalmJoin, CalmOn

-----------------------------------------------------------------------------
(* Following the newest event: the interface                               *)

\* What the interface believes and what it was told last, t: a command that it sent
\* since lets a paused target go.
Led(status, t) ==
  \/ status = t
  \/ t = "Paused" /\ status \in {"Running"} \cup Underway
  \/ t = "SteppingToNextAllocatorEvent" /\ status = "Running"

\* Who follows and has not selected the newest event was told of something else than
\* of a target that runs, or paused.
Leads(a, t) ==
  /\ t \in Statuses /\ Led(a.status, t)
  /\ a.follow /\ a.selected # LastEvent(a) => t \notin Tailing \cup {"Paused"}

\* It follows the newest event.
LEMMA LeadsTail ==
  ASSUME NEW a, NEW t, Leads(a, t), a.follow, a.status \in Tailing
  PROVE  a.selected = LastEvent(a)
BY DEF Leads, Led, Tailing

\* No key makes it follow without selecting the newest event.
LEMMA HandledLeads ==
  ASSUME NEW a, NEW t, Leads(a, t), NEW b, NEW I, Handled(a, b, I)
  PROVE  Leads(b, t)
<1>1. b.status = a.status /\ b.events = a.events
  BY DEF Handled, Changes, Touched, Fields
<1>2. LastEvent(b) = LastEvent(a)
  BY <1>1 DEF LastEvent
<1>3. b.follow => b.selected = LastEvent(b) \/ (a.follow /\ b.selected = a.selected)
  BY DEF Handled, FollowKept
<1> QED BY <1>1, <1>2, <1>3 DEF Leads

\* Nor does a command that may be sent.
LEMMA SentLeads ==
  ASSUME NEW a, NEW t, Leads(a, t), NEW I, App(a, I), NEW verb \in Verbs, verb # "Stop",
         Valid(a.status, verb)
  PROVE  Leads(Sent(a, verb), t)
<1> DEFINE b == Sent(a, verb)
<1>1. /\ FollowKept(a, b) /\ Changes(a, b, {"status", "follow", "before", "selected"})
      /\ b.status = StatusSent(a.status, verb)
  BY SentRight
<1> HIDE DEF b
<1>2. b.events = a.events
  BY <1>1 DEF Changes, Fields
<1>3. LastEvent(b) = LastEvent(a)
  BY <1>2 DEF LastEvent
<1>4. b.follow => b.selected = LastEvent(b) \/ (a.follow /\ b.selected = a.selected)
  BY <1>1 DEF FollowKept
<1>5. Led(b.status, t)
  <2>1. CASE verb = "Continue"
    <3>1. b.status = "Running" /\ a.status \in {"Paused", "SteppingToNextAllocatorEvent"}
      BY <1>1, <2>1 DEF StatusSent, Valid
    <3> QED BY <3>1 DEF Leads, Led
  <2>2. CASE verb \in {"StepAllocatorEvent"} \cup StepVerbs
    <3>1. b.status = StatusOf(verb) /\ a.status = "Paused"
      BY <1>1, <2>2 DEF StatusSent, Valid, StepVerbs, SourceSteps
    <3>2. StatusOf(verb) \in Underway
      BY <2>2 DEF Underway
    <3>3. "Paused" \notin {"Running"} \cup Underway
      BY DEF Underway, StatusOf, StepVerbs, SourceSteps
    <3> QED BY <3>1, <3>2, <3>3 DEF Leads, Led
  <2>3. CASE verb # "Continue" /\ verb \notin {"StepAllocatorEvent"} \cup StepVerbs
    <3>1. b.status = a.status
      BY <1>1, <2>3 DEF StatusSent
    <3> QED BY <3>1 DEF Leads
  <2> QED BY <2>1, <2>2, <2>3
<1>6. Leads(b, t)
  BY <1>3, <1>4, <1>5 DEF Leads
<1> QED BY <1>6 DEF b

\* Nor does an update that comes in order.
LEMMA TakenLeads ==
  ASSUME NEW a, NEW t, Leads(a, t), NEW u, Ready(t, u), NEW b, Reads(a, b, u),
         NEW y \in Statuses, Now(StatusTold(u), t, y)
  PROVE  Leads(b, y)
<1>1. Now(StatusTold(u), a.status, b.status) /\ Followed(a, b, u)
  BY DEF Reads
<1>2. Led(b.status, y)
  BY <1>1 DEF Now, Leads, Led
<1>3. ASSUME b.follow, b.selected # LastEvent(b) PROVE y \notin Tailing \cup {"Paused"}
  <2>1. CASE u.kind = "Event"
    <3>1. StatusTold(u) = {}
      BY <2>1 DEF StatusTold
    <3>2. y = t /\ b.status = a.status
      BY <1>1, <3>1 DEF Now
    <3>3. a.status \notin Tailing
      BY <1>1, <1>3, <2>1 DEF Followed, Tailing
    <3>4. t \in Reporting
      BY <2>1 DEF Ready
    <3> QED BY <3>2, <3>3, <3>4 DEF Leads, Led, Reporting, Tailing
  <2>2. CASE u.kind # "Event"
    <3>1. a.follow /\ b.selected = a.selected /\ b.events = a.events /\ "Paused" \notin StatusTold(u)
      BY <1>1, <1>3, <2>2 DEF Followed
    <3>2. t \notin Tailing \cup {"Paused"}
      BY <1>3, <3>1 DEF Leads, LastEvent
    <3> QED BY <3>1, <3>2 DEF Now, Ready
  <2> QED BY <2>1, <2>2
<1> QED BY <1>2, <1>3 DEF Leads

-----------------------------------------------------------------------------
(* What holds all along                                                    *)

Spends == [keys : Nat, stops : Nat, events : Nat]

\* Every part is of its kind, and points at what there is.
Sane ==
  /\ setup \in Setups /\ App(app, Lines) /\ WorkerOK(worker) /\ spent \in Spends
  /\ commands \in Seq(Commands(Lines)) /\ registry \in Seq(Breakpoints) /\ nextId \in Nat
  /\ closed \in BOOLEAN

\* What the updates that are still to be read tell is what the interface will believe;
\* nobody leaves or is told of the end before the trace is over.
Believed(S, R, L, E) ==
  /\ Tells(updates, S, R, L, E)
  /\ E # {} \/ app.ended \/ closed \/ left = "key" => worker.over
  /\ worker.lost => cause = "unexplained"
  /\ left = None =>
       /\ ~failedEdit => Now(L, app.list, registry)
       /\ worker.held /\ ~worker.lost /\ cause # "unexplained" => Now(R, app.reason, cause)
       /\ ~worker.over /\ ~worker.lost /\ spent.stops <= 1 /\ commands = <<>>
            => Now(S, app.status, worker.status)
Agreed == \E S, R, L, E : Believed(S, R, L, E)

\* A stop that is on its way, or being obeyed, was sent.
NoStop(q)  == \A i \in DOMAIN q : q[i].verb # "Stop"
OneStop(q) == \A i, j \in DOMAIN q : q[i].verb = "Stop" /\ q[j].verb = "Stop" => i = j
StopsSent ==
  /\ spent.stops = 0 => NoStop(commands) /\ ~worker.stopping
  /\ spent.stops = 1 => OneStop(commands) /\ (worker.stopping => NoStop(commands))
  /\ spent.stops <= 1 => Held(worker)

Safe == Sane /\ StopsSent /\ Agreed

\* A command that is sent is put last; the one that is read was first.
LEMMA StopsQueued ==
  ASSUME NEW C, NEW q \in Seq(C), NEW c \in C
  PROVE  /\ NoStop(q) => OneStop(q)
         /\ c.verb # "Stop" => (NoStop(q) => NoStop(Append(q, c)))
                               /\ (OneStop(q) => OneStop(Append(q, c)))
         /\ NoStop(q) => OneStop(Append(q, c))
<1>1. /\ Len(q) \in Nat /\ DOMAIN q = 1 .. Len(q) /\ DOMAIN Append(q, c) = 1 .. Len(q) + 1
      /\ \A i \in 1 .. Len(q) : Append(q, c)[i] = q[i]
      /\ Append(q, c)[Len(q) + 1] = c
  OBVIOUS
<1>2. \A i \in 1 .. Len(q) + 1 : i \in 1 .. Len(q) \/ i = Len(q) + 1
  BY <1>1
<1> QED BY <1>1, <1>2 DEF NoStop, OneStop

\* Of the commands that are left as few are stops; after the only one there is none.
LEMMA StopsRead ==
  ASSUME NEW C, NEW q \in Seq(C), q # <<>>
  PROVE  /\ NoStop(q) => NoStop(Tail(q)) /\ Head(q).verb # "Stop"
         /\ OneStop(q) => OneStop(Tail(q)) /\ (Head(q).verb = "Stop" => NoStop(Tail(q)))
<1>1. /\ Len(q) \in Nat /\ Len(q) > 0 /\ DOMAIN q = 1 .. Len(q) /\ Head(q) = q[1]
      /\ DOMAIN Tail(q) = 1 .. Len(q) - 1
      /\ \A i \in 1 .. Len(q) - 1 : Tail(q)[i] = q[i + 1]
  OBVIOUS
<1>2. \A i \in 1 .. Len(q) - 1 : i + 1 \in 1 .. Len(q) /\ i + 1 # 1
  BY <1>1
<1>3. 1 \in 1 .. Len(q)
  BY <1>1
<1>4. NoStop(q) => NoStop(Tail(q)) /\ Head(q).verb # "Stop"
  BY <1>1, <1>2, <1>3 DEF NoStop
<1>5. ASSUME OneStop(q), NEW i \in DOMAIN Tail(q), NEW j \in DOMAIN Tail(q),
             Tail(q)[i].verb = "Stop", Tail(q)[j].verb = "Stop"
      PROVE  i = j
  <2>1. i + 1 = j + 1
    BY <1>1, <1>2, <1>5 DEF OneStop
  <2> QED BY <1>1, <2>1
<1>6. ASSUME OneStop(q), Head(q).verb = "Stop" PROVE NoStop(Tail(q))
  BY <1>1, <1>2, <1>3, <1>6 DEF NoStop, OneStop
<1> QED BY <1>4, <1>5, <1>6 DEF OneStop

\* A session opens with nothing to tell.
LEMMA InitSafe == Init => Safe
<1> SUFFICES ASSUME Init PROVE Safe
  OBVIOUS
<1>1. Sane
  <2>1. App(app, Lines)
    <3>1. Blank \in Lines
      BY DEF Lines
    <3> DEFINE a == Opened
    <3>2. DOMAIN a = Fields
      BY DEF Opened, Fields
    <3>3. /\ a.status = "Running" /\ a.follow = TRUE /\ a.before = None /\ a.events = 0
          /\ a.selected = 0 /\ a.ended = FALSE /\ a.input = Blank /\ a.list = <<>> /\ a.row = None
          /\ a.layout = None /\ a.chunk = None /\ a.user = None /\ a.words = None /\ a.cell = None
          /\ a.request = None /\ a.history = <<>> /\ a.recalled = None
      BY DEF Opened
    <3> HIDE DEF a
    <3>4. EventOK(a) /\ RowOK(a) /\ ChunkOK(a) /\ WordOK(a) /\ LineOK(a, Lines)
      <4>1. EventOK(a) /\ RowOK(a) /\ ChunkOK(a) /\ WordOK(a)
        BY <3>3 DEF EventOK, RowOK, ChunkOK, WordOK, InRange, InShown, LastEvent
      <4>2. None \in Places(Lines)
        BY DEF Places
      <4>3. \A Q : <<>> \in Seq(Q)
        OBVIOUS
      <4> QED BY <3>1, <3>3, <4>1, <4>2, <4>3 DEF LineOK, InRange
    <3>5. App(a, Lines)
      BY <3>2, <3>3, <3>4 DEF App, Statuses
    <3> QED BY <3>5 DEF Init, a
  <2>2. WorkerOK(worker)
    <3> DEFINE w == W!Launched
    <3>1. w = [status |-> "Running", held |-> FALSE, pending |-> {}, stopping |-> FALSE,
               stepping |-> None, lost |-> FALSE, over |-> FALSE]
      BY DEF W!Launched
    <3>2. w \in Workers
      BY <3>1 DEF Workers, Statuses
    <3>3. WorkerOK(w)
      BY <3>1, <3>2 DEF WorkerOK
    <3> QED BY <3>3 DEF Init, w
  <2>3. \A Q : <<>> \in Seq(Q)
    OBVIOUS
  <2>4. spent \in Spends /\ nextId \in Nat /\ closed \in BOOLEAN /\ setup \in Setups
        /\ commands = <<>> /\ registry = <<>>
    BY DEF Init, Spends
  <2> QED BY <2>1, <2>2, <2>3, <2>4 DEF Sane
<1>2. StopsSent
  BY DEF Init, StopsSent, NoStop, OneStop, Held, W!Launched
<1>3. Believed({}, {}, {}, {})
  BY TellsNone, NoneIsNoWay DEF Init, Believed, Now, Opened, W!Launched
<1> QED BY <1>1, <1>2, <1>3 DEF Safe, Agreed

-----------------------------------------------------------------------------
(* A step of the worker keeps it so                                        *)

\* What a step tells of the breakpoints is the list there is now, or the one there was
\* told already and stands.
Listed(L) == ~failedEdit' => L = {registry'} \/ (~failedEdit /\ Now(L, registry, registry'))

\* The updates of a step, put behind the others, tell what came of it.
LEMMA BecomesAgreed ==
  ASSUME WorkerOK(worker), Agreed, ~worker.over, NEW o, Becomes(o),
         NEW S2, NEW R2, NEW L2, NEW E2, Tells(o.said, S2, R2, L2, E2),
         Fits(worker, o.worker, S2, R2, L2, E2, o.cause, registry'),
         UNCHANGED <<app, closed, left>>,
         Listed(L2),
         \/ commands' = commands
         \/ spent.stops <= 1 /\ ~o.worker.lost /\ ~o.worker.over => S2 = {o.worker.status}
  PROVE  Agreed' /\ WorkerOK(worker')
<1>1. PICK S, R, L, E : Believed(S, R, L, E)
  BY DEF Agreed
<1>2. worker.lost \in BOOLEAN /\ worker.over \in BOOLEAN /\ worker.held \in BOOLEAN
  BY DEF WorkerOK, Workers
<1>3. WorkerOK(o.worker) /\ WorkerOK(W!Fails(o.worker).worker)
  BY FailsFit DEF Fits
<1>4. WorkerOK(worker')
  BY <1>3 DEF Becomes
<1>5. spent'.stops = spent.stops
  BY DEF Becomes
<1>6. W!Fails(o.worker).worker.over = TRUE /\ W!Fails(o.worker).worker.lost = FALSE
  BY <1>3 DEF W!Fails, W!Out, WorkerOK, Workers
<1>7. ~worker.lost \/ cause = "unexplained"
  BY <1>1 DEF Believed
<1>8. worker'.lost => cause' = "unexplained"
  <2>1. worker' = o.worker \/ worker' = W!Fails(o.worker).worker
    BY DEF Becomes
  <2>2. cause' = IF o.cause = None THEN cause ELSE o.cause
    BY DEF Becomes
  <2>3. o.worker.lost => (worker.lost /\ o.cause = None) \/ o.cause = "unexplained"
    BY DEF Fits
  <2>4. CASE worker' = o.worker
    BY <1>7, <2>2, <2>3, <2>4, NoneIsNothing DEF Causes
  <2>5. CASE worker' = W!Fails(o.worker).worker
    BY <1>6, <2>5
  <2> QED BY <2>1, <2>4, <2>5
<1>9. CASE left = None
  <2>1. worker' = o.worker /\ updates' = updates \o o.said
    BY <1>9 DEF Becomes
  <2>2. Tells(updates', Over(S, S2), Over(R, R2), Over(L, L2), Over(E, E2))
    BY <1>1, <2>1, TellsJoin DEF Believed
  <2>3. Over(E, E2) # {} \/ app'.ended \/ closed' \/ left' = "key" => worker'.over
    BY <1>1, <2>1 DEF Believed, Fits, Over
  <2>4. ~failedEdit' => Now(Over(L, L2), app'.list, registry')
    <3>1. L2 = {registry'} => Now(Over(L, L2), app'.list, registry')
      BY DEF Now, Over
    <3> QED BY <1>1, <1>9, <3>1, NowJoin DEF Believed, Listed
  <2>5. worker'.held /\ ~worker'.lost /\ cause' # "unexplained" => Now(Over(R, R2), app'.reason, cause')
    <3> SUFFICES ASSUME worker'.held, ~worker'.lost, cause' # "unexplained"
                 PROVE  Now(Over(R, R2), app.reason, cause')
      OBVIOUS
    <3>1. CASE o.cause = None
      <4>1. cause' = cause /\ ~worker.lost /\ worker.held /\ R2 = {}
        BY <1>7, <2>1, <3>1 DEF Becomes, Fits
      <4> QED BY <1>1, <1>9, <4>1 DEF Believed, Over
    <3>2. CASE o.cause # None
      <4>1. cause' = o.cause /\ R2 = {o.cause}
        BY <2>1, <3>2 DEF Becomes, Fits
      <4> QED BY <4>1 DEF Now, Over
    <3> QED BY <3>1, <3>2
  <2>6. ~worker'.over /\ ~worker'.lost /\ spent'.stops <= 1 /\ commands' = <<>>
          => Now(Over(S, S2), app'.status, worker'.status)
    <3> SUFFICES ASSUME ~worker'.over, ~worker'.lost, spent.stops <= 1, commands' = <<>>
                 PROVE  Now(Over(S, S2), app.status, worker'.status)
      BY <1>5
    <3>1. CASE commands' = commands
      <4>1. ~worker.lost
        BY <2>1 DEF Fits
      <4>2. Now(S, app.status, worker.status) /\ Now(S2, worker.status, worker'.status)
        BY <1>1, <1>9, <2>1, <3>1, <4>1 DEF Believed, Fits
      <4> QED BY <4>2, NowJoin
    <3>2. CASE S2 = {worker'.status}
      BY <3>2 DEF Now, Over
    <3> QED BY <2>1, <3>1, <3>2
  <2>7. Believed(Over(S, S2), Over(R, R2), Over(L, L2), Over(E, E2))'
    BY <1>8, <2>2, <2>3, <2>4, <2>5, <2>6 DEF Believed
  <2> QED BY <1>4, <2>7 DEF Agreed
<1>10. CASE left # None
  <2>1. updates' = updates /\ (worker' = o.worker \/ worker' = W!Fails(o.worker).worker)
    BY <1>10 DEF Becomes
  <2>2. E # {} \/ app'.ended \/ closed' \/ left' = "key" => worker'.over
    BY <1>1 DEF Believed
  <2>3. Believed(S, R, L, E)'
    BY <1>1, <1>8, <1>10, <2>1, <2>2 DEF Believed
  <2> QED BY <1>4, <2>3 DEF Agreed
<1> QED BY <1>9, <1>10

\* Whoever stands by for a step stands by when nobody listens to it.
LEMMA BecomesStands ==
  ASSUME NEW o, WorkerOK(o.worker), Becomes(o), spent \in Spends, NEW w
  PROVE  /\ Stands(w, o.worker) => Stands(w, worker')
         /\ \A verb : AnswerStands(w, o.worker, verb) => AnswerStands(w, worker', verb)
         /\ spent' \in Spends /\ spent'.stops = spent.stops
<1>1. worker' = o.worker \/ worker' = W!Fails(o.worker).worker
  BY DEF Becomes
<1>2. Stands(o.worker, worker')
  BY <1>1, FailsFit DEF Stands
<1>3. spent' \in Spends /\ spent'.stops = spent.stops
  BY DEF Becomes, Spends
<1> QED BY <1>2, <1>3 DEF Stands, AnswerStands

\* A step that the worker takes by itself fits.
LEMMA WorkerStepFits ==
  ASSUME Sane, WorkerStep
  PROVE  \E o : /\ Becomes(o) /\ Fit(worker, o, registry) /\ Stands(worker, o.worker)
                /\ (Waits(worker) /\ ~worker.stopping => FlowsOn(worker, o))
                /\ ~worker.over
                /\ failedEdit' = (failedEdit /\ ~Says(o, "UserBreakpoints"))
<1>1. PICK report \in Reports, user \in setup.matches :
        \E o \in W!Own(worker, registry, report, Match(user)) :
          Becomes(o) /\ failedEdit' = (failedEdit /\ ~Says(o, "UserBreakpoints"))
  BY DEF WorkerStep
<1>2. PICK o \in W!Own(worker, registry, report, Match(user)) :
        Becomes(o) /\ failedEdit' = (failedEdit /\ ~Says(o, "UserBreakpoints"))
  BY <1>1
<1>3. setup.layouts \subseteq Seq(Nat) /\ setup.matches \subseteq Nat \cup {None}
  BY SetupsTyped DEF Sane
<1>4. Tells(report, {}, {}, {}, {})
  <2>1. Tells(<<Event>>, {}, {}, {}, {})
    BY OthersTell
  <2>2. ASSUME NEW l \in setup.layouts PROVE Tells(<<Event, Layout(l)>>, {}, {}, {}, {})
    <3>1. Tells(<<Layout(l)>>, {}, {}, {}, {})
      BY <1>3, OthersTell
    <3>2. Tells(<<Event, Layout(l)>>, Over({}, {}), Over({}, {}), Over({}, {}), Over({}, {}))
      BY <2>1, <3>1, TellsTwo
    <3> QED BY <3>2 DEF Over
  <2> QED BY <2>1, <2>2 DEF Reports
<1>5. Waits(worker) /\ ~worker.stopping => FlowsOn(worker, o)
  BY <1>2, <1>3, <1>4, OwnFlows DEF Sane
<1> QED BY <1>2, <1>3, <1>4, <1>5, OwnFits DEF Sane

\* Updates that say a list tell one.
LEMMA SaysTells ==
  ASSUME NEW o, NEW S, NEW R, NEW L, NEW E, Tells(o.said, S, R, L, E),
         Says(o, "UserBreakpoints")
  PROVE  L # {}
<1>1. PICK i \in DOMAIN o.said : o.said[i].kind = "UserBreakpoints"
  BY DEF Says
<1>2. o.said[i] \in News
  BY <1>1 DEF Tells
<1>3. OnList[o.said[i]] # {}
  BY <1>1, <1>2 DEF OnList, ListTold
<1> QED BY <1>3 DEF Tells, Sums, Silent

\* It keeps it all.
LEMMA WorkerStepSafe == Safe /\ WorkerStep => Safe'
<1> SUFFICES ASSUME Safe, WorkerStep PROVE Safe'
  OBVIOUS
<1>1. PICK o : /\ Becomes(o) /\ Fit(worker, o, registry) /\ Stands(worker, o.worker)
               /\ ~worker.over
               /\ failedEdit' = (failedEdit /\ ~Says(o, "UserBreakpoints"))
  BY WorkerStepFits DEF Safe
<1>2. PICK S2, R2, L2, E2 :
        Tells(o.said, S2, R2, L2, E2) /\ Fits(worker, o.worker, S2, R2, L2, E2, o.cause, registry)
  BY <1>1 DEF Fit
<1>3. /\ UNCHANGED <<app, closed, left, commands, registry>>
      /\ UNCHANGED <<setup, nextId>>
  BY DEF WorkerStep
<1>4. Listed(L2)
  <2>1. Now(L2, registry, registry') /\ (L2 = {} \/ L2 = {registry'})
    BY <1>2, <1>3 DEF Fits, Now
  <2>2. ~failedEdit' /\ failedEdit => L2 # {}
    BY <1>1, <1>2, SaysTells
  <2> QED BY <2>1, <2>2 DEF Listed
<1>5. Agreed' /\ WorkerOK(worker')
  BY <1>1, <1>2, <1>3, <1>4, BecomesAgreed DEF Safe, Sane
<1>6. Stands(worker, worker') /\ spent' \in Spends /\ spent'.stops = spent.stops
  BY <1>1, <1>2, BecomesStands DEF Safe, Sane, Fits
<1>7. Sane'
  BY <1>3, <1>5, <1>6 DEF Safe, Sane
<1>8. StopsSent'
  BY <1>3, <1>6 DEF Safe, StopsSent, Stands, NoStop, OneStop
<1> QED BY <1>5, <1>7, <1>8 DEF Safe

\* A stop is obeyed once.
LEMMA ReadStops ==
  ASSUME Sane, StopsSent, commands # <<>>, commands' = Tail(commands), spent'.stops = spent.stops,
         AnswerStands(worker, worker', Head(commands).verb)
  PROVE  StopsSent'
<1>1. /\ NoStop(commands) => NoStop(Tail(commands)) /\ Head(commands).verb # "Stop"
      /\ OneStop(commands) => OneStop(Tail(commands))
                              /\ (Head(commands).verb = "Stop" => NoStop(Tail(commands)))
  BY StopsRead DEF Sane
<1>2. spent.stops \in Nat /\ worker.stopping \in BOOLEAN
  BY DEF Sane, Spends, WorkerOK, Workers
<1>3. spent.stops = 0 => NoStop(commands)' /\ ~worker'.stopping
  BY <1>1, <1>2 DEF StopsSent, AnswerStands
<1>4. spent.stops = 1 => OneStop(commands)' /\ (worker'.stopping => NoStop(commands)')
  BY <1>1, <1>2 DEF StopsSent, AnswerStands
<1>5. spent.stops <= 1 => Held(worker)'
  <2> SUFFICES ASSUME spent.stops <= 1 PROVE Held(worker')
    OBVIOUS
  <2>1. Head(commands).verb = "Stop" => ~worker.stopping
    BY <1>1, <1>2 DEF StopsSent
  <2> QED BY <2>1 DEF StopsSent, AnswerStands
<1> QED BY <1>3, <1>4, <1>5 DEF StopsSent

\* A reply to a command that leaves the worker as it is.
LEMMA ReplyFits ==
  ASSUME NEW w, WorkerOK(w), ~w.over, w.status = "Paused", NEW verb \in Edits \cup Inspections,
         NEW answer \in {"Completed", "Failed"}, NEW said, NEW L, Tells(said, {}, {}, L, {}),
         NEW reg, L = {} \/ L = {reg}, NEW o,
         o = W!Out(w, <<Say(verb, "Accepted", w.status, "other")>> \o said
                        \o <<Say(verb, answer, w.status, "other")>>, None)
  PROVE  /\ Tells(o.said, {w.status}, {}, L, {})
         /\ Fits(w, o.worker, {w.status}, {}, L, {}, o.cause, reg)
         /\ AnswerStands(w, o.worker, verb)
<1> DEFINE p == <<Say(verb, "Accepted", w.status, "other")>>
           q == <<Say(verb, answer, w.status, "other")>>
<1>1. /\ verb \in Verbs \cup {None} /\ verb \notin {"Pause", "Stop"} /\ answer \in Answers
      /\ "Accepted" \in Answers /\ "Paused" \in Statuses
  BY DEF Verbs, Edits, Inspections, Answers, Statuses
<1>2. Tells(p, {w.status}, {}, {}, {}) /\ Tells(q, {w.status}, {}, {}, {})
  BY <1>1, SayQuiet
<1>3. o.said = p \o said \o q /\ o.worker = w /\ o.cause = None
  BY DEF W!Out
<1> HIDE DEF p, q
<1>4. Tells(p \o said, Over({w.status}, {}), Over({}, {}), Over({}, L), Over({}, {}))
  BY <1>2, TellsJoin
<1>5. Tells(p \o said, {w.status}, {}, L, {})
  BY <1>4 DEF Over
<1>6. Tells((p \o said) \o q, Over({w.status}, {w.status}), Over({}, {}), Over(L, {}), Over({}, {}))
  BY <1>2, <1>5, TellsJoin
<1>7. Tells(o.said, {w.status}, {}, L, {})
  BY <1>3, <1>6 DEF Over
<1>8. Fits(w, w, {w.status}, {}, L, {}, None, reg)
  BY DEF Fits, Now
<1> QED BY <1>1, <1>3, <1>7, <1>8 DEF AnswerStands

\* What an edit makes of the registry is a registry.
LEMMA EditedRight ==
  ASSUME Sane, NEW c \in Commands(Lines), c.verb \in Edits, Known(c)
  PROVE  Edited(c) \in Seq(Breakpoints)
<1>1. /\ Len(registry) \in Nat /\ DOMAIN registry = 1 .. Len(registry)
      /\ \A i \in DOMAIN registry : registry[i] \in Breakpoints
      /\ registry \in Seq(Breakpoints) /\ nextId \in Nat
  BY DEF Sane
<1>2. CASE c.verb = "AddUserBreakpoint"
  <2>1. [id |-> nextId, enabled |-> TRUE] \in Breakpoints
    BY <1>1 DEF Breakpoints
  <2> QED BY <1>1, <1>2, <2>1 DEF Edited
<1>3. CASE c.verb # "AddUserBreakpoint"
  <2>1. PICK i \in DOMAIN registry : registry[i].id = c.id
    BY <1>3 DEF Known
  <2>2. c.id \in Nat
    BY <1>1, <2>1 DEF Breakpoints
  <2>3. ASSUME NEW flag \in BOOLEAN PROVE Flagged(c.id, flag) \in Seq(Breakpoints)
    <3>1. \A j \in DOMAIN registry :
            (IF registry[j].id = c.id THEN [id |-> c.id, enabled |-> flag] ELSE registry[j]) \in Breakpoints
      BY <1>1, <2>2, <2>3 DEF Breakpoints
    <3>2. Flagged(c.id, flag) \in [1 .. Len(registry) -> Breakpoints]
      BY <1>1, <3>1 DEF Flagged
    <3> QED BY <1>1, <3>2
  <2>4. RemoveAt(registry, IdAt(c.id)) \in Seq(Breakpoints)
    <3>1. IdAt(c.id) \in DOMAIN registry
      BY <2>1 DEF IdAt
    <3> DEFINE j == IdAt(c.id)
    <3>2. j \in 1 .. Len(registry)
      BY <1>1, <3>1
    <3> HIDE DEF j
    <3>3. /\ SubSeq(registry, 1, j - 1) \in Seq(Breakpoints)
          /\ SubSeq(registry, j + 1, Len(registry)) \in Seq(Breakpoints)
      BY <1>1, <3>2
    <3>4. SubSeq(registry, 1, j - 1) \o SubSeq(registry, j + 1, Len(registry)) \in Seq(Breakpoints)
      BY <3>3
    <3> QED BY <3>4 DEF RemoveAt, j
  <2> QED BY <1>3, <2>3, <2>4 DEF Edited
<1> QED BY <1>2, <1>3

\* What a command that is read is answered with.
Heard(o) ==
  \E S, R, L, E :
    /\ Tells(o.said, S, R, L, E) /\ Fits(worker, o.worker, S, R, L, E, o.cause, registry')
    /\ Held(worker) /\ ~o.worker.lost /\ ~o.worker.over => S = {o.worker.status}
    /\ Listed(L)
Ordered(c, o) ==
  Waits(worker) /\ worker.stepping = None /\ c.verb # "Stop" => FlowsOn(worker, o)
Replied(c) ==
  /\ \E o : /\ Becomes(o) /\ Heard(o) /\ AnswerStands(worker, o.worker, c.verb)
            /\ Ordered(c, o)
  /\ registry' \in Seq(Breakpoints) /\ nextId' \in Nat

\* A control command is answered, and leaves the registry alone.
LEMMA ControlReplied ==
  ASSUME Sane, ~worker.over, NEW c, ControlCommand(c)
  PROVE  Replied(c)
<1>1. c.verb \in Controls /\ UNCHANGED <<registry, nextId, failedEdit>>
  BY DEF ControlCommand
<1>2. PICK o \in W!Answer(worker, c.verb) : Becomes(o)
  BY DEF ControlCommand
<1>3. FitAnswer(worker, o, registry') /\ AnswerStands(worker, o.worker, c.verb)
  BY <1>1, <1>2, ControlFits DEF Sane
<1>4. PICK S, R, L, E :
        /\ Tells(o.said, S, R, L, E) /\ Fits(worker, o.worker, S, R, L, E, o.cause, registry')
        /\ Held(worker) /\ ~o.worker.lost /\ ~o.worker.over => S = {o.worker.status}
  BY <1>3 DEF FitAnswer
<1>5. Now(L, registry, registry')
  BY <1>1, <1>4 DEF Fits, Now
<1>6. Heard(o)
  BY <1>1, <1>4, <1>5 DEF Heard, Listed
<1>7. Ordered(c, o)
  BY <1>1, <1>2, ControlFlows DEF Sane, Ordered
<1> QED BY <1>1, <1>2, <1>3, <1>6, <1>7 DEF Replied, Sane

\* So is a command that is refused.
LEMMA RefusalReplied ==
  ASSUME Sane, ~worker.over, NEW c, Refusal(c)
  PROVE  Replied(c)
<1>1. c.verb \in Verbs /\ UNCHANGED <<registry, nextId, failedEdit>>
  BY DEF Refusal, Verbs
<1>2. PICK o : o = W!Answered(worker, c.verb, "Rejected") /\ Becomes(o)
  BY DEF Refusal
<1>3. FitAnswer(worker, o, registry') /\ AnswerStands(worker, o.worker, c.verb)
  BY <1>1, <1>2, RejectedFits DEF Sane
<1>4. PICK S, R, L, E :
        /\ Tells(o.said, S, R, L, E) /\ Fits(worker, o.worker, S, R, L, E, o.cause, registry')
        /\ Held(worker) /\ ~o.worker.lost /\ ~o.worker.over => S = {o.worker.status}
  BY <1>3 DEF FitAnswer
<1>5. Now(L, registry, registry')
  BY <1>1, <1>4 DEF Fits, Now
<1>6. Heard(o)
  BY <1>1, <1>4, <1>5 DEF Heard, Listed
<1>7. Ordered(c, o)
  BY <1>1, <1>2, RejectedFlows DEF Sane, Ordered
<1> QED BY <1>1, <1>2, <1>3, <1>6, <1>7 DEF Replied, Sane

\* A command whose work is over when the reply is sent.
LEMMA DoneReplied ==
  ASSUME Sane, ~worker.over, NEW c, c.verb \in Edits \cup Inspections, Valid(worker.status, c.verb),
         NEW answer \in {"Completed", "Failed"}, NEW said, NEW L, Tells(said, {}, {}, L, {}),
         Calm(said), L = {} \/ L = {registry'}, Reply(c.verb, answer, said),
         registry' \in Seq(Breakpoints), nextId' \in Nat,
         Listed(L)
  PROVE  Replied(c)
<1>1. worker.status = "Paused"
  BY DEF Valid, Edits, Inspections
<1> DEFINE o == W!Out(worker, <<Say(c.verb, "Accepted", worker.status, "other")>> \o said
                              \o <<Say(c.verb, answer, worker.status, "other")>>, None)
<1>2. Becomes(o)
  BY DEF Reply
<1>3. /\ Tells(o.said, {worker.status}, {}, L, {})
      /\ Fits(worker, o.worker, {worker.status}, {}, L, {}, o.cause, registry')
      /\ AnswerStands(worker, o.worker, c.verb)
  BY <1>1, ReplyFits DEF Sane
<1>4. o.worker = worker
  BY DEF W!Out
<1>5. Ordered(c, o)
  BY <1>1, ReplyFlows DEF Sane, Ordered
<1> HIDE DEF o
<1>6. Heard(o)
  BY <1>3, <1>4 DEF Heard
<1> QED BY <1>2, <1>3, <1>5, <1>6 DEF Replied

\* Code or memory is shown, or cannot be.
LEMMA InspectionReplied ==
  ASSUME Sane, ~worker.over, NEW c \in Commands(Lines), Inspection(c)
  PROVE  Replied(c)
<1>1. /\ c.verb \in Inspections /\ Valid(worker.status, c.verb)
      /\ UNCHANGED <<registry, nextId, failedEdit>>
  BY DEF Inspection
<1>2. c.id \in Places(Lines)
  BY DEF Commands
<1>3. setup.words \subseteq Seq(Nat)
  BY SetupsTyped DEF Sane
<1>4. \E answer \in {"Completed", "Failed"} : \E said :
        Tells(said, {}, {}, {}, {}) /\ Calm(said) /\ Reply(c.verb, answer, said)
  <2>1. CASE Reply(c.verb, "Failed", <<>>)
    BY <2>1, TellsNone, OthersCalm
  <2>2. CASE Reply(c.verb, "Completed", <<CodeAt(c.id)>>)
    BY <1>2, <2>2, OthersTell, OthersCalm
  <2>3. CASE \E w \in setup.words : Reply(c.verb, "Completed", <<Shown(c.id, w)>>)
    BY <1>2, <1>3, <2>3, OthersTell, OthersCalm
  <2> QED BY <2>1, <2>2, <2>3 DEF Inspection
<1>5. Now({}, registry, registry')
  BY <1>1 DEF Now
<1> QED BY <1>1, <1>4, <1>5, DoneReplied DEF Sane, Listed

\* An edit shows the list it ends with, or is known to have failed halfway.
LEMMA EditReplied ==
  ASSUME Sane, ~worker.over, NEW c \in Commands(Lines), BreakpointEdited(c)
  PROVE  Replied(c)
<1>1. c.verb \in Edits /\ Valid(worker.status, c.verb) /\ registry' = Edited(c) /\ Known(c)
  BY DEF BreakpointEdited
<1>2. registry' \in Seq(Breakpoints)
  BY <1>1, EditedRight
<1>3. nextId' \in Nat
  BY DEF BreakpointEdited, Sane
<1>4. CASE Reply(c.verb, "Completed", <<ListAfter>>)
  <2>1. Tells(<<ListAfter>>, {}, {}, {registry'}, {}) /\ Calm(<<ListAfter>>)
    <3>1. \A l \in Seq(Breakpoints) : Tells(<<List(l)>>, {}, {}, {l}, {}) /\ Calm(<<List(l)>>)
      BY OthersTell, OthersCalm
    <3> QED BY <1>2, <3>1 DEF ListAfter
  <2>2. Listed({registry'})
    BY DEF Listed
  <2> QED BY <1>1, <1>2, <1>3, <1>4, <2>1, <2>2, DoneReplied
<1>5. CASE Reply(c.verb, "Failed", <<>>) /\ failedEdit' = TRUE
  BY <1>1, <1>2, <1>3, <1>5, TellsNone, OthersCalm, DoneReplied DEF Listed
<1> QED BY <1>4, <1>5 DEF BreakpointEdited

\* An edit that names nothing.
LEMMA UnresolvedReplied ==
  ASSUME Sane, ~worker.over, NEW c, EditUnresolved(c)
  PROVE  Replied(c)
<1>1. /\ c.verb \in Edits /\ Valid(worker.status, c.verb) /\ Reply(c.verb, "Failed", <<>>)
      /\ UNCHANGED <<registry, nextId, failedEdit>>
  BY DEF EditUnresolved
<1>2. Now({}, registry, registry')
  BY <1>1 DEF Now
<1> QED BY <1>1, <1>2, TellsNone, OthersCalm, DoneReplied DEF Sane, Listed

\* A command that is read is replied to.
LEMMA ReadReplied ==
  ASSUME Sane, ReadCommand
  PROVE  Replied(Head(commands)) /\ ~worker.over /\ commands # <<>>
<1> DEFINE c == Head(commands)
<1>1. commands # <<>> /\ ~worker.over
  BY DEF ReadCommand
<1>2. c \in Commands(Lines)
  BY <1>1 DEF Sane
<1>3. ControlCommand(c) \/ Refusal(c) \/ Inspection(c) \/ BreakpointEdited(c) \/ EditUnresolved(c)
  BY DEF ReadCommand
<1> HIDE DEF c
<1>4. Replied(c)
  BY <1>1, <1>2, <1>3, ControlReplied, RefusalReplied, InspectionReplied, EditReplied,
     UnresolvedReplied
<1> QED BY <1>1, <1>4 DEF c

\* A command that is read keeps it all.
LEMMA ReadCommandSafe == Safe /\ ReadCommand => Safe'
<1> SUFFICES ASSUME Safe, ReadCommand PROVE Safe'
  OBVIOUS
<1> DEFINE c == Head(commands)
<1>1. /\ commands # <<>> /\ ~worker.over /\ commands' = Tail(commands)
      /\ UNCHANGED <<setup, app, closed, left>>
  BY DEF ReadCommand
<1>2. c \in Commands(Lines) /\ Tail(commands) \in Seq(Commands(Lines)) /\ Sane
  BY <1>1 DEF Safe, Sane
<1> HIDE DEF c
<1>3. Replied(c)
  BY <1>2, ReadReplied DEF c
<1>4. PICK o : Becomes(o) /\ Heard(o) /\ AnswerStands(worker, o.worker, c.verb)
  BY <1>3 DEF Replied
<1>5. PICK S2, R2, L2, E2 :
        /\ Tells(o.said, S2, R2, L2, E2)
        /\ Fits(worker, o.worker, S2, R2, L2, E2, o.cause, registry')
        /\ Held(worker) /\ ~o.worker.lost /\ ~o.worker.over => S2 = {o.worker.status}
        /\ Listed(L2)
  BY <1>4 DEF Heard
<1>6. AnswerStands(worker, worker', c.verb) /\ spent' \in Spends /\ spent'.stops = spent.stops
  BY <1>2, <1>4, <1>5, BecomesStands DEF Sane, Fits
<1>7. spent.stops \in Nat
  BY <1>2 DEF Sane, Spends
<1>8. Agreed' /\ WorkerOK(worker')
  <2>1. CASE Held(worker)
    BY <1>1, <1>2, <1>4, <1>5, <2>1, BecomesAgreed DEF Safe, Sane
  <2>2. CASE ~Held(worker)
    BY <1>1, <1>2, <1>4, <1>5, <2>2, BecomesAgreed DEF Safe, Sane, StopsSent
  <2> QED BY <2>1, <2>2
<1>9. Sane'
  BY <1>1, <1>2, <1>3, <1>6, <1>8 DEF Sane, Replied
<1>10. StopsSent'
  BY <1>1, <1>2, <1>6, ReadStops DEF Safe, c
<1> QED BY <1>8, <1>9, <1>10 DEF Safe

-----------------------------------------------------------------------------
(* A step of the interface keeps it so                                     *)

\* An update is read: what it told is believed, what the others tell is not yet.
LEMMA TakeUpdateSafe == Safe /\ TakeUpdate => Safe'
<1> SUFFICES ASSUME Safe, TakeUpdate PROVE Safe'
  OBVIOUS
<1> DEFINE u == Head(updates)
           b == Applied(app, u)
<1>1. /\ left = None /\ updates # <<>> /\ app' = b /\ updates' = Tail(updates)
      /\ UNCHANGED <<setup, closed, left, commands>>
      /\ UNCHANGED <<worker, registry, nextId, spent, cause, failedEdit>>
  BY DEF TakeUpdate
<1>2. PICK S, R, L, E : Believed(S, R, L, E)
  BY DEF Safe, Agreed
<1>3. u \in News
  BY <1>1, <1>2 DEF Believed, Tells
<1>4. App(b, Lines) /\ Reads(app, b, u)
  BY <1>3, AppliedRight DEF Safe, Sane, News
<1> HIDE DEF u, b
<1>5. PICK S2, R2, L2, E2 :
        /\ Tells(updates', S2, R2, L2, E2)
        /\ S = Over(StatusTold(u), S2) /\ R = Over(ReasonTold(u), R2)
        /\ L = Over(ListTold(u), L2) /\ E = Over(EndTold(u), E2)
  <2>1. Tells(updates, S, R, L, E) /\ updates # <<>>
    BY <1>1, <1>2 DEF Believed
  <2>2. \E S2, R2, L2, E2 : /\ Tells(Tail(updates), S2, R2, L2, E2)
                            /\ S = Over(StatusTold(Head(updates)), S2)
                            /\ R = Over(ReasonTold(Head(updates)), R2)
                            /\ L = Over(ListTold(Head(updates)), L2)
                            /\ E = Over(EndTold(Head(updates)), E2)
    BY <2>1, TellsTail
  <2> QED BY <1>1, <2>2 DEF u
<1>6. E2 # {} \/ app'.ended \/ closed' \/ left' = "key" => worker'.over
  <2>1. E2 # {} \/ u.kind = "SessionEnd" => E # {}
    BY <1>5 DEF Over, EndTold
  <2>2. app'.ended => app.ended \/ u.kind = "SessionEnd"
    BY <1>1, <1>4 DEF Reads
  <2> QED BY <1>1, <1>2, <2>1, <2>2 DEF Believed
<1>7. ~failedEdit => Now(L2, b.list, registry)
  BY <1>1, <1>2, <1>4, <1>5, NowRest DEF Believed, Reads
<1>8. worker.held /\ ~worker.lost /\ cause # "unexplained" => Now(R2, b.reason, cause)
  BY <1>1, <1>2, <1>4, <1>5, NowRest DEF Believed, Reads
<1>9. ~worker.over /\ ~worker.lost /\ spent.stops <= 1 /\ commands = <<>>
        => Now(S2, b.status, worker.status)
  BY <1>1, <1>2, <1>4, <1>5, NowRest DEF Believed, Reads
<1>10. Believed(S2, R2, L2, E2)'
  BY <1>1, <1>2, <1>5, <1>6, <1>7, <1>8, <1>9 DEF Believed
<1>11. Sane' /\ StopsSent'
  BY <1>1, <1>4 DEF Safe, Sane, StopsSent, NoStop, OneStop
<1> QED BY <1>10, <1>11 DEF Safe, Agreed

\* The queue is found closed only when the trace is over.
LEMMA DrainEndsSafe == Safe /\ DrainEnds => Safe'
<1> SUFFICES ASSUME Safe, DrainEnds PROVE Safe'
  OBVIOUS
<1>1. /\ closed' \in {closed, closed \/ (updates = <<>> /\ worker.over)}
      /\ UNCHANGED <<setup, app, left, commands, updates>>
      /\ UNCHANGED <<worker, registry, nextId, spent, cause, failedEdit>>
  BY DEF DrainEnds
<1>2. PICK S, R, L, E : Believed(S, R, L, E)
  BY DEF Safe, Agreed
<1>3. closed' \in BOOLEAN /\ (closed' => closed \/ worker.over)
  BY <1>1 DEF Safe, Sane
<1>4. Believed(S, R, L, E)'
  BY <1>1, <1>2, <1>3 DEF Believed
<1>5. Sane' /\ StopsSent'
  BY <1>1, <1>3 DEF Safe, Sane, StopsSent, NoStop, OneStop
<1> QED BY <1>4, <1>5 DEF Safe, Agreed

\* Neither no key nor a terminal that fails changes what is known.
LEMMA IdleSafe == Safe /\ (NoKey \/ TerminalFails \/ UNCHANGED vars) => Safe'
<1> SUFFICES ASSUME Safe, NoKey \/ TerminalFails \/ UNCHANGED vars PROVE Safe'
  OBVIOUS
<1>1. /\ UNCHANGED <<setup, app, closed, commands, updates>>
      /\ UNCHANGED <<worker, registry, nextId, spent, cause, failedEdit>>
      /\ left' = left \/ left' = "failure"
  BY DEF NoKey, TerminalFails, vars
<1>2. PICK S, R, L, E : Believed(S, R, L, E)
  BY DEF Safe, Agreed
<1>3. Believed(S, R, L, E)'
  BY <1>1, <1>2, NoneIsNoWay DEF Believed
<1>4. Sane' /\ StopsSent'
  BY <1>1 DEF Safe, Sane, StopsSent, NoStop, OneStop
<1> QED BY <1>3, <1>4 DEF Safe, Agreed

\* The keys of a session type lines that are known.
LEMMA KeysTyped ==
  ASSUME Sane, NEW key \in KeyPresses
  PROVE  key.line \in Lines
<1>1. Len(setup.opening) \in Nat /\ setup \in Setups /\ spent.keys \in Nat
  BY SetupsTyped DEF Sane, Spends
<1>2. CASE spent.keys < Len(setup.opening)
  <2>1. key = setup.opening[spent.keys + 1] /\ spent.keys + 1 \in 1 .. Len(setup.opening)
    BY <1>1, <1>2 DEF KeyPresses
  <2>2. key.line \in {setup.opening[i].line : i \in 1 .. Len(setup.opening)}
    BY <2>1
  <2>3. key.line \in OpenedWith(setup)
    BY <2>2 DEF OpenedWith
  <2> QED BY <1>1, <2>3 DEF Lines
<1>3. CASE ~(spent.keys < Len(setup.opening))
  <2>1. \/ \E code \in setup.keys : key = KeyOf(code)
        \/ \E line \in setup.lines : key = Typed(line)
    BY <1>3 DEF KeyPresses
  <2>2. key.line = Blank \/ key.line \in setup.lines
    BY <2>1 DEF KeyOf, Typed
  <2> QED BY <1>1, <2>2 DEF Lines
<1> QED BY <1>2, <1>3

\* What a key does to the app, and the command it sends, if any.
LEMMA PressRight ==
  ASSUME Sane, NEW key \in KeyPresses, Press(key)
  PROVE  LET r == Handle(app, closed, key) IN
         /\ App(app', Lines) /\ app'.list = app.list /\ app'.reason = app.reason
         /\ app'.ended = app.ended
         /\ r.leave => app.ended \/ closed
         /\ \/ commands' = commands /\ (app'.status = app.status \/ worker.over)
            \/ r.send \in Commands(Lines) /\ commands' = Append(commands, r.send) /\ ~worker.over
<1> DEFINE r == Handle(app, closed, key)
<1>1. Inputs(Lines)
  BY DEF Inputs, Lines
<1>2. Pressed(app, closed, r, Lines)
  BY <1>1, KeysTyped, HandlePressed DEF Sane
<1>3. Delivered(r)
  BY DEF Press
<1> HIDE DEF r
<1>4. /\ App(r.app, Lines) /\ r.app.list = app.list /\ r.app.reason = app.reason
      /\ r.app.ended = app.ended /\ r.app.status = app.status
      /\ r.leave => app.ended \/ closed
  BY <1>2 DEF Pressed, Handled, Changes, Touched, Fields
<1>5. CASE app' = r.app /\ UNCHANGED commands
  BY <1>4, <1>5 DEF r
<1>6. CASE r.send # None /\ app' = Sent(r.app, r.send.verb)
           /\ ((worker.over /\ UNCHANGED commands) \/ (~worker.over /\ commands' = Append(commands, r.send)))
  <2>1. r.send \in Commands(Lines) /\ r.send.verb \in Verbs
    BY <1>2, <1>6 DEF Pressed, Commands
  <2> DEFINE b == Sent(r.app, r.send.verb)
  <2>2. App(b, Lines) /\ Changes(r.app, b, {"status", "follow", "before", "selected"})
    BY <1>4, <2>1, SentRight
  <2> HIDE DEF b
  <2>3. b.list = app.list /\ b.reason = app.reason /\ b.ended = app.ended
    BY <1>4, <2>2 DEF Changes, Fields
  <2> QED BY <1>4, <1>6, <2>1, <2>2, <2>3 DEF b, r
<1>7. \/ app' = r.app /\ UNCHANGED commands
      \/ r.send # None /\ app' = Sent(r.app, r.send.verb)
         /\ ((worker.over /\ UNCHANGED commands) \/ (~worker.over /\ commands' = Append(commands, r.send)))
  <2>1. CASE r.send = None \/ ~Valid(r.app.status, r.send.verb)
    BY <1>3, <2>1 DEF Delivered
  <2>2. CASE ~(r.send = None \/ ~Valid(r.app.status, r.send.verb))
    <3>1. \/ ~worker.over /\ app' = Sent(r.app, r.send.verb) /\ commands' = Append(commands, r.send)
          \/ worker.over /\ ~closed /\ app' = Sent(r.app, r.send.verb) /\ UNCHANGED commands
          \/ worker.over /\ app' = r.app /\ UNCHANGED commands
      BY <1>3, <2>2 DEF Delivered
    <3> QED BY <2>2, <3>1
  <2> QED BY <2>1, <2>2
<1> QED BY <1>5, <1>6, <1>7

\* A key that is sent to the worker is believed when it is answered.
LEMMA PressSafe ==
  ASSUME Safe, NEW key \in KeyPresses, Press(key)
  PROVE  Safe'
<1> DEFINE r == Handle(app, closed, key)
<1>1. /\ left = None /\ left' = IF r.leave THEN "key" ELSE None
      /\ spent' = [spent EXCEPT !.keys = @ + 1,
                                !.stops = IF r.send = Command("Stop", 0) THEN @ + 1 ELSE @]
      /\ UNCHANGED <<setup, closed, updates>>
      /\ UNCHANGED <<worker, registry, nextId, cause, failedEdit>>
  BY DEF Press
<1>2. /\ App(app', Lines) /\ app'.list = app.list /\ app'.reason = app.reason
      /\ app'.ended = app.ended
      /\ r.leave => app.ended \/ closed
      /\ \/ commands' = commands /\ (app'.status = app.status \/ worker.over)
         \/ r.send \in Commands(Lines) /\ commands' = Append(commands, r.send) /\ ~worker.over
  BY PressRight DEF Safe
<1> HIDE DEF r
<1>3. PICK S, R, L, E : Believed(S, R, L, E)
  BY DEF Safe, Agreed
<1>4. commands \in Seq(Commands(Lines)) /\ spent \in Spends
  BY DEF Safe, Sane
<1>5. /\ spent' \in Spends
      /\ spent'.stops = IF r.send = Command("Stop", 0) THEN spent.stops + 1 ELSE spent.stops
  <2> DEFINE n == IF r.send = Command("Stop", 0) THEN spent.stops + 1 ELSE spent.stops
  <2>1. spent' = [spent EXCEPT !.keys = @ + 1, !.stops = n] /\ n \in Nat
    BY <1>1, <1>4 DEF Spends
  <2> HIDE DEF n
  <2>2. spent.keys + 1 \in Nat /\ spent' = [[spent EXCEPT !.keys = @ + 1] EXCEPT !.stops = n]
    BY <1>4, <2>1 DEF Spends
  <2>3. [spent EXCEPT !.keys = @ + 1] \in Spends
    BY <1>4, <2>2 DEF Spends
  <2>4. spent' \in Spends /\ spent'.stops = n
    BY <2>1, <2>2, <2>3 DEF Spends
  <2> QED BY <2>4 DEF n
<1>6. /\ commands' \in Seq(Commands(Lines))
      /\ commands' = <<>> => commands = <<>> /\ (app'.status = app.status \/ worker.over)
  <2> DEFINE C == Commands(Lines)
  <2>1. commands \in Seq(C)
    BY <1>4
  <2> HIDE DEF C
  <2>2. ASSUME NEW c \in C PROVE Append(commands, c) \in Seq(C) /\ Append(commands, c) # <<>>
    <3>1. Append(commands, c) \in Seq(C) /\ Len(Append(commands, c)) = Len(commands) + 1
      BY <2>1
    <3>2. Len(commands) \in Nat
      BY <2>1
    <3>3. Len(Append(commands, c)) # 0
      BY <3>1, <3>2
    <3> QED BY <3>1, <3>3
  <2> QED BY <1>2, <2>1, <2>2 DEF C
<1>7. spent.stops \in Nat /\ (spent'.stops <= 1 => spent.stops <= 1)
  BY <1>4, <1>5 DEF Spends
<1>8. Sane'
  BY <1>1, <1>2, <1>5, <1>6 DEF Safe, Sane
<1>9. Believed(S, R, L, E)'
  <2>1. E # {} \/ app'.ended \/ closed' \/ left' = "key" => worker'.over
    BY <1>1, <1>2, <1>3, NoneIsNoWay DEF Believed
  <2>2. ~worker.over /\ ~worker.lost /\ spent'.stops <= 1 /\ commands' = <<>>
          => Now(S, app'.status, worker.status)
    BY <1>1, <1>2, <1>3, <1>6, <1>7 DEF Believed
  <2> QED BY <1>1, <1>2, <1>3, <2>1, <2>2 DEF Believed
<1>10. StopsSent'
  <2>1. CASE commands' = commands
    <3>1. spent'.stops = 0 => spent.stops = 0
      BY <1>5, <1>7
    <3>2. spent'.stops = 1 => spent.stops = 1 \/ spent.stops = 0
      BY <1>5, <1>7
    <3>3. NoStop(commands) => OneStop(commands)
      BY DEF NoStop, OneStop
    <3> QED BY <1>1, <1>7, <2>1, <3>1, <3>2, <3>3 DEF Safe, StopsSent
  <2>2. CASE r.send \in Commands(Lines) /\ commands' = Append(commands, r.send)
    <3>1. r.send.verb = "Stop" => r.send = Command("Stop", 0)
      BY <2>2 DEF Commands, Command
    <3>2. /\ NoStop(commands) => OneStop(commands) /\ OneStop(commands')
          /\ r.send.verb # "Stop" => (NoStop(commands) => NoStop(commands'))
                                     /\ (OneStop(commands) => OneStop(commands'))
      BY <1>4, <2>2, StopsQueued
    <3>3. spent'.stops = 0 => spent.stops = 0 /\ r.send.verb # "Stop"
      BY <1>5, <1>7, <3>1
    <3>4. spent'.stops = 1 => spent.stops = 0 \/ (spent.stops = 1 /\ r.send.verb # "Stop")
      BY <1>5, <1>7, <3>1
    <3>5. NoStop(commands)' = NoStop(commands') /\ OneStop(commands)' = OneStop(commands')
      BY DEF NoStop, OneStop
    <3> QED BY <1>1, <1>7, <3>2, <3>3, <3>4, <3>5 DEF Safe, StopsSent
  <2> QED BY <1>2, <2>1, <2>2
<1> QED BY <1>8, <1>9, <1>10 DEF Safe, Agreed

-----------------------------------------------------------------------------
(* The properties                                                          *)

\* No step parts what the worker knows from what the interface believes for good.
LEMMA SafeStep == Safe /\ [Next]_vars => Safe'
<1> SUFFICES ASSUME Safe, [Next]_vars PROVE Safe'
  OBVIOUS
<1>1. CASE ReadCommand
  BY <1>1, ReadCommandSafe
<1>2. CASE WorkerStep
  BY <1>2, WorkerStepSafe
<1>3. CASE TakeUpdate
  BY <1>3, TakeUpdateSafe
<1>4. CASE DrainEnds
  BY <1>4, DrainEndsSafe
<1>5. CASE NoKey \/ TerminalFails \/ UNCHANGED vars
  BY <1>5, IdleSafe
<1>6. CASE \E key \in KeyPresses : Press(key)
  BY <1>6, PressSafe
<1> QED BY <1>1, <1>2, <1>3, <1>4, <1>5, <1>6 DEF Next

\* What the worker knows and what the interface believes never part for good.
THEOREM SafeAlways == Spec => []Safe
<1>1. Init => Safe
  BY InitSafe
<1>2. Safe /\ [Next]_vars => Safe'
  BY SafeStep
<1> QED BY <1>1, <1>2, PTL DEF Spec

\* The interface never points at what it does not show.
THEOREM TypeCorrect == Spec => []TypeOK
<1>1. Safe => TypeOK
  <2> SUFFICES ASSUME Safe PROVE TypeOK
    OBVIOUS
  <2>1. App(app, Lines) /\ WorkerOK(worker)
    BY DEF Safe, Sane
  <2>2. app.status \in Statuses /\ worker.status \in Statuses /\ worker.pending \subseteq Pendings
    BY <2>1 DEF App, WorkerOK, Workers
  <2>3. /\ app.selected \in 0 .. LastEvent(app)
        /\ InRange(app.row, app.list) /\ (app.list # <<>> => app.row # None)
        /\ InShown(app.chunk, app.layout) /\ InShown(app.cell, app.words)
        /\ app.user = IF app.chunk = None THEN None ELSE app.layout[app.chunk + 1]
        /\ InRange(app.recalled, app.history)
    BY <2>1 DEF App, EventOK, RowOK, ChunkOK, WordOK, LineOK
  <2> QED BY <2>2, <2>3 DEF TypeOK, Pendings
<1> QED BY <1>1, SafeAlways, PTL

\* What is known all along is enough: of what is settled nothing is left to be told.
LEMMA SafeSettles == Safe => BeliefSettles /\ ListSettles /\ ReasonCurrent /\ LeavesAfterEnd
<1> SUFFICES ASSUME Safe PROVE BeliefSettles /\ ListSettles /\ ReasonCurrent /\ LeavesAfterEnd
  OBVIOUS
<1>1. PICK S, R, L, E : Believed(S, R, L, E)
  BY DEF Safe, Agreed
<1>2. LeavesAfterEnd
  BY <1>1 DEF Believed, LeavesAfterEnd
<1>3. ASSUME Settled PROVE S = {} /\ R = {} /\ L = {}
  BY <1>1, <1>3 DEF Settled, Believed, Tells, Sums, LastTold
<1>4. Settled => left = None /\ commands = <<>>
  BY DEF Settled
<1>5. BeliefSettles
  BY <1>1, <1>3, <1>4 DEF Believed, BeliefSettles, Now
<1>6. ListSettles
  BY <1>1, <1>3, <1>4 DEF Believed, ListSettles, Now
<1>7. ReasonCurrent
  BY <1>1, <1>3, <1>4 DEF Believed, ReasonCurrent, Now
<1> QED BY <1>2, <1>5, <1>6, <1>7

\* With every message read, the interface believes of the target what the worker knows.
THEOREM BeliefRight == Spec => []BeliefSettles
BY SafeSettles, SafeAlways, PTL

\* With every message read, it shows the breakpoints that the worker has.
THEOREM ListRightAlways == Spec => []ListSettles
BY SafeSettles, SafeAlways, PTL

\* With every message read, it says why the target stands still.
THEOREM ReasonRight == Spec => []ReasonCurrent
BY SafeSettles, SafeAlways, PTL

\* A key leaves the interface only when the trace is over.
THEOREM LeavesRight == Spec => []LeavesAfterEnd
BY SafeSettles, SafeAlways, PTL

\* Only the interface takes updates away.
LEMMA UpdatesTaken ==
  ASSUME Safe, [Next]_vars, ~TakeUpdate
  PROVE  Len(updates') >= Len(updates)
<1>1. Sane /\ updates \in Seq(News) /\ Len(updates) \in Nat
  BY DEF Safe, Agreed, Believed, Tells
<1>2. ASSUME NEW o, Becomes(o), o.said \in Seq(News) PROVE Len(updates') >= Len(updates)
  <2>1. Len(updates \o o.said) >= Len(updates)
    BY <1>1, <1>2
  <2> QED BY <1>1, <1>2, <2>1 DEF Becomes
<1>3. CASE ReadCommand
  <2>1. \E o : Becomes(o) /\ Heard(o)
    BY <1>1, <1>3, ReadReplied DEF Replied
  <2> QED BY <1>2, <2>1 DEF Heard, Tells
<1>4. CASE WorkerStep
  <2>1. \E o : Becomes(o) /\ Fit(worker, o, registry)
    BY <1>1, <1>4, WorkerStepFits
  <2> QED BY <1>2, <2>1 DEF Fit, Tells
<1>5. CASE DrainEnds \/ NoKey \/ TerminalFails \/ (\E key \in KeyPresses : Press(key)) \/ UNCHANGED vars
  <2>1. updates' = updates
    BY <1>5 DEF DrainEnds, NoKey, TerminalFails, Press, vars
  <2> QED BY <1>1, <2>1
<1> QED BY <1>3, <1>4, <1>5 DEF Next

\* What the user has selected stays selected while it is still there.
THEOREM SelectionStays == Spec => SelectionKept
<1> DEFINE A == Len(updates') < Len(updates) =>
                  LET u == Head(updates) IN
                  /\ (\E i \in DOMAIN app'.list : app'.list[i].id = SelectedId(app))
                       => SelectedId(app') = SelectedId(app)
                  /\ /\ u.kind # "BreakMatched"
                     /\ u.kind = "HeapLayout" => \E i \in DOMAIN u.layout : u.layout[i] = app.user
                     => app'.user = app.user
<1>1. Safe /\ [Next]_vars => A
  <2> SUFFICES ASSUME Safe, [Next]_vars PROVE A
    OBVIOUS
  <2>1. CASE TakeUpdate
    <3>1. updates # <<>> /\ app' = Applied(app, Head(updates))
      BY <2>1 DEF TakeUpdate
    <3>2. updates \in Seq(News) /\ App(app, Lines)
      BY DEF Safe, Sane, Agreed, Believed, Tells
    <3>3. Head(updates) \in News
      BY <3>1, <3>2
    <3>4. Kept(app, app', Head(updates))
      BY <3>1, <3>2, <3>3, AppliedRight DEF News
    <3> QED BY <3>4 DEF Kept
  <2>2. CASE ~TakeUpdate
    <3>1. Len(updates') >= Len(updates)
      BY <2>2, UpdatesTaken
    <3>2. updates \in Seq(News) /\ updates' \in Seq(News)
      <4>1. Safe'
        BY SafeStep
      <4> QED BY <4>1 DEF Safe, Agreed, Believed, Tells
    <3> QED BY <3>1, <3>2
  <2> QED BY <2>1, <2>2
<1> QED BY <1>1, SafeAlways, PTL DEF Spec, SelectionKept


-----------------------------------------------------------------------------
(* Following the newest event: all along                                   *)

\* Until a stop is sent, the updates that are still to be read come in order after
\* what was told last, and lead to the status the worker knows.
Leading(t, S) ==
  /\ Leads(app, t) /\ Flow(t, updates) /\ updates \in Seq(News) /\ Sums(updates, OnStatus, S)
  /\ ~worker.over /\ ~worker.lost => Now(S, t, worker.status)
InOrder ==
  /\ FollowsTail
  /\ spent.stops = 0 => Waits(worker) /\ (left = None => \E t, S : Leading(t, S))

\* Who leads follows the newest event.
LEMMA LeadingTail ==
  ASSUME NEW t, Leads(app, t)
  PROVE  FollowsTail
BY LeadsTail DEF FollowsTail, Tailing

\* A session starts with the target running and nothing told.
LEMMA InitOrder == Init => InOrder
<1> SUFFICES ASSUME Init PROVE InOrder
  OBVIOUS
<1>1. /\ app.status = "Running" /\ app.follow = TRUE /\ app.selected = 0 /\ app.events = 0
      /\ updates = <<>> /\ worker = W!Launched
  BY DEF Init, Opened
<1>2. Leads(app, "Running")
  BY <1>1 DEF Leads, Led, LastEvent, Statuses
<1>3. worker.status = "Running" /\ ~worker.held /\ ~worker.lost /\ worker.stepping = None
  BY <1>1 DEF W!Launched
<1>4. Waits(worker)
  BY <1>3 DEF Waits, Tailing
<1>5. Flow("Running", updates) /\ updates \in Seq(News) /\ Sums(updates, OnStatus, {})
  BY <1>1, SumsNone DEF Flow
<1>6. Leading("Running", {})
  BY <1>2, <1>3, <1>5 DEF Leading, Now
<1> QED BY <1>2, <1>4, <1>6, LeadingTail DEF InOrder

\* The updates of a step of the worker, put behind the others, come in order.
LEMMA BecomesOrdered ==
  ASSUME WorkerOK(worker), InOrder, spent.stops = 0, ~worker.over, NEW o, Becomes(o),
         NEW S2, NEW R2, NEW L2, NEW E2, NEW reg, Tells(o.said, S2, R2, L2, E2),
         Fits(worker, o.worker, S2, R2, L2, E2, o.cause, reg), FlowsOn(worker, o),
         UNCHANGED <<app, left>>
  PROVE  InOrder'
<1>1. WorkerOK(o.worker) /\ Waits(o.worker) /\ o.said \in Seq(News) /\ Sums(o.said, OnStatus, S2)
  BY DEF Fits, FlowsOn, Flows, Tells
<1>2. Waits(worker')
  BY <1>1, FailsFlow DEF Becomes
<1>3. FollowsTail'
  <2>1. spent'.stops = spent.stops
    BY DEF Becomes
  <2> QED BY <2>1 DEF InOrder, FollowsTail, LastEvent
<1>4. ASSUME left = None PROVE \E t, S : Leading(t, S)'
  <2>1. worker' = o.worker /\ updates' = updates \o o.said
    BY <1>4 DEF Becomes
  <2>2. PICK t, S : Leading(t, S)
    BY <1>4 DEF InOrder
  <2>3. /\ Leads(app, t) /\ t \in Statuses /\ Flow(t, updates) /\ updates \in Seq(News)
        /\ Sums(updates, OnStatus, S)
    BY <2>2 DEF Leading, Leads
  <2>4. Leads(app, t)'
    BY <2>3 DEF Leads, Led, LastEvent
  <2>5. updates' \in Seq(News) /\ Sums(updates', OnStatus, Over(S, S2))
    BY <1>1, <2>1, <2>3, SumsJoin
  <2>6. PICK y \in Statuses : Now(S, t, y) /\ Flow(y, o.said) /\ (~worker.lost => y = worker.status)
    <3>1. CASE worker.lost
      <4>1. PICK y \in Statuses : Now(S, t, y)
        BY <2>3, SumsStatus
      <4> QED BY <3>1, <4>1 DEF FlowsOn, Flows
    <3>2. CASE ~worker.lost
      <4>1. worker.status \in Statuses /\ Now(S, t, worker.status)
        BY <2>2, <3>2 DEF Leading, WorkerOK, Workers
      <4> QED BY <3>2, <4>1 DEF FlowsOn, Flows
    <3> QED BY <3>1, <3>2
  <2>7. Flow(t, updates')
    BY <1>1, <2>1, <2>3, <2>6, FlowJoin
  <2>8. ~worker'.over /\ ~worker'.lost => Now(Over(S, S2), t, worker'.status)
    <3> SUFFICES ASSUME ~worker'.over, ~worker'.lost PROVE Now(Over(S, S2), t, worker'.status)
      OBVIOUS
    <3>1. ~worker.lost /\ Now(S2, worker.status, worker'.status)
      BY <2>1 DEF Fits
    <3> QED BY <2>6, <3>1, NowJoin
  <2>9. Leading(t, Over(S, S2))'
    BY <2>4, <2>5, <2>7, <2>8 DEF Leading, Flow, Quiet
  <2> QED BY <2>9
<1> QED BY <1>2, <1>3, <1>4 DEF InOrder

\* So do those of a step that it takes by itself.
LEMMA WorkerStepOrdered == Safe /\ InOrder /\ WorkerStep => InOrder'
<1> SUFFICES ASSUME Safe, InOrder, WorkerStep PROVE InOrder'
  OBVIOUS
<1>1. PICK o : /\ Becomes(o) /\ Fit(worker, o, registry)
               /\ (Waits(worker) /\ ~worker.stopping => FlowsOn(worker, o))
               /\ ~worker.over
  BY WorkerStepFits DEF Safe
<1>2. UNCHANGED <<app, left>> /\ spent'.stops = spent.stops /\ WorkerOK(worker)
  BY <1>1 DEF WorkerStep, Becomes, Safe, Sane
<1>3. CASE spent.stops = 0
  <2>1. FlowsOn(worker, o)
    BY <1>1, <1>3 DEF Safe, StopsSent, InOrder
  <2>2. PICK S2, R2, L2, E2 :
          Tells(o.said, S2, R2, L2, E2) /\ Fits(worker, o.worker, S2, R2, L2, E2, o.cause, registry)
    BY <1>1 DEF Fit
  <2> QED BY <1>1, <1>2, <1>3, <2>1, <2>2, BecomesOrdered
<1>4. CASE spent.stops # 0
  BY <1>2, <1>4 DEF InOrder, FollowsTail
<1> QED BY <1>3, <1>4

\* So does the answer to a command.
LEMMA ReadCommandOrdered == Safe /\ InOrder /\ ReadCommand => InOrder'
<1> SUFFICES ASSUME Safe, InOrder, ReadCommand PROVE InOrder'
  OBVIOUS
<1> DEFINE c == Head(commands)
<1>1. commands # <<>> /\ ~worker.over /\ worker.stepping = None /\ UNCHANGED <<app, left>>
  BY DEF ReadCommand
<1>2. Replied(c)
  BY ReadReplied DEF Safe
<1>3. spent.stops = 0 => c.verb # "Stop"
  BY <1>1, StopsRead DEF Safe, Sane, StopsSent
<1> HIDE DEF c
<1>4. PICK o : Becomes(o) /\ Heard(o) /\ Ordered(c, o)
  BY <1>2 DEF Replied
<1>5. spent'.stops = spent.stops /\ WorkerOK(worker)
  BY <1>4 DEF Becomes, Safe, Sane
<1>6. CASE spent.stops = 0
  <2>1. FlowsOn(worker, o)
    BY <1>1, <1>3, <1>4, <1>6 DEF Ordered, InOrder
  <2>2. PICK S2, R2, L2, E2 :
          Tells(o.said, S2, R2, L2, E2) /\ Fits(worker, o.worker, S2, R2, L2, E2, o.cause, registry')
    BY <1>4 DEF Heard
  <2> QED BY <1>1, <1>4, <1>5, <1>6, <2>1, <2>2, BecomesOrdered
<1>7. CASE spent.stops # 0
  BY <1>1, <1>5, <1>7 DEF InOrder, FollowsTail
<1> QED BY <1>6, <1>7

\* The update that is read was the next in order.
LEMMA TakeUpdateOrdered == Safe /\ InOrder /\ TakeUpdate => InOrder'
<1> SUFFICES ASSUME Safe, InOrder, TakeUpdate PROVE InOrder'
  OBVIOUS
<1> DEFINE u == Head(updates)
           b == Applied(app, u)
<1>1. /\ left = None /\ updates # <<>> /\ app' = b /\ updates' = Tail(updates)
      /\ UNCHANGED <<left, worker, spent>>
  BY DEF TakeUpdate
<1>2. u \in News
  BY <1>1 DEF Safe, Agreed, Believed, Tells
<1>3. Reads(app, b, u)
  BY <1>2, AppliedRight DEF Safe, Sane, News
<1>4. OnStatus[u] = StatusTold(u)
  BY <1>2 DEF OnStatus
<1>5. CASE spent.stops = 0
  <2>1. PICK t, S : Leading(t, S)
    BY <1>1, <1>5 DEF InOrder
  <2>2. /\ Leads(app, t) /\ t \in Statuses /\ Flow(t, updates) /\ updates \in Seq(News)
        /\ Sums(updates, OnStatus, S)
    BY <2>1 DEF Leading, Leads
  <2>3. PICK S2 : Sums(Tail(updates), OnStatus, S2) /\ S = Over(OnStatus[u], S2)
    BY <1>1, <2>2, SumsTail
  <2>4. PICK y \in Statuses : Now(StatusTold(u), t, y)
    <3>1. Sums(<<u>>, OnStatus, StatusTold(u)) /\ <<u>> \in Seq(News)
      BY <1>2, TellsOne DEF Tells
    <3> HIDE DEF u
    <3> QED BY <2>2, <3>1, SumsStatus
  <2>5. Ready(t, u) /\ Flow(y, Tail(updates))
    BY <1>1, <2>2, <2>4, FlowTail
  <2> HIDE DEF u, b
  <2>6. Leads(b, y)
    BY <1>3, <2>2, <2>4, <2>5, TakenLeads
  <2>7. ~worker.over /\ ~worker.lost => Now(S2, y, worker.status)
    BY <1>4, <2>1, <2>3, <2>4, NowRest DEF Leading
  <2>8. Leads(app', y) /\ updates' \in Seq(News)
    BY <1>1, <2>2, <2>6
  <2>9. Leading(y, S2)'
    BY <1>1, <2>3, <2>5, <2>7, <2>8 DEF Leading, Leads, Led, LastEvent, Flow, Quiet
  <2>10. FollowsTail'
    BY <2>8 DEF Leads, Led, LastEvent, FollowsTail, Tailing
  <2> QED BY <1>1, <1>5, <2>9, <2>10 DEF InOrder
<1>6. CASE spent.stops # 0
  BY <1>1, <1>6 DEF InOrder, FollowsTail
<1> QED BY <1>5, <1>6

\* What touches neither the interface's app nor the queue of updates changes nothing.
LEMMA IdleOrdered ==
  InOrder /\ (DrainEnds \/ NoKey \/ TerminalFails \/ UNCHANGED vars) => InOrder'
<1> SUFFICES ASSUME InOrder, DrainEnds \/ NoKey \/ TerminalFails \/ UNCHANGED vars PROVE InOrder'
  OBVIOUS
<1>1. /\ UNCHANGED <<app, updates, worker, spent>>
      /\ left' = left \/ left' = "failure"
  BY DEF DrainEnds, NoKey, TerminalFails, vars
<1>2. left' = None => left = None
  BY <1>1, NoneIsNoWay
<1>3. FollowsTail'
  BY <1>1 DEF InOrder, FollowsTail, LastEvent
<1>4. \A t, S : Leading(t, S) => Leading(t, S)'
  BY <1>1 DEF Leading, Leads, Led, LastEvent, Flow, Quiet
<1> QED BY <1>1, <1>2, <1>3, <1>4 DEF InOrder, Waits

\* A key, and the command it sends, keep to it.
LEMMA PressOrdered ==
  ASSUME Safe, InOrder, NEW key \in KeyPresses, Press(key)
  PROVE  InOrder'
<1> DEFINE r == Handle(app, closed, key)
<1>1. /\ left = None /\ Delivered(r)
      /\ spent' = [spent EXCEPT !.keys = @ + 1,
                                !.stops = IF r.send = Command("Stop", 0) THEN @ + 1 ELSE @]
      /\ UNCHANGED <<updates, worker>>
  BY DEF Press
<1>2. Pressed(app, closed, r, Lines)
  <2>1. Inputs(Lines)
    BY DEF Inputs, Lines
  <2> QED BY <2>1, KeysTyped, HandlePressed DEF Safe, Sane
<1> HIDE DEF r
<1>3. spent \in Spends /\ spent.stops \in Nat
  BY DEF Safe, Sane, Spends
<1>4. spent'.stops = 0 => spent.stops = 0 /\ r.send # Command("Stop", 0)
  <2> DEFINE n == IF r.send = Command("Stop", 0) THEN spent.stops + 1 ELSE spent.stops
  <2>1. spent' = [spent EXCEPT !.keys = @ + 1, !.stops = n]
    BY <1>1, <1>3 DEF Spends
  <2> HIDE DEF n
  <2>2. spent' = [[spent EXCEPT !.keys = @ + 1] EXCEPT !.stops = n]
    BY <1>3, <2>1 DEF Spends
  <2>3. spent'.stops = n
    BY <1>3, <2>2 DEF Spends
  <2> QED BY <1>3, <2>3 DEF n
<1>5. CASE spent'.stops = 0
  <2>1. PICK t, S : Leading(t, S)
    BY <1>1, <1>4, <1>5 DEF InOrder
  <2>2. Handled(app, r.app, Lines) /\ App(r.app, Lines)
    BY <1>2 DEF Pressed, Handled
  <2>3. Leads(r.app, t)
    BY <2>1, <2>2, HandledLeads DEF Leading
  <2>4. Leads(app', t)
    <3>1. CASE app' = r.app
      BY <2>3, <3>1
    <3>2. CASE app' # r.app
      <4>1. /\ r.send # None /\ Valid(r.app.status, r.send.verb)
            /\ app' = Sent(r.app, r.send.verb)
        BY <1>1, <3>2 DEF Delivered
      <4>2. r.send \in Commands(Lines)
        BY <1>2, <4>1 DEF Pressed
      <4>3. r.send.verb \in Verbs /\ r.send.verb # "Stop"
        BY <1>4, <1>5, <4>2 DEF Commands, Command
      <4> QED BY <2>2, <2>3, <4>1, <4>3, SentLeads
    <3> QED BY <3>1, <3>2
  <2>5. Leading(t, S)'
    BY <1>1, <2>1, <2>4 DEF Leading, Leads, Led, LastEvent, Flow, Quiet
  <2>6. FollowsTail'
    BY <2>4 DEF Leads, Led, LastEvent, FollowsTail, Tailing
  <2>7. Waits(worker)
    BY <1>4, <1>5 DEF InOrder
  <2> QED BY <1>1, <2>5, <2>6, <2>7 DEF InOrder, Waits
<1>6. CASE spent'.stops # 0
  BY <1>6 DEF InOrder, FollowsTail
<1> QED BY <1>5, <1>6

\* The updates come in the order in which they make sense, so that the newest event
\* is the one selected as long as it is followed.
THEOREM FollowsAlways == Spec => []FollowsTail
<1>1. Init => Safe /\ InOrder
  BY InitSafe, InitOrder
<1>2. Safe /\ InOrder /\ [Next]_vars => (Safe /\ InOrder)'
  <2> SUFFICES ASSUME Safe, InOrder, [Next]_vars PROVE (Safe /\ InOrder)'
    OBVIOUS
  <2>1. Safe'
    BY SafeStep
  <2>2. CASE ReadCommand
    BY <2>1, <2>2, ReadCommandOrdered
  <2>3. CASE WorkerStep
    BY <2>1, <2>3, WorkerStepOrdered
  <2>4. CASE TakeUpdate
    BY <2>1, <2>4, TakeUpdateOrdered
  <2>5. CASE DrainEnds \/ NoKey \/ TerminalFails \/ UNCHANGED vars
    BY <2>1, <2>5, IdleOrdered
  <2>6. CASE \E key \in KeyPresses : Press(key)
    BY <2>1, <2>6, PressOrdered
  <2> QED BY <2>2, <2>3, <2>4, <2>5, <2>6 DEF Next
<1>3. InOrder => FollowsTail
  BY DEF InOrder
<1> QED BY <1>1, <1>2, <1>3, PTL DEF Spec
================================================================================
