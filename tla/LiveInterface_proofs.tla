------------------------- MODULE LiveInterface_proofs -------------------------
(***************************************************************************)
(* What the operators of LiveInterface do to an app: which fields a key, a *)
(* command that is sent and an update touch, and that the selections keep  *)
(* pointing at what is shown.                                              *)
(***************************************************************************)
EXTENDS LiveInterface, TLAPS, WellFoundedInduction

Fields == {"status", "follow", "before", "events", "selected", "ended", "reason", "pane", "tab",
           "prompt", "input", "list", "row", "layout", "chunk", "user", "words", "cell",
           "request", "history", "recalled"}

\* From a to b nothing changes outside the fields G.
Changes(a, b, G) == DOMAIN b = Fields /\ \A f \in Fields \ G : b[f] = a[f]

\* What a key touches.  The rest is changed by updates, and by commands sent.
Touched == {"follow", "selected", "pane", "tab", "prompt", "input", "row", "chunk", "user", "cell",
            "request", "history", "recalled"}

Breakpoints == [id : Nat, enabled : BOOLEAN]
Verbs       == Controls \cup Edits \cup Inspections
\* What commands and requests are about, if the lines typed are among I.
Places(I)   == Nat \cup {None} \cup {line.arg : line \in I}
Commands(I) == {c \in [verb : Verbs, id : Places(I)] : c.verb = "Stop" => c.id = 0}
Inputs(I)   == Blank \in I /\ Spoilt \in I /\ [word |-> "mem", arg |-> None] \in I

EventOK(a)   == a.events \in Nat /\ a.selected \in 0 .. LastEvent(a)
RowOK(a)     == /\ a.list \in Seq(Breakpoints)
                /\ InRange(a.row, a.list) /\ (a.list # <<>> => a.row # None)
ChunkOK(a)   == /\ a.layout \in {None} \cup Seq(Nat)
                /\ InShown(a.chunk, a.layout)
                /\ a.user = IF a.chunk = None THEN None ELSE a.layout[a.chunk + 1]
WordOK(a)    == /\ a.words \in {None} \cup Seq(Nat)
                /\ InShown(a.cell, a.words)
LineOK(a, I) == /\ a.input \in I /\ a.history \in Seq(I) /\ InRange(a.recalled, a.history)
                /\ a.request \in Places(I)

App(a, I) ==
  /\ DOMAIN a = Fields
  /\ a.status \in Statuses /\ a.follow \in BOOLEAN /\ a.before \in BOOLEAN \cup {None}
  /\ a.ended \in BOOLEAN
  /\ EventOK(a) /\ RowOK(a) /\ ChunkOK(a) /\ WordOK(a) /\ LineOK(a, I)

\* Who follows the newest event afterwards has it selected, or goes on as before.
FollowKept(a, b) ==
  b.follow => b.selected = LastEvent(b) \/ (a.follow /\ b.selected = a.selected)

\* What a key may make of a.
Handled(a, b, I) == Changes(a, b, Touched) /\ App(b, I) /\ FollowKept(a, b)
Pressed(a, closed, r, I) ==
  /\ Handled(a, r.app, I)
  /\ r.leave => a.ended \/ closed
  /\ r.send = None \/ r.send \in Commands(I)

-----------------------------------------------------------------------------
(* The least index                                                         *)

\* A set of natural numbers that is not empty has a least element.
LEMMA LeastNumber ==
  ASSUME NEW S \in SUBSET Nat, S # {}
  PROVE  \E m \in S : \A n \in S : m <= n
<1>1. \E m \in S : \A n \in S : <<n, m>> \notin OpToRel(<, Nat)
  BY WFMin, NatLessThanWellFounded, Zenon
<1>2. \A n, m \in Nat : <<n, m>> \notin OpToRel(<, Nat) => m <= n
  BY DEF OpToRel
<1> QED BY <1>1, <1>2

-----------------------------------------------------------------------------
(* How changes combine                                                     *)

\* Of two changes one after the other nothing else changes.
LEMMA ChangesThen ==
  ASSUME NEW a, NEW b, NEW c, NEW G, Changes(a, b, G), Changes(b, c, G)
  PROVE  Changes(a, c, G)
BY DEF Changes

\* What changes within few fields changes within more.
LEMMA ChangesMore ==
  ASSUME NEW a, NEW b, NEW G, NEW H, Changes(a, b, G), G \subseteq H
  PROVE  Changes(a, b, H)
BY DEF Changes

\* One key's work after another's is a key's work.
LEMMA HandledThen ==
  ASSUME NEW a, NEW b, NEW c, NEW I, Handled(a, b, I), Handled(b, c, I)
  PROVE  Handled(a, c, I)
<1>1. Changes(a, c, Touched)
  BY ChangesThen DEF Handled
<1>2. a.events = b.events /\ b.events = c.events
  BY DEF Handled, Changes, Touched, Fields
<1>3. FollowKept(a, c)
  BY <1>2 DEF Handled, FollowKept, LastEvent
<1> QED BY <1>1, <1>3 DEF Handled

\* A key that does nothing leaves an app as it may be.
LEMMA HandledNot ==
  ASSUME NEW a, NEW I, App(a, I)
  PROVE  Handled(a, a, I)
BY DEF Handled, Changes, App, FollowKept

\* The focus, the tab and the prompt hang together with nothing else.
LEMMA PanesHandled ==
  ASSUME NEW a, NEW b, NEW I, App(a, I), Changes(a, b, {"pane", "tab", "prompt"})
  PROVE  Handled(a, b, I)
BY DEF Handled, Changes, App, FollowKept, Fields, Touched, EventOK, RowOK, ChunkOK, WordOK, LineOK, LastEvent

\* A key that edits a prompt, its history or the focus leaves the selections alone.
LEMMA InputHandled ==
  ASSUME NEW a, NEW b, NEW I, App(a, I), Changes(a, b, {"pane", "tab", "prompt", "input", "recalled", "history", "request"}),
         LineOK(b, I)
  PROVE  Handled(a, b, I)
BY DEF Handled, Changes, App, FollowKept, Fields, Touched, EventOK, RowOK, ChunkOK, WordOK, LastEvent

\* A key that selects an event, of those there are, leaves the rest alone.
LEMMA EventHandled ==
  ASSUME NEW a, NEW b, NEW I, App(a, I), Changes(a, b, {"follow", "selected"}),
         b.follow \in BOOLEAN, EventOK(b), FollowKept(a, b)
  PROVE  Handled(a, b, I)
BY DEF Handled, Changes, App, Fields, Touched, RowOK, ChunkOK, WordOK, LineOK

\* A key that selects a breakpoint of the list leaves the rest alone.
LEMMA RowHandled ==
  ASSUME NEW a, NEW b, NEW I, App(a, I), Changes(a, b, {"row"}), RowOK(b)
  PROVE  Handled(a, b, I)
BY DEF Handled, Changes, App, FollowKept, Fields, Touched, EventOK, ChunkOK, WordOK, LineOK, LastEvent

\* A key that selects a chunk of the layout leaves the rest alone.
LEMMA ChunkHandled ==
  ASSUME NEW a, NEW b, NEW I, App(a, I), Changes(a, b, {"chunk", "user"}), ChunkOK(b)
  PROVE  Handled(a, b, I)
BY DEF Handled, Changes, App, FollowKept, Fields, Touched, EventOK, RowOK, WordOK, LineOK, LastEvent

\* A key that selects a word of the memory shown leaves the rest alone.
LEMMA WordHandled ==
  ASSUME NEW a, NEW b, NEW I, App(a, I), Changes(a, b, {"cell"}), WordOK(b)
  PROVE  Handled(a, b, I)
BY DEF Handled, Changes, App, FollowKept, Fields, Touched, EventOK, RowOK, ChunkOK, LineOK, LastEvent

-----------------------------------------------------------------------------
(* The event that is selected                                              *)

\* Selecting an event there is (select_event_index).
LEMMA SelectEventHandled ==
  ASSUME NEW a, NEW I, App(a, I), NEW i \in 0 .. LastEvent(a)
  PROVE  Handled(a, SelectEvent(a, i), I)
<1> DEFINE b == SelectEvent(a, i)
<1>1. Changes(a, b, {"follow", "selected"}) /\ b.follow = FALSE /\ b.selected = i
  BY DEF SelectEvent, App, Changes, Fields
<1>2. b.events = a.events
  BY <1>1 DEF Changes, Fields
<1> HIDE DEF b
<1>3. EventOK(b)
  BY <1>1, <1>2 DEF App, EventOK, LastEvent
<1>4. FollowKept(a, b)
  BY <1>1 DEF FollowKept
<1> QED BY <1>1, <1>3, <1>4, EventHandled DEF b

\* Moving up or down the events stops at the first and the last.
LEMMA MoveEventHandled ==
  ASSUME NEW a, NEW I, App(a, I), NEW by \in Int
  PROVE  Handled(a, MoveEvent(a, by), I)
<1>1. a.events \in Nat /\ a.selected \in 0 .. LastEvent(a) /\ LastEvent(a) \in Nat
  BY DEF App, EventOK, LastEvent
<1> DEFINE i == IF a.selected + by < 0 THEN 0 ELSE Least(a.selected + by, LastEvent(a))
<1>2. i \in 0 .. LastEvent(a)
  BY <1>1 DEF Least
<1> QED BY <1>2, SelectEventHandled DEF MoveEvent

\* Following selects the newest event (select_latest_event).
LEMMA SelectLatestHandled ==
  ASSUME NEW a, NEW I, App(a, I)
  PROVE  Handled(a, SelectLatest(a), I)
<1> DEFINE b == SelectLatest(a)
<1>1. Changes(a, b, {"follow", "selected"}) /\ b.follow = TRUE /\ b.selected = LastEvent(a)
  BY DEF SelectLatest, App, Changes, Fields
<1>2. b.events = a.events
  BY <1>1 DEF Changes, Fields
<1> HIDE DEF b
<1>3. EventOK(b) /\ FollowKept(a, b)
  BY <1>1, <1>2 DEF App, EventOK, LastEvent, FollowKept
<1> QED BY <1>1, <1>3, EventHandled DEF b

\* Following may be switched off at any event.
LEMMA UnfollowHandled ==
  ASSUME NEW a, NEW I, App(a, I)
  PROVE  Handled(a, [a EXCEPT !.follow = FALSE], I)
<1> DEFINE b == [a EXCEPT !.follow = FALSE]
<1>1. Changes(a, b, {"follow", "selected"}) /\ b.follow = FALSE
  BY DEF App, Changes, Fields
<1>2. b.events = a.events /\ b.selected = a.selected
  BY DEF App, Fields
<1> HIDE DEF b
<1>3. EventOK(b) /\ FollowKept(a, b)
  BY <1>1, <1>2 DEF App, EventOK, LastEvent, FollowKept
<1> QED BY <1>1, <1>3, EventHandled DEF b

-----------------------------------------------------------------------------
(* The breakpoint that is selected                                         *)

\* An index that is found is one of what was looked for.
LEMMA IndexFound ==
  ASSUME NEW S, NEW s \in Seq(S), NEW x
  PROVE  IF \E i \in DOMAIN s : s[i] = x
         THEN IndexOf(s, x) \in 0 .. Len(s) - 1 /\ s[IndexOf(s, x) + 1] = x
         ELSE IndexOf(s, x) = None
<1>1. CASE \E i \in DOMAIN s : s[i] = x
  <2> DEFINE T == {i \in DOMAIN s : s[i] = x}
             P(i) == s[i] = x /\ \A j \in 1 .. i - 1 : s[j] # x
             c == CHOOSE i \in DOMAIN s : P(i)
  <2>1. DOMAIN s = 1 .. Len(s) /\ Len(s) \in Nat
    OBVIOUS
  <2>2. T \in SUBSET Nat /\ T # {}
    BY <2>1, <1>1
  <2>3. PICK m \in T : \A n \in T : m <= n
    BY <2>2, LeastNumber
  <2>4. m \in DOMAIN s /\ P(m)
    BY <2>1, <2>3
  <2>5. c \in DOMAIN s /\ P(c)
    BY <2>4
  <2>6. IndexOf(s, x) = c - 1
    BY <1>1 DEF IndexOf
  <2> HIDE DEF c, T
  <2> QED BY <2>1, <2>5, <2>6, <1>1
<1>2. CASE ~ \E i \in DOMAIN s : s[i] = x
  BY <1>2 DEF IndexOf
<1> QED BY <1>1, <1>2

\* The id that is selected is that of the row selected, if any.
LEMMA SelectedIdIs ==
  ASSUME NEW a, RowOK(a)
  PROVE  /\ SelectedId(a) \in Nat \cup {None}
         /\ a.row # None => /\ a.row \in 0 .. Len(a.list) - 1
                            /\ SelectedId(a) = a.list[a.row + 1].id
         /\ a.row = None => SelectedId(a) = None
<1>1. CASE a.row = None
  BY <1>1 DEF SelectedId
<1>2. CASE a.row # None
  <2>1. a.row \in 0 .. Len(a.list) - 1 /\ a.list \in Seq(Breakpoints)
    BY <1>2 DEF RowOK, InRange
  <2>2. ~(a.row >= Len(a.list)) /\ a.row + 1 \in DOMAIN a.list
    BY <2>1
  <2>3. a.list[a.row + 1] \in Breakpoints
    BY <2>1, <2>2
  <2>4. a.list[a.row + 1].id \in Nat
    BY <2>3 DEF Breakpoints
  <2> QED BY <1>2, <2>1, <2>2, <2>4 DEF SelectedId
<1> QED BY <1>1, <1>2

\* Normalizing keeps the breakpoint with the id, and selects one if there is any.
LEMMA NormalizedSelects ==
  ASSUME NEW a, DOMAIN a = Fields, a.list \in Seq(Breakpoints),
         a.row = None \/ a.row \in Nat, NEW id \in Nat \cup {None}
  PROVE  LET b == Normalized(a, id) IN
         /\ Changes(a, b, {"row"})
         /\ RowOK(b)
         /\ (\E i \in DOMAIN b.list : b.list[i].id = id) => SelectedId(b) = id
<1> DEFINE b   == Normalized(a, id)
           ids == [i \in DOMAIN a.list |-> a.list[i].id]
           at  == IndexOf(ids, id)
           row == IF a.list = <<>> THEN None
                  ELSE IF id # None /\ at # None THEN at
                  ELSE Least(IF a.row = None THEN 0 ELSE a.row, Len(a.list) - 1)
<1>1. Changes(a, b, {"row"}) /\ b.row = row
  BY DEF Normalized, Changes, Fields
<1>2. b.list = a.list
  BY <1>1 DEF Changes, Fields
<1>3. Len(a.list) \in Nat /\ (a.list # <<>> => Len(a.list) > 0) /\ DOMAIN a.list = 1 .. Len(a.list)
  OBVIOUS
<1>4. None \notin Nat
  BY NoneIsNothing
<1>5. \A i \in DOMAIN a.list : a.list[i].id \in Nat
  <2>1. \A i \in DOMAIN a.list : a.list[i] \in Breakpoints
    OBVIOUS
  <2> QED BY <2>1 DEF Breakpoints
<1>6. ids \in Seq(Nat) /\ DOMAIN ids = DOMAIN a.list /\ Len(ids) = Len(a.list)
  BY <1>3, <1>5
<1>7. \A i \in DOMAIN a.list : ids[i] = a.list[i].id
  OBVIOUS
<1> HIDE DEF ids
<1>8. IF \E i \in DOMAIN ids : ids[i] = id
      THEN at \in 0 .. Len(ids) - 1 /\ ids[at + 1] = id
      ELSE at = None
  BY <1>6, IndexFound
<1> HIDE DEF at, b
<1>9. a.list # <<>> => row \in 0 .. Len(a.list) - 1
  BY <1>3, <1>4, <1>6, <1>8 DEF Least
<1>10. RowOK(b)
  BY <1>1, <1>2, <1>4, <1>9, <1>3 DEF RowOK, InRange
<1>11. ASSUME NEW i \in DOMAIN a.list, a.list[i].id = id
       PROVE  SelectedId(b) = id
  <2>1. id \in Nat
    BY <1>5, <1>11
  <2>2. a.list # <<>>
    BY <1>11
  <2>3. at \in 0 .. Len(a.list) - 1 /\ ids[at + 1] = id
    BY <1>6, <1>7, <1>8, <1>11
  <2>4. row = at /\ a.list[at + 1].id = id
    BY <2>1, <2>2, <2>3, <1>3, <1>4, <1>7
  <2> QED BY <2>3, <2>4, <1>1, <1>2, <1>10, <1>4, SelectedIdIs
<1> QED BY <1>1, <1>2, <1>10, <1>11 DEF b

\* A row within the list may be selected.
LEMMA BreakpointPicked ==
  ASSUME NEW a, NEW b, NEW I, App(a, I), Changes(a, b, {"row"}),
         b.row = IF a.list = <<>> THEN None ELSE b.row,
         a.list # <<>> => b.row \in 0 .. Len(a.list) - 1
  PROVE  Handled(a, b, I)
<1>1. b.list = a.list
  BY DEF Changes, Fields
<1>2. RowOK(b)
  BY <1>1, NoneIsNothing DEF App, RowOK, InRange
<1> QED BY <1>2, RowHandled

\* Moving up or down the breakpoints stops at the ends of the list.
LEMMA MoveBreakpointHandled ==
  ASSUME NEW a, NEW I, App(a, I), NEW by \in Int
  PROVE  Handled(a, MoveBreakpoint(a, by), I)
<1> DEFINE b == Normalized(a, SelectedId(a))
           c == MoveBreakpoint(a, by)
<1>1. DOMAIN a = Fields /\ a.list \in Seq(Breakpoints) /\ (a.row = None \/ a.row \in Nat) /\ RowOK(a)
  BY DEF App, RowOK, InRange
<1>2. Changes(a, b, {"row"}) /\ RowOK(b)
  BY <1>1, NormalizedSelects, SelectedIdIs
<1>3. Handled(a, b, I)
  BY <1>2, RowHandled
<1>4. c = IF b.list = <<>> THEN b ELSE [b EXCEPT !.row = Clamp(b.row + by, Len(b.list))]
  BY DEF MoveBreakpoint
<1> HIDE DEF b, c
<1>5. ASSUME b.list = <<>> PROVE Handled(a, c, I)
  BY <1>3, <1>4, <1>5
<1>6. ASSUME b.list # <<>> PROVE Handled(a, c, I)
  <2>1. b.row \in 0 .. Len(b.list) - 1 /\ Len(b.list) \in Nat
    BY <1>2, <1>6 DEF RowOK, InRange
  <2>2. Clamp(b.row + by, Len(b.list)) \in 0 .. Len(b.list) - 1
    BY <2>1 DEF Clamp, Least
  <2>3. Changes(b, c, {"row"}) /\ c.row = Clamp(b.row + by, Len(b.list))
    BY <1>2, <1>4, <1>6 DEF Changes, Fields
  <2>4. App(b, I)
    BY <1>3 DEF Handled
  <2>5. Handled(b, c, I)
    BY <1>6, <2>2, <2>3, <2>4, BreakpointPicked
  <2> QED BY <1>3, <2>5, HandledThen
<1> QED BY <1>5, <1>6 DEF c

\* So do Home and End.
LEMMA EndsOfBreakpointsHandled ==
  ASSUME NEW a, NEW I, App(a, I)
  PROVE  Handled(a, FirstBreakpoint(a), I) /\ Handled(a, LastBreakpoint(a), I)
<1>1. a.list \in Seq(Breakpoints) /\ DOMAIN a = Fields
  BY DEF App, RowOK
<1>2. a.list # <<>> => 0 \in 0 .. Len(a.list) - 1 /\ Len(a.list) - 1 \in 0 .. Len(a.list) - 1
  BY <1>1
<1>3. Handled(a, FirstBreakpoint(a), I)
  <2>1. Changes(a, FirstBreakpoint(a), {"row"})
        /\ FirstBreakpoint(a).row = IF a.list = <<>> THEN None ELSE 0
    BY <1>1 DEF FirstBreakpoint, Changes, Fields
  <2> QED BY <1>2, <2>1, BreakpointPicked
<1>4. Handled(a, LastBreakpoint(a), I)
  <2>1. Changes(a, LastBreakpoint(a), {"row"})
        /\ LastBreakpoint(a).row = IF a.list = <<>> THEN None ELSE Len(a.list) - 1
    BY <1>1 DEF LastBreakpoint, Changes, Fields
  <2> QED BY <1>2, <2>1, BreakpointPicked
<1> QED BY <1>3, <1>4

-----------------------------------------------------------------------------
(* The chunk that is selected                                              *)

\* What SelectChunk and ClearChunk leave is right, whatever was selected before.
LEMMA SelectChunkRight ==
  ASSUME NEW a, DOMAIN a = Fields, a.layout \in {None} \cup Seq(Nat), NEW i \in Nat
  PROVE  /\ Changes(a, SelectChunk(a, i), {"chunk", "user"}) /\ ChunkOK(SelectChunk(a, i))
         /\ Changes(a, ClearChunk(a), {"chunk", "user"}) /\ ChunkOK(ClearChunk(a))
<1>1. Changes(a, ClearChunk(a), {"chunk", "user"}) /\ ClearChunk(a).chunk = None
      /\ ClearChunk(a).user = None /\ ClearChunk(a).layout = a.layout
  BY DEF ClearChunk, Changes, Fields
<1>2. ChunkOK(ClearChunk(a))
  BY <1>1 DEF ChunkOK, InShown, InRange
<1>3. CASE a.layout = None \/ i >= Len(a.layout)
  BY <1>1, <1>2, <1>3 DEF SelectChunk
<1>4. CASE ~(a.layout = None \/ i >= Len(a.layout))
  <2> DEFINE b == SelectChunk(a, i)
  <2>1. Changes(a, b, {"chunk", "user"}) /\ b.chunk = i /\ b.user = a.layout[i + 1]
        /\ b.layout = a.layout
    BY <1>4 DEF SelectChunk, Changes, Fields
  <2> HIDE DEF b
  <2>2. i \in 0 .. Len(a.layout) - 1 /\ i # None
    BY <1>4, NoneIsNothing
  <2>3. ChunkOK(b)
    BY <1>4, <2>1, <2>2 DEF ChunkOK, InShown, InRange
  <2> QED BY <1>1, <1>2, <2>1, <2>3 DEF b
<1> QED BY <1>3, <1>4

\* A chunk is selected with its address, or none is (select_chunk_index).
LEMMA SelectChunkHandled ==
  ASSUME NEW a, NEW I, App(a, I), NEW i \in Nat
  PROVE  Handled(a, SelectChunk(a, i), I) /\ Handled(a, ClearChunk(a), I)
<1>1. DOMAIN a = Fields /\ a.layout \in {None} \cup Seq(Nat)
  BY DEF App, ChunkOK
<1> QED BY <1>1, SelectChunkRight, ChunkHandled

\* Moving up or down the chunks stops at the ends of the layout.
LEMMA MoveChunkHandled ==
  ASSUME NEW a, NEW I, App(a, I), NEW by \in Int
  PROVE  Handled(a, MoveChunk(a, by), I)
<1>1. CASE a.layout \in {None, <<>>}
  BY <1>1, 0 \in Nat, SelectChunkHandled DEF MoveChunk
<1>2. CASE a.layout \notin {None, <<>>}
  <2> DEFINE i == IF a.chunk = None THEN 0 ELSE Clamp(a.chunk + by, Len(a.layout))
  <2>1. a.layout \in Seq(Nat) /\ Len(a.layout) \in Nat /\ Len(a.layout) > 0
    BY <1>2 DEF App, ChunkOK
  <2>2. a.chunk = None \/ a.chunk \in Nat
    BY <1>2 DEF App, ChunkOK, InShown, InRange
  <2>3. i \in Nat
    BY <2>1, <2>2 DEF Clamp, Least
  <2>4. MoveChunk(a, by) = SelectChunk(a, i)
    BY <1>2 DEF MoveChunk
  <2> QED BY <2>3, <2>4, SelectChunkHandled
<1> QED BY <1>1, <1>2

\* A chunk that is found is at the place given, and one that is not is nowhere.
LEMMA ChunkFound ==
  ASSUME NEW a, a.layout \in {None} \cup Seq(Nat), NEW user
  PROVE  \/ FindChunk(a, user) = None /\ (a.layout = None \/ ~ \E i \in DOMAIN a.layout : a.layout[i] = user)
         \/ /\ a.layout # None /\ FindChunk(a, user) \in 0 .. Len(a.layout) - 1
            /\ a.layout[FindChunk(a, user) + 1] = user
            /\ FindChunk(a, user) # None
<1>1. CASE a.layout = None
  BY <1>1 DEF FindChunk
<1>2. CASE a.layout # None
  <2>1. a.layout \in Seq(Nat) /\ FindChunk(a, user) = IndexOf(a.layout, user)
    BY <1>2 DEF FindChunk
  <2>2. 0 .. Len(a.layout) - 1 \subseteq Nat
    BY <2>1
  <2> QED BY <1>2, <2>1, <2>2, IndexFound, NoneIsNothing
<1> QED BY <1>1, <1>2

\* After a new layout the chunk that was selected is so again if it is shown.
LEMMA RelocatedSelects ==
  ASSUME NEW a, DOMAIN a = Fields, a.layout \in {None} \cup Seq(Nat),
         a.chunk \in Nat \cup {None}, a.chunk = None => a.user = None
  PROVE  LET b == Relocated(a) IN
         /\ Changes(a, b, {"chunk", "user"})
         /\ ChunkOK(b)
         /\ a.layout # None /\ (\E i \in DOMAIN a.layout : a.layout[i] = a.user) /\ a.user # None
              => b.user = a.user
<1> DEFINE b  == Relocated(a)
           at == FindChunk(a, a.user)
<1>1. \/ at = None /\ (a.layout = None \/ ~ \E i \in DOMAIN a.layout : a.layout[i] = a.user)
      \/ a.layout # None /\ at \in 0 .. Len(a.layout) - 1 /\ a.layout[at + 1] = a.user /\ at # None
  BY ChunkFound
<1>2. a.layout # None => a.layout \in Seq(Nat) /\ Len(a.layout) \in Nat /\ DOMAIN a.layout = 1 .. Len(a.layout)
  OBVIOUS
<1> HIDE DEF at
<1>3. CASE a.layout \in {None, <<>>}
  <2>1. b = ClearChunk(a)
    BY <1>3 DEF Relocated
  <2> QED BY <1>3, <2>1, SelectChunkRight, 0 \in Nat
<1>4. CASE a.layout \notin {None, <<>>} /\ a.user # None /\ at # None
  <2>1. b = SelectChunk(a, at)
    BY <1>4 DEF Relocated, at
  <2>2. at \in Nat /\ ~(at >= Len(a.layout))
    BY <1>1, <1>2, <1>4
  <2>3. b.user = a.layout[at + 1]
    BY <2>1, <2>2, <1>4 DEF SelectChunk, Fields
  <2> QED BY <1>1, <1>4, <2>1, <2>2, <2>3, SelectChunkRight
<1>5. CASE a.layout \notin {None, <<>>} /\ ~(a.user # None /\ at # None) /\ a.chunk # None
  <2> DEFINE i == Least(a.chunk, Len(a.layout) - 1)
  <2>1. b = SelectChunk(a, i)
    BY <1>5 DEF Relocated, at
  <2>2. Len(a.layout) > 0
    BY <1>2, <1>5
  <2>3. i \in Nat
    BY <2>2, <1>2, <1>5 DEF Least
  <2> QED BY <1>1, <1>2, <1>5, <2>1, <2>3, SelectChunkRight
<1>6. CASE a.layout \notin {None, <<>>} /\ ~(a.user # None /\ at # None) /\ a.chunk = None
  <2>1. b = a /\ a.user = None
    BY <1>6 DEF Relocated, at
  <2> QED BY <2>1, <1>6 DEF Changes, ChunkOK, InShown, InRange
<1> QED BY <1>3, <1>4, <1>5, <1>6

\* Enter selects the first chunk, or the one that was selected.
LEMMA EnterChunkHandled ==
  ASSUME NEW a, NEW I, App(a, I)
  PROVE  Handled(a, EnterChunk(a), I)
<1>1. DOMAIN a = Fields /\ a.layout \in {None} \cup Seq(Nat)
  BY DEF App, ChunkOK
<1>2. a.chunk \in Nat \cup {None} /\ (a.chunk = None => a.user = None)
  BY DEF App, ChunkOK, InShown, InRange
<1>3. Handled(a, Relocated(a), I)
  BY <1>1, <1>2, RelocatedSelects, ChunkHandled
<1> QED BY <1>3, MoveChunkHandled DEF EnterChunk

-----------------------------------------------------------------------------
(* The word of memory that is selected                                     *)

\* The first word of new memory is selected, if it has any.
LEMMA FirstWordRight ==
  ASSUME NEW a, DOMAIN a = Fields, a.words \in {None} \cup Seq(Nat)
  PROVE  Changes(a, FirstWord(a), {"cell"}) /\ WordOK(FirstWord(a))
<1> DEFINE b == FirstWord(a)
<1>1. Changes(a, b, {"cell"}) /\ b.words = a.words
      /\ b.cell = IF a.words \in {None, <<>>} THEN None ELSE 0
  BY DEF FirstWord, Changes, Fields
<1> HIDE DEF b
<1>2. WordOK(b)
  BY <1>1 DEF WordOK, InShown, InRange
<1> QED BY <1>1, <1>2 DEF b

\* A word of those shown may be selected.
LEMMA WordPicked ==
  ASSUME NEW a, NEW b, NEW I, App(a, I), Changes(a, b, {"cell"}),
         a.words \in {None, <<>>} => b.cell = None,
         a.words \notin {None, <<>>} => b.cell \in 0 .. Len(a.words) - 1
  PROVE  Handled(a, b, I)
<1>1. b.words = a.words /\ a.words \in {None} \cup Seq(Nat)
  BY DEF Changes, Fields, App, WordOK
<1>2. WordOK(b)
  BY <1>1 DEF WordOK, InShown, InRange
<1> QED BY <1>2, WordHandled

\* Moving about the words of memory stops at the first and the last.
LEMMA WordsHandled ==
  ASSUME NEW a, NEW I, App(a, I), NEW by \in Int
  PROVE  /\ Handled(a, FirstWord(a), I) /\ Handled(a, LastWord(a), I)
         /\ Handled(a, MoveWord(a, by), I)
<1>1. DOMAIN a = Fields /\ a.words \in {None} \cup Seq(Nat)
  BY DEF App, WordOK
<1>2. a.words \notin {None, <<>>} => Len(a.words) \in Nat /\ Len(a.words) > 0
  BY <1>1
<1>3. a.cell = None \/ (a.words # None /\ a.cell \in 0 .. Len(a.words) - 1)
  BY DEF App, WordOK, InShown, InRange
<1>4. Handled(a, FirstWord(a), I)
  BY <1>1, FirstWordRight, WordHandled
<1>5. Handled(a, LastWord(a), I)
  <2>1. Changes(a, LastWord(a), {"cell"})
        /\ LastWord(a).cell = IF a.words \in {None, <<>>} THEN None ELSE Len(a.words) - 1
    BY <1>1 DEF LastWord, Changes, Fields
  <2> QED BY <1>2, <2>1, WordPicked
<1>6. Handled(a, MoveWord(a, by), I)
  <2> DEFINE i == Clamp((IF a.cell = None THEN 0 ELSE Least(a.cell, Len(a.words) - 1)) + by,
                        Len(a.words))
  <2>1. Changes(a, MoveWord(a, by), {"cell"})
        /\ MoveWord(a, by).cell = IF a.words \in {None, <<>>} THEN None ELSE i
    BY <1>1 DEF MoveWord, Changes, Fields
  <2>2. a.words \notin {None, <<>>} => i \in 0 .. Len(a.words) - 1
    BY <1>2, <1>3 DEF Clamp, Least
  <2> HIDE DEF i
  <2> QED BY <2>1, <2>2, WordPicked
<1> QED BY <1>4, <1>5, <1>6

\* The word that is selected is a number, 0 if there is none.
LEMMA SelectedWordIs ==
  ASSUME NEW a, WordOK(a)
  PROVE  SelectedWord(a) \in Nat
<1>1. CASE a.words = None \/ a.cell = None \/ a.cell >= Len(a.words)
  BY <1>1 DEF SelectedWord
<1>2. CASE ~(a.words = None \/ a.cell = None \/ a.cell >= Len(a.words))
  <2>1. a.words \in Seq(Nat) /\ a.cell \in 0 .. Len(a.words) - 1
    BY <1>2 DEF WordOK, InShown, InRange
  <2> QED BY <1>2, <2>1 DEF SelectedWord
<1> QED BY <1>1, <1>2

-----------------------------------------------------------------------------
(* Panes, prompts and what is typed                                        *)

\* The focus selects nothing.
LEMMA FocusHandled ==
  ASSUME NEW a, NEW I, App(a, I), NEW x
  PROVE  Handled(a, Focus(a, x), I) /\ Handled(a, OnTab(a, x), I)
<1>1. Changes(a, Focus(a, x), {"pane", "tab", "prompt"})
      /\ Changes(a, OnTab(a, x), {"pane", "tab", "prompt"})
  BY DEF App, Changes, Fields, Focus, OnTab
<1> QED BY <1>1, PanesHandled

\* Nothing is recalled, and the input is one of the lines there are.
LEMMA TypedHandled ==
  ASSUME NEW a, NEW b, NEW I, App(a, I), Changes(a, b, {"pane", "tab", "prompt", "input", "recalled"}),
         b.input \in I, b.recalled = None \/ b.recalled = a.recalled
  PROVE  Handled(a, b, I)
<1>1. b.history = a.history /\ b.request = a.request
  BY DEF Changes, Fields
<1>2. LineOK(b, I)
  BY <1>1 DEF App, LineOK, InRange
<1>3. Changes(a, b, {"pane", "tab", "prompt", "input", "recalled", "history", "request"})
  BY DEF Changes
<1> QED BY <1>2, <1>3, InputHandled

\* A search that ends selects the chunk it found.
LEMMA JumpToHandled ==
  ASSUME NEW a, NEW I, App(a, I), Inputs(I), NEW i \in Nat
  PROVE  Handled(a, JumpTo(a, i), I)
<1> DEFINE b == SelectChunk(a, i)
           c == JumpTo(a, i)
<1>1. Handled(a, b, I) /\ App(b, I)
  BY SelectChunkHandled DEF Handled
<1>2. c = [OnTab(b, "Heap") EXCEPT !.prompt = None, !.input = Blank]
  BY DEF JumpTo
<1> HIDE DEF b
<1>3. Changes(b, c, {"pane", "tab", "prompt", "input", "recalled"}) /\ c.input = Blank
      /\ c.recalled = b.recalled
  BY <1>1, <1>2 DEF App, Changes, Fields, OnTab
<1> HIDE DEF c
<1>4. Handled(b, c, I)
  BY <1>1, <1>3, TypedHandled DEF Inputs
<1> QED BY <1>1, <1>4, HandledThen DEF c

\* A search selects the chunk it finds, and nothing if it finds none.
LEMMA SearchHandled ==
  ASSUME NEW a, NEW I, App(a, I), Inputs(I), NEW user
  PROVE  Handled(a, Search(a, user), I)
<1> DEFINE at == FindChunk(a, user)
<1>1. a.layout \in {None} \cup Seq(Nat) /\ DOMAIN a = Fields
  BY DEF App, ChunkOK
<1>2. at = None \/ (a.layout # None /\ at \in 0 .. Len(a.layout) - 1)
  BY <1>1, ChunkFound
<1>3. at = None \/ at \in Nat
  BY <1>1, <1>2
<1>4. at # None => Handled(a, JumpTo(a, at), I)
  BY <1>3, JumpToHandled
<1>5. Handled(a, [a EXCEPT !.prompt = None], I)
  <2>1. Changes(a, [a EXCEPT !.prompt = None], {"pane", "tab", "prompt"})
    BY <1>1 DEF Changes, Fields
  <2> QED BY <2>1, PanesHandled
<1> QED BY <1>4, <1>5, HandledNot DEF Search

\* A line that is executed is put into the history (remember_console_command).
LEMMA RememberedHandled ==
  ASSUME NEW a, NEW I, App(a, I), NEW line \in I, a.recalled = None
  PROVE  Handled(a, Remembered(a, line), I)
<1> DEFINE b == Remembered(a, line)
<1>1. b = a \/ b = [a EXCEPT !.history = Append(a.history, line)]
  BY DEF Remembered
<1>2. CASE b = a
  BY <1>2, HandledNot
<1>3. CASE b = [a EXCEPT !.history = Append(a.history, line)]
  <2>1. Changes(a, b, {"history"}) /\ b.history = Append(a.history, line)
    BY <1>3 DEF App, Changes, Fields
  <2> HIDE DEF b
  <2>2. Changes(a, b, {"pane", "tab", "prompt", "input", "recalled", "history", "request"})
    BY <2>1, ChangesMore
  <2>3. b.input = a.input /\ b.recalled = None /\ b.request = a.request
    BY <2>1 DEF Changes, Fields
  <2>4. b.history \in Seq(I)
    BY <2>1 DEF App, LineOK
  <2>5. LineOK(b, I)
    BY <2>3, <2>4 DEF App, LineOK, InRange
  <2> QED BY <2>2, <2>5, InputHandled DEF b
<1> QED BY <1>1, <1>2, <1>3

\* A line of the history may be recalled.
LEMMA RecallHandled ==
  ASSUME NEW a, NEW I, App(a, I), NEW i \in 0 .. Len(a.history) - 1
  PROVE  Handled(a, Recall(a, i), I)
<1> DEFINE b == Recall(a, i)
<1>1. a.history \in Seq(I) /\ Len(a.history) \in Nat /\ DOMAIN a = Fields
  BY DEF App, LineOK
<1>2. a.history[i + 1] \in I
  BY <1>1
<1>3. Changes(a, b, {"input", "recalled"}) /\ b.recalled = i /\ b.input = a.history[i + 1]
  BY <1>1 DEF Recall, Changes, Fields
<1> HIDE DEF b
<1>4. Changes(a, b, {"pane", "tab", "prompt", "input", "recalled", "history", "request"})
      /\ b.history = a.history /\ b.request = a.request
  BY <1>3 DEF Changes, Fields
<1>5. LineOK(b, I)
  BY <1>1, <1>2, <1>3, <1>4 DEF App, LineOK, InRange
<1> QED BY <1>4, <1>5, InputHandled DEF b

\* Up and Down walk the history and stop at its first line.
LEMMA HistoryHandled ==
  ASSUME NEW a, NEW I, App(a, I), Inputs(I)
  PROVE  Handled(a, HistoryPrevious(a), I) /\ Handled(a, HistoryNext(a), I)
<1>1. a.history \in Seq(I) /\ Len(a.history) \in Nat /\ DOMAIN a = Fields
      /\ (a.recalled = None \/ a.recalled \in 0 .. Len(a.history) - 1)
      /\ (a.history # <<>> => Len(a.history) > 0)
  BY DEF App, LineOK, InRange
<1>2. Handled(a, HistoryPrevious(a), I)
  <2> DEFINE i == IF a.recalled = None THEN Len(a.history) - 1
                  ELSE IF a.recalled = 0 THEN 0 ELSE a.recalled - 1
  <2>1. a.history # <<>> => i \in 0 .. Len(a.history) - 1
    BY <1>1
  <2>2. HistoryPrevious(a) = IF a.history = <<>> THEN a ELSE Recall(a, i)
    BY DEF HistoryPrevious
  <2> HIDE DEF i
  <2> QED BY <2>1, <2>2, RecallHandled, HandledNot
<1>3. Handled(a, HistoryNext(a), I)
  <2> DEFINE b == [a EXCEPT !.recalled = None, !.input = Blank]
  <2>1. Handled(a, b, I)
    <3>1. Changes(a, b, {"pane", "tab", "prompt", "input", "recalled"}) /\ b.input = Blank
          /\ b.recalled = None
      BY <1>1 DEF Changes, Fields
    <3> HIDE DEF b
    <3> QED BY <3>1, TypedHandled DEF Inputs
  <2> HIDE DEF b
  <2>2. CASE a.recalled = None
    BY <2>2, HandledNot DEF HistoryNext
  <2>3. CASE a.recalled # None /\ a.recalled + 1 >= Len(a.history)
    BY <2>1, <2>3 DEF HistoryNext, b
  <2>4. CASE a.recalled # None /\ ~(a.recalled + 1 >= Len(a.history))
    <3>1. a.recalled + 1 \in 0 .. Len(a.history) - 1
      BY <1>1, <2>4
    <3> QED BY <2>4, <3>1, RecallHandled DEF HistoryNext
  <2> QED BY <2>2, <2>3, <2>4
<1> QED BY <1>2, <1>3

-----------------------------------------------------------------------------
(* What a key does                                                         *)

\* A key that sends no command.
LEMMA DoesPressed ==
  ASSUME NEW a, NEW b, NEW I, NEW closed, Handled(a, b, I)
  PROVE  Pressed(a, closed, Does(b), I)
BY DEF Pressed, Does

\* A key that sends a command, about an id or an address that was shown or typed.
LEMMA SendsPressed ==
  ASSUME NEW a, NEW b, NEW I, NEW closed, Handled(a, b, I), NEW verb \in Verbs
  PROVE  /\ Pressed(a, closed, Sends(b, verb), I)
         /\ verb # "Stop" => \A id \in Places(I) : Pressed(a, closed, SendsOf(b, verb, id), I)
<1>1. 0 \in Places(I)
  BY DEF Places
<1> QED BY <1>1 DEF Pressed, Sends, SendsOf, Command, Commands

\* Asking for a stop sends one; only what is over is left (request_live_stop).
LEMMA StopPressed ==
  ASSUME NEW a, NEW b, NEW I, NEW closed, Handled(a, b, I)
  PROVE  Pressed(a, closed, RequestStop(b, closed), I) /\ Pressed(a, closed, StopOrLeave(b, closed), I)
<1>1. b.ended = a.ended
  BY DEF Handled, Changes, Fields, Touched
<1>2. "Stop" \in Verbs
  BY DEF Verbs, Controls
<1>3. Pressed(a, closed, Does(b), I) /\ Pressed(a, closed, Sends(b, "Stop"), I)
  BY <1>2, DoesPressed, SendsPressed
<1>4. a.ended \/ closed => Pressed(a, closed, Leaves(b), I)
  BY DEF Pressed, Leaves
<1> QED BY <1>1, <1>3, <1>4 DEF RequestStop, StopOrLeave

\* A word typed in is a command or none.
LEMMA VerbsTyped ==
  ASSUME NEW word
  PROVE  VerbTyped(word) \in Verbs \cup {None}
BY DEF VerbTyped, Verbs, Controls, StepVerbs, SourceSteps, Edits

\* One that takes an argument edits the breakpoints.
LEMMA TakesVerb ==
  ASSUME NEW word \in TakesArgument
  PROVE  VerbTyped(word) \in Verbs \ {"Stop"}
BY DEF TakesArgument, VerbTyped, Verbs, Edits

\* Whatever line is executed (execute_console_command).
LEMMA ExecutePressed ==
  ASSUME NEW a, NEW b, NEW I, NEW closed, Inputs(I), Handled(a, b, I), NEW line \in I
  PROVE  Pressed(a, closed, Execute(b, closed, line), I)
<1>1. App(b, I) /\ DOMAIN b = Fields
  BY DEF Handled, App
<1>2. line.arg \in Places(I)
  BY DEF Places
<1>3. Handled(a, OnTab(b, line.arg), I) /\ Handled(a, Focus(b, "Registers"), I)
      /\ Handled(a, Focus(b, "Code"), I) /\ Handled(a, Search(b, line.arg), I)
  BY <1>1, FocusHandled, SearchHandled, HandledThen
<1>4. Handled(a, [b EXCEPT !.request = line.arg], I)
  <2> DEFINE c == [b EXCEPT !.request = line.arg]
  <2>1. Changes(b, c, {"pane", "tab", "prompt", "input", "recalled", "history", "request"})
        /\ c.input = b.input /\ c.recalled = b.recalled /\ c.history = b.history
        /\ c.request = line.arg
    BY <1>1 DEF Changes, Fields
  <2> HIDE DEF c
  <2>2. LineOK(c, I)
    BY <1>1, <1>2, <2>1 DEF App, LineOK, InRange
  <2>3. Handled(b, c, I)
    BY <1>1, <2>1, <2>2, InputHandled
  <2> QED BY <2>3, HandledThen DEF c
<1>5. Pressed(a, closed, StopOrLeave(b, closed), I)
  BY StopPressed
<1>6. /\ Pressed(a, closed, Does(OnTab(b, line.arg)), I)
      /\ Pressed(a, closed, Does(Search(b, line.arg)), I)
      /\ Pressed(a, closed, Does(Focus(b, "Registers")), I)
      /\ Pressed(a, closed, Does(Focus(b, "Code")), I)
      /\ Pressed(a, closed, Does(b), I)
  BY <1>3, DoesPressed
<1>7. Pressed(a, closed, SendsOf([b EXCEPT !.request = line.arg], "InspectMemory", line.arg), I)
  <2>1. "InspectMemory" \in Verbs
    BY DEF Verbs, Inspections
  <2> QED BY <2>1, <1>2, <1>4, SendsPressed
<1>8. line.word \in TakesArgument => Pressed(a, closed, SendsOf(b, VerbTyped(line.word), line.arg), I)
  BY <1>2, TakesVerb, SendsPressed
<1>9. VerbTyped(line.word) # None => Pressed(a, closed, Sends(b, VerbTyped(line.word)), I)
  BY VerbsTyped, SendsPressed
<1> QED BY <1>5, <1>6, <1>7, <1>8, <1>9 DEF Execute

\* Enter executes the line typed in (submit_console_input).
LEMMA SubmitPressed ==
  ASSUME NEW a, NEW I, NEW closed, App(a, I), Inputs(I)
  PROVE  Pressed(a, closed, Submit(a, closed), I)
<1> DEFINE b == [a EXCEPT !.prompt = None, !.input = Blank, !.recalled = None]
<1>1. Changes(a, b, {"pane", "tab", "prompt", "input", "recalled"}) /\ b.input = Blank
      /\ b.recalled = None
  BY DEF App, Changes, Fields
<1>2. Submit(a, closed) = IF a.input = Blank THEN Does(b)
                          ELSE Execute(Remembered(b, a.input), closed, a.input)
  BY DEF Submit
<1> HIDE DEF b
<1>3. Handled(a, b, I) /\ App(b, I) /\ a.input \in I
  BY <1>1, TypedHandled DEF Inputs, Handled, App, LineOK
<1>4. Handled(a, Remembered(b, a.input), I)
  BY <1>1, <1>3, RememberedHandled, HandledThen
<1> QED BY <1>2, <1>3, <1>4, ExecutePressed, DoesPressed

\* A line of the input that is one of Lines goes with the rest as it was.
LEMMA InputTyped ==
  ASSUME NEW a, NEW I, App(a, I), NEW line \in I
  PROVE  /\ Handled(a, [a EXCEPT !.input = line], I)
         /\ Handled(a, [a EXCEPT !.prompt = None, !.input = line], I)
         /\ Handled(a, [a EXCEPT !.prompt = "search", !.input = line], I)
         /\ Handled(a, [a EXCEPT !.prompt = "console", !.input = line], I)
         /\ Handled(a, [a EXCEPT !.prompt = None, !.input = line, !.recalled = None], I)
<1> DEFINE G == {"pane", "tab", "prompt", "input", "recalled"}
<1>1. Handled(a, [a EXCEPT !.input = line], I)
  <2> DEFINE b == [a EXCEPT !.input = line]
  <2>1. Changes(a, b, G) /\ b.input = line /\ b.recalled = a.recalled
    BY DEF App, Changes, Fields
  <2> HIDE DEF b
  <2> QED BY <2>1, TypedHandled DEF b
<1>2. Handled(a, [a EXCEPT !.prompt = None, !.input = line], I)
  <2> DEFINE b == [a EXCEPT !.prompt = None, !.input = line]
  <2>1. Changes(a, b, G) /\ b.input = line /\ b.recalled = a.recalled
    BY DEF App, Changes, Fields
  <2> HIDE DEF b
  <2> QED BY <2>1, TypedHandled DEF b
<1>3. Handled(a, [a EXCEPT !.prompt = "search", !.input = line], I)
  <2> DEFINE b == [a EXCEPT !.prompt = "search", !.input = line]
  <2>1. Changes(a, b, G) /\ b.input = line /\ b.recalled = a.recalled
    BY DEF App, Changes, Fields
  <2> HIDE DEF b
  <2> QED BY <2>1, TypedHandled DEF b
<1>4. Handled(a, [a EXCEPT !.prompt = "console", !.input = line], I)
  <2> DEFINE b == [a EXCEPT !.prompt = "console", !.input = line]
  <2>1. Changes(a, b, G) /\ b.input = line /\ b.recalled = a.recalled
    BY DEF App, Changes, Fields
  <2> HIDE DEF b
  <2> QED BY <2>1, TypedHandled DEF b
<1>5. Handled(a, [a EXCEPT !.prompt = None, !.input = line, !.recalled = None], I)
  <2> DEFINE b == [a EXCEPT !.prompt = None, !.input = line, !.recalled = None]
  <2>1. Changes(a, b, G) /\ b.input = line /\ b.recalled = None
    BY DEF App, Changes, Fields
  <2> HIDE DEF b
  <2> QED BY <2>1, TypedHandled DEF b
<1> QED BY <1>1, <1>2, <1>3, <1>4, <1>5

\* Closing a prompt selects nothing.
LEMMA PromptClosed ==
  ASSUME NEW a, NEW I, App(a, I)
  PROVE  Handled(a, [a EXCEPT !.prompt = None], I)
<1>1. Changes(a, [a EXCEPT !.prompt = None], {"pane", "tab", "prompt"})
  BY DEF App, Changes, Fields
<1> QED BY <1>1, PanesHandled

\* Whatever key is pressed in a search (handle_live_tui_search_key).
LEMMA SearchKeyHandled ==
  ASSUME NEW a, NEW I, App(a, I), Inputs(I), NEW key, key.line \in I
  PROVE  Handled(a, SearchKey(a, key), I)
<1> DEFINE typed  == IF a.input = Blank THEN key.line ELSE Spoilt
           erased == IF a.input = Blank THEN Blank ELSE Spoilt
<1>1. typed \in I /\ erased \in I /\ Blank \in I /\ Spoilt \in I
  BY DEF Inputs
<1>2. /\ Handled(a, [a EXCEPT !.input = typed], I)
      /\ Handled(a, [a EXCEPT !.input = erased], I)
      /\ Handled(a, [a EXCEPT !.input = Spoilt], I)
      /\ Handled(a, [a EXCEPT !.prompt = None, !.input = Blank], I)
  <2> HIDE DEF typed, erased
  <2> QED BY <1>1, InputTyped
<1>3. Handled(a, a, I) /\ Handled(a, Search(a, a.input.arg), I) /\ Handled(a, [a EXCEPT !.prompt = None], I)
  BY HandledNot, SearchHandled, PromptClosed
<1> QED BY <1>2, <1>3 DEF SearchKey

\* Whatever key is pressed in the console (handle_live_tui_console_key).
LEMMA ConsoleKeyPressed ==
  ASSUME NEW a, NEW I, NEW closed, App(a, I), Inputs(I), NEW key, key.line \in I
  PROVE  Pressed(a, closed, ConsoleKey(a, closed, key), I)
<1> DEFINE typed  == IF a.input = Blank THEN key.line
                     ELSE IF a.input.word = key.line.word /\ a.input.arg = None THEN key.line
                     ELSE Spoilt
           erased == IF a.input = Blank THEN Blank ELSE Spoilt
<1>1. typed \in I /\ erased \in I /\ Blank \in I /\ Spoilt \in I
  BY DEF Inputs
<1>2. /\ Handled(a, [a EXCEPT !.input = typed], I)
      /\ Handled(a, [a EXCEPT !.input = erased], I)
      /\ Handled(a, [a EXCEPT !.input = Spoilt], I)
      /\ Handled(a, [a EXCEPT !.prompt = None, !.input = Blank, !.recalled = None], I)
  <2> HIDE DEF typed, erased
  <2> QED BY <1>1, InputTyped
<1>3. /\ Pressed(a, closed, Does([a EXCEPT !.input = typed]), I)
      /\ Pressed(a, closed, Does([a EXCEPT !.input = erased]), I)
      /\ Pressed(a, closed, Does([a EXCEPT !.input = Spoilt]), I)
      /\ Pressed(a, closed, Does([a EXCEPT !.prompt = None, !.input = Blank, !.recalled = None]), I)
  BY <1>2, DoesPressed
<1>4. /\ Pressed(a, closed, Does(a), I)
      /\ Pressed(a, closed, Does(HistoryPrevious(a)), I)
      /\ Pressed(a, closed, Does(HistoryNext(a)), I)
  BY HandledNot, HistoryHandled, DoesPressed
<1>5. Pressed(a, closed, Submit(a, closed), I)
  BY SubmitPressed
<1> QED BY <1>3, <1>4, <1>5 DEF ConsoleKey

\* The breakpoint that is acted on is one that is listed.
LEMMA BreakpointActed ==
  ASSUME NEW a, NEW I, NEW closed, App(a, I)
  PROVE  /\ Pressed(a, closed, InspectBreakpoint(a), I)
         /\ Pressed(a, closed, ToggleBreakpoint(a), I)
         /\ Pressed(a, closed, DeleteBreakpoint(a), I)
<1>1. SelectedId(a) \in Places(I)
  BY SelectedIdIs DEF App, Places
<1>2. {"InspectCodeAt", "DisableUserBreakpoint", "EnableUserBreakpoint", "DeleteUserBreakpoint"}
        \subseteq Verbs
  BY DEF Verbs, Inspections, Edits
<1>3. Handled(a, a, I) /\ Handled(a, Focus(a, "Code"), I)
  BY HandledNot, FocusHandled
<1>4. /\ Pressed(a, closed, Does(a), I)
      /\ Pressed(a, closed, SendsOf(Focus(a, "Code"), "InspectCodeAt", SelectedId(a)), I)
      /\ Pressed(a, closed, SendsOf(a, "DisableUserBreakpoint", SelectedId(a)), I)
      /\ Pressed(a, closed, SendsOf(a, "EnableUserBreakpoint", SelectedId(a)), I)
      /\ Pressed(a, closed, SendsOf(a, "DeleteUserBreakpoint", SelectedId(a)), I)
  BY <1>1, <1>2, <1>3, DoesPressed, SendsPressed
<1> QED BY <1>4 DEF InspectBreakpoint, ToggleBreakpoint, DeleteBreakpoint

\* Whatever key is pressed on the breakpoints (handle_live_breakpoints_tab_key).
LEMMA BreakpointsKeyPressed ==
  ASSUME NEW a, NEW I, NEW closed, App(a, I), NEW code
  PROVE  Pressed(a, closed, BreakpointsKey(a, code), I)
<1>1. /\ Handled(a, MoveBreakpoint(a, 1), I) /\ Handled(a, MoveBreakpoint(a, -1), I)
      /\ Handled(a, MoveBreakpoint(a, 10), I) /\ Handled(a, MoveBreakpoint(a, -10), I)
      /\ Handled(a, FirstBreakpoint(a), I) /\ Handled(a, LastBreakpoint(a), I)
  BY MoveBreakpointHandled, EndsOfBreakpointsHandled
<1>2. /\ Pressed(a, closed, Does(MoveBreakpoint(a, 1)), I)
      /\ Pressed(a, closed, Does(MoveBreakpoint(a, -1)), I)
      /\ Pressed(a, closed, Does(MoveBreakpoint(a, 10)), I)
      /\ Pressed(a, closed, Does(MoveBreakpoint(a, -10)), I)
      /\ Pressed(a, closed, Does(FirstBreakpoint(a)), I)
      /\ Pressed(a, closed, Does(LastBreakpoint(a)), I)
  BY <1>1, DoesPressed
<1> QED BY <1>2, BreakpointActed DEF BreakpointsKey

\* Whatever key is pressed on the memory (handle_live_memory_tab_key).
LEMMA MemoryKeyPressed ==
  ASSUME NEW a, NEW I, NEW closed, App(a, I), Inputs(I), NEW code
  PROVE  Pressed(a, closed, MemoryKey(a, code), I)
<1>1. /\ Handled(a, MoveWord(a, 1), I) /\ Handled(a, MoveWord(a, -1), I)
      /\ Handled(a, MoveWord(a, 10), I) /\ Handled(a, MoveWord(a, -10), I)
      /\ Handled(a, FirstWord(a), I) /\ Handled(a, LastWord(a), I)
  BY WordsHandled
<1>2. /\ Pressed(a, closed, Does(MoveWord(a, 1)), I)
      /\ Pressed(a, closed, Does(MoveWord(a, -1)), I)
      /\ Pressed(a, closed, Does(MoveWord(a, 10)), I)
      /\ Pressed(a, closed, Does(MoveWord(a, -10)), I)
      /\ Pressed(a, closed, Does(FirstWord(a)), I)
      /\ Pressed(a, closed, Does(LastWord(a)), I)
  BY <1>1, DoesPressed
<1>3. "InspectMemory" \in Verbs /\ a.request \in Places(I) /\ SelectedWord(a) \in Places(I)
  BY SelectedWordIs DEF Verbs, Inspections, App, LineOK, Places
<1>4. Pressed(a, closed, Does(a), I)
  BY HandledNot, DoesPressed
<1>5. Pressed(a, closed, SendsOf(a, "InspectMemory", a.request), I)
      /\ Pressed(a, closed, SendsOf(a, "InspectMemory", SelectedWord(a)), I)
  BY <1>3, HandledNot, SendsPressed
<1>6. Pressed(a, closed, InspectWord(a), I)
  BY <1>4, <1>5 DEF InspectWord
<1>7. Pressed(a, closed, Does([a EXCEPT !.prompt = "console",
                                          !.input = [word |-> "mem", arg |-> None]]), I)
  <2> DEFINE line == [word |-> "mem", arg |-> None]
  <2>1. line \in I
    BY DEF Inputs
  <2> HIDE DEF line
  <2>2. Handled(a, [a EXCEPT !.prompt = "console", !.input = line], I)
    BY <2>1, InputTyped
  <2>3. Pressed(a, closed, Does([a EXCEPT !.prompt = "console", !.input = line]), I)
    BY <2>2, DoesPressed
  <2> QED BY <2>3 DEF line
<1> QED BY <1>2, <1>4, <1>5, <1>6, <1>7 DEF MemoryKey

\* What has the focus moves, pages, and goes to its ends.
LEMMA MovesHandled ==
  ASSUME NEW a, NEW I, App(a, I), NEW by \in Int
  PROVE  /\ Handled(a, Moved(a, by), I) /\ Handled(a, Page(a, by), I)
         /\ Handled(a, Topmost(a), I) /\ Handled(a, Bottom(a), I)
<1>1. 0 \in 0 .. LastEvent(a)
  BY DEF App, EventOK, LastEvent
<1>2. /\ Handled(a, MoveEvent(a, by), I) /\ Handled(a, MoveChunk(a, by), I)
      /\ Handled(a, SelectEvent(a, 0), I) /\ Handled(a, SelectLatest(a), I) /\ Handled(a, a, I)
  BY <1>1, MoveEventHandled, MoveChunkHandled, SelectEventHandled, SelectLatestHandled, HandledNot
<1> QED BY <1>2 DEF Moved, Page, Topmost, Bottom

\* A key that no prompt and no tab takes: it moves a selection, the focus or the
\* prompt, sends a command, or leaves what is over.
LEMMA GlobalKeyPressed ==
  ASSUME NEW a, NEW I, NEW closed, App(a, I), Inputs(I), NEW code
  PROVE  Pressed(a, closed, GlobalKey(a, closed, code), I)
<1>1. Handled(a, a, I)
  BY HandledNot
<1>2. Pressed(a, closed, StopOrLeave(a, closed), I) /\ Pressed(a, closed, Does(a), I)
  BY <1>1, StopPressed, DoesPressed
<1>3. VerbOf(code) \in Verbs /\ "Pause" \in Verbs /\ "Resume" \in Verbs
  BY DEF VerbOf, Verbs, Controls, StepVerbs, SourceSteps
<1>4. Pressed(a, closed, Sends(a, VerbOf(code)), I)
  BY <1>1, <1>3, SendsPressed
<1>5. Pressed(a, closed, SpaceKey(a), I)
  BY <1>1, <1>2, <1>3, SendsPressed DEF SpaceKey
<1>6. Pressed(a, closed, Does([a EXCEPT !.prompt = "search", !.input = Blank]), I)
  BY InputTyped, DoesPressed DEF Inputs
<1>7. Pressed(a, closed, Does([Focus(a, "Console") EXCEPT !.prompt = "console", !.input = Blank,
                                                         !.recalled = None]), I)
  <2> DEFINE b == [Focus(a, "Console") EXCEPT !.prompt = "console", !.input = Blank,
                                             !.recalled = None]
  <2>1. Changes(a, b, {"pane", "tab", "prompt", "input", "recalled"}) /\ b.input = Blank
        /\ b.recalled = None
    BY DEF App, Changes, Fields, Focus
  <2> HIDE DEF b
  <2>2. Handled(a, b, I)
    BY <2>1, TypedHandled DEF Inputs
  <2> QED BY <2>2, DoesPressed DEF b
<1>8. Pressed(a, closed, Does(IF a.follow THEN [a EXCEPT !.follow = FALSE]
                              ELSE SelectLatest(a)), I)
  BY UnfollowHandled, SelectLatestHandled, DoesPressed
<1>9. /\ Pressed(a, closed, Does(OnTab(a, TabOf(code))), I)
      /\ Pressed(a, closed, Does(OnTab(a, Cycled(Tabs, a.tab, 1))), I)
      /\ Pressed(a, closed, Does(OnTab(a, Cycled(Tabs, a.tab, -1))), I)
      /\ Pressed(a, closed, Does(Focus(a, Cycled(Panes, a.pane, 1))), I)
      /\ Pressed(a, closed, Does(Focus(a, Cycled(Panes, a.pane, -1))), I)
  BY FocusHandled, DoesPressed
<1>10. /\ Pressed(a, closed, Does(Moved(a, 1)), I) /\ Pressed(a, closed, Does(Moved(a, -1)), I)
       /\ Pressed(a, closed, Does(Page(a, 10)), I) /\ Pressed(a, closed, Does(Page(a, -10)), I)
       /\ Pressed(a, closed, Does(Topmost(a)), I) /\ Pressed(a, closed, Does(Bottom(a)), I)
  BY MovesHandled, DoesPressed
<1>11. Pressed(a, closed, Does(EnterChunk(a)), I)
  BY EnterChunkHandled, DoesPressed
<1> QED BY <1>2, <1>4, <1>5, <1>6, <1>7, <1>8, <1>9, <1>10, <1>11 DEF GlobalKey

\* Whatever key is pressed, the selections point at what is shown, what updates
\* decide stays as it is, and the interface is left only when the trace is over.
THEOREM HandlePressed ==
  ASSUME NEW a, NEW I, NEW closed, App(a, I), Inputs(I), NEW key, key.line \in I
  PROVE  Pressed(a, closed, Handle(a, closed, key), I)
<1>1. Pressed(a, closed, Does(SearchKey(a, key)), I)
  BY SearchKeyHandled, DoesPressed
<1>2. Pressed(a, closed, ConsoleKey(a, closed, key), I)
  BY ConsoleKeyPressed
<1>3. Pressed(a, closed, RequestStop(a, closed), I)
  BY HandledNot, StopPressed
<1>4. /\ Pressed(a, closed, BreakpointsKey(a, key.code), I)
      /\ Pressed(a, closed, MemoryKey(a, key.code), I)
      /\ Pressed(a, closed, GlobalKey(a, closed, key.code), I)
  BY BreakpointsKeyPressed, MemoryKeyPressed, GlobalKeyPressed
<1> QED BY <1>1, <1>2, <1>3, <1>4 DEF Handle

-----------------------------------------------------------------------------
(* A command that is sent                                                  *)

\* What becomes of the status with a command.
StatusSent(status, verb) ==
  IF verb = "Stop" THEN "Stopping"
  ELSE IF verb = "Continue" THEN "Running"
  ELSE IF verb \in {"StepAllocatorEvent"} \cup StepVerbs THEN StatusOf(verb)
  ELSE status

\* The fields an event, a stop and a command set, and no selection but that of the
\* event, leave an app what it was.
LEMMA FollowingApp ==
  ASSUME NEW a, NEW b, NEW I, App(a, I),
         Changes(a, b, {"status", "follow", "before", "events", "selected", "ended", "reason",
                        "pane", "tab"}),
         b.status \in Statuses, b.follow \in BOOLEAN, b.before \in BOOLEAN \cup {None},
         b.ended \in BOOLEAN, EventOK(b)
  PROVE  App(b, I)
BY DEF App, Changes, Fields, RowOK, ChunkOK, WordOK, LineOK

\* Sending a command moves the selected event only to the newest one.
LEMMA SentRight ==
  ASSUME NEW a, NEW I, App(a, I), NEW verb \in Verbs
  PROVE  LET b == Sent(a, verb) IN
         /\ App(b, I) /\ FollowKept(a, b)
         /\ Changes(a, b, {"status", "follow", "before", "selected"})
         /\ b.status = StatusSent(a.status, verb)
<1> DEFINE b == Sent(a, verb)
           G == {"status", "follow", "before", "selected"}
<1>1. DOMAIN a = Fields /\ a.status \in Statuses /\ a.follow \in BOOLEAN
      /\ a.before \in BOOLEAN \cup {None} /\ EventOK(a) /\ LastEvent(a) \in 0 .. LastEvent(a)
  BY DEF App, EventOK, LastEvent
<1>2. StatusOf(verb) \in Statuses
  BY DEF StatusOf, Statuses, Underway, StepVerbs, SourceSteps
<1>3. /\ Changes(a, b, G) /\ b.status = StatusSent(a.status, verb)
      /\ b.follow \in BOOLEAN /\ b.before \in BOOLEAN \cup {None}
      /\ b.selected = a.selected \/ b.selected = LastEvent(a)
      /\ b.follow => b.selected = LastEvent(a) \/ (a.follow /\ b.selected = a.selected)
  <2>1. CASE verb = "Stop"
    BY <1>1, <2>1 DEF Sent, StatusSent, Changes, Fields, StepVerbs, SourceSteps
  <2>2. CASE verb = "Pause"
    BY <1>1, <2>2 DEF Sent, StatusSent, Changes, Fields, StepVerbs, SourceSteps
  <2>3. CASE verb = "Resume"
    <3>1. CASE a.before = None
      BY <1>1, <2>3, <3>1 DEF Sent, StatusSent, Changes, Fields, StepVerbs, SourceSteps
    <3>2. CASE a.before = TRUE
      BY <1>1, <2>3, <3>2, NoneIsNothing DEF Sent, StatusSent, Changes, Fields, StepVerbs, SourceSteps, SelectLatest, LastEvent
    <3>3. CASE a.before = FALSE
      BY <1>1, <2>3, <3>3 DEF Sent, StatusSent, Changes, Fields, StepVerbs, SourceSteps
    <3> QED BY <1>1, <3>1, <3>2, <3>3
  <2>4. CASE verb = "Continue"
    BY <1>1, <2>4 DEF Sent, StatusSent, Changes, Fields, StepVerbs, SourceSteps, SelectLatest, LastEvent
  <2>5. CASE verb = "StepAllocatorEvent"
    BY <1>1, <2>5 DEF Sent, StatusSent, Changes, Fields, StepVerbs, SourceSteps, SelectLatest, LastEvent
  <2>6. CASE verb \in StepVerbs
    BY <1>1, <2>6 DEF Sent, StatusSent, Changes, Fields, StepVerbs, SourceSteps
  <2>7. CASE verb \notin {"Stop", "Pause", "Resume", "Continue", "StepAllocatorEvent"} \cup StepVerbs
    BY <1>1, <2>7 DEF Sent, StatusSent, Changes, Fields
  <2> QED BY <2>1, <2>2, <2>3, <2>4, <2>5, <2>6, <2>7
<1> HIDE DEF b
<1>4. b.events = a.events /\ b.ended = a.ended
  BY <1>3 DEF Changes, Fields
<1>5. EventOK(b) /\ FollowKept(a, b)
  BY <1>1, <1>3, <1>4 DEF EventOK, FollowKept, LastEvent
<1>6. b.status \in Statuses
  BY <1>1, <1>2, <1>3 DEF StatusSent, Statuses
<1>7. Changes(a, b, {"status", "follow", "before", "events", "selected", "ended", "reason",
                     "pane", "tab"})
  BY <1>3, ChangesMore
<1>8. App(b, I)
  BY <1>3, <1>4, <1>5, <1>6, <1>7, FollowingApp DEF App
<1> QED BY <1>3, <1>5, <1>8 DEF b

-----------------------------------------------------------------------------
(* An update that is read                                                  *)

Answers  == {"Accepted", "Completed", "Failed", "Rejected"}
Messages == {"hit", "signal", "moved", "other"}

CommandStatuses   == [kind : {"CommandStatus"}, verb : Verbs \cup {None}, answer : Answers,
                      status : Statuses, message : Messages]
HeapLayouts       == [kind : {"HeapLayout"}, layout : Seq(Nat)]
BreakMatches      == [kind : {"BreakMatched"}, user : Nat \cup {None}]
BreakpointLists   == [kind : {"UserBreakpoints"}, list : Seq(Breakpoints)]
MemoryShown(I)    == [kind : {"MemoryInspection"}, at : Places(I), words : Seq(Nat)]
CodeShown(I)      == [kind : {"CodeInspection"}, id : Places(I)]
Updates(I) == CommandStatuses \cup HeapLayouts \cup BreakMatches \cup BreakpointLists
              \cup MemoryShown(I) \cup CodeShown(I) \cup {Event, End}

\* What an update tells of the status, of the reason of the last stop, and of the
\* breakpoints: a set of at most one value.
StatusTold(u) ==
  IF u.kind = "CommandStatus" THEN {u.status}
  ELSE IF u.kind = "BreakMatched" THEN {"Paused"}
  ELSE IF u.kind = "SessionEnd" THEN {"Exited"}
  ELSE {}
ReasonTold(u) ==
  IF u.kind = "CommandStatus" THEN IF Inferred(u) = None THEN {} ELSE {Inferred(u)}
  ELSE IF u.kind = "BreakMatched" THEN {"condition"}
  ELSE IF u.kind = "SessionEnd" THEN {"exit"}
  ELSE {}
ListTold(u) == IF u.kind = "UserBreakpoints" THEN {u.list} ELSE {}

\* What it was before, or what was told.
Now(told, was, is) == (told = {} /\ is = was) \/ told = {is}

\* How an app follows the events that are reported.
Followed(a, b, u) ==
  IF u.kind = "Event"
  THEN /\ b.events = a.events + 1 /\ b.follow = a.follow
       /\ a.follow /\ a.status \in {"Running", "SteppingToNextAllocatorEvent"}
            => b.selected = LastEvent(b)
  ELSE /\ b.events = a.events
       /\ b.follow => a.follow /\ b.selected = a.selected /\ "Paused" \notin StatusTold(u)

Reads(a, b, u) ==
  /\ Now(StatusTold(u), a.status, b.status)
  /\ Now(ReasonTold(u), a.reason, b.reason)
  /\ Now(ListTold(u), a.list, b.list)
  /\ b.ended = (a.ended \/ u.kind = "SessionEnd")
  /\ Followed(a, b, u)

\* The kind of an update says what it is made of.
LEMMA KindsApart ==
  ASSUME NEW I, NEW u \in Updates(I)
  PROVE  /\ u.kind = "CommandStatus"    => u \in CommandStatuses
         /\ u.kind = "HeapLayout"       => u \in HeapLayouts
         /\ u.kind = "BreakMatched"     => u \in BreakMatches
         /\ u.kind = "UserBreakpoints"  => u \in BreakpointLists
         /\ u.kind = "MemoryInspection" => u \in MemoryShown(I)
         /\ u.kind = "CodeInspection"   => u \in CodeShown(I)
         /\ u.kind \in {"CommandStatus", "HeapLayout", "BreakMatched", "UserBreakpoints",
                        "MemoryInspection", "CodeInspection", "Event", "SessionEnd"}
BY DEF Updates, CommandStatuses, HeapLayouts, BreakMatches, BreakpointLists, MemoryShown,
       CodeShown, Event, End

\* A field that is not touched keeps its part of the app.
LEMMA PartsKept ==
  ASSUME NEW a, NEW b, NEW I, NEW G, App(a, I), Changes(a, b, G)
  PROVE  /\ {"events", "selected"} \cap G = {} => EventOK(b)
         /\ {"list", "row"} \cap G = {} => RowOK(b)
         /\ {"layout", "chunk", "user"} \cap G = {} => ChunkOK(b)
         /\ {"words", "cell"} \cap G = {} => WordOK(b)
         /\ {"input", "history", "recalled", "request"} \cap G = {} => LineOK(b, I)
BY DEF App, Changes, Fields, EventOK, RowOK, ChunkOK, WordOK, LineOK, LastEvent

\* An event is counted, and selected by who follows a target that runs.
LEMMA NewEventRight ==
  ASSUME NEW a, NEW I, App(a, I)
  PROVE  LET b == NewEvent(a) IN
         /\ App(b, I) /\ Changes(a, b, {"events", "selected"})
         /\ Followed(a, b, Event)
<1> DEFINE b == NewEvent(a)
<1>1. Changes(a, b, {"events", "selected"}) /\ b.events = a.events + 1 /\ b.follow = a.follow
      /\ b.selected = IF a.follow /\ a.status \in {"Running", "SteppingToNextAllocatorEvent"}
                      THEN a.events ELSE a.selected
  BY DEF NewEvent, App, Changes, Fields
<1> HIDE DEF b
<1>2. EventOK(b) /\ LastEvent(b) = a.events
  BY <1>1 DEF App, EventOK, LastEvent
<1>3. App(b, I)
  BY <1>1, <1>2, FollowingApp DEF App, Changes, Fields
<1> QED BY <1>1, <1>2, <1>3 DEF b, Followed, Event

\* The status of a command is believed, and the reason it gives (apply_command_status).
LEMMA ToldRight ==
  ASSUME NEW a, NEW I, App(a, I), NEW u \in CommandStatuses
  PROVE  LET b == Told(a, u) IN
         /\ App(b, I) /\ Changes(a, b, {"status", "follow", "before", "reason"})
         /\ Reads(a, b, u)
<1> DEFINE b == Told(a, u)
<1>1. Changes(a, b, {"status", "follow", "before", "reason"}) /\ b.status = u.status
      /\ b.reason = (IF Inferred(u) = None THEN a.reason ELSE Inferred(u))
      /\ b.follow = (a.follow /\ u.status # "Paused")
      /\ b.before = IF u.status = "Paused" /\ a.before = None THEN a.follow ELSE a.before
  BY DEF Told, App, Changes, Fields
<1> HIDE DEF b
<1>2. u.status \in Statuses /\ u.kind = "CommandStatus"
  BY DEF CommandStatuses
<1>3. b.events = a.events /\ b.selected = a.selected /\ b.ended = a.ended /\ b.list = a.list
  BY <1>1 DEF Changes, Fields
<1>4. EventOK(b)
  BY <1>3 DEF App, EventOK, LastEvent
<1>5. b.follow \in BOOLEAN /\ b.before \in BOOLEAN \cup {None} /\ b.ended \in BOOLEAN
  BY <1>1, <1>3 DEF App
<1>6. Changes(a, b, {"status", "follow", "before", "events", "selected", "ended", "reason",
                     "pane", "tab"})
  BY <1>1, ChangesMore
<1>7. App(b, I)
  BY <1>1, <1>2, <1>4, <1>5, <1>6, FollowingApp
<1>8. Reads(a, b, u)
  BY <1>1, <1>2, <1>3, <1>5 DEF Reads, Now, StatusTold, ReasonTold, ListTold, Followed, App
<1> QED BY <1>1, <1>7, <1>8 DEF b

\* A met break condition shows the newest event, and its chunk if it finds it.
LEMMA BreakMatchedRight ==
  ASSUME NEW a, NEW I, App(a, I), NEW u \in BreakMatches
  PROVE  LET b == BreakMatched(a, u.user) IN
         /\ App(b, I)
         /\ Changes(a, b, {"status", "follow", "before", "selected", "reason", "pane", "tab",
                           "chunk", "user"})
         /\ Reads(a, b, u)
<1> DEFINE m  == [a EXCEPT !.status = "Paused", !.follow = FALSE, !.before = FALSE,
                           !.selected = LastEvent(a), !.reason = "condition"]
           at == FindChunk(m, u.user)
           b  == BreakMatched(a, u.user)
           G  == {"status", "follow", "before", "selected", "reason", "pane", "tab", "chunk",
                  "user"}
<1>1. Changes(a, m, {"status", "follow", "before", "selected", "reason"}) /\ m.status = "Paused"
      /\ m.follow = FALSE /\ m.before = FALSE /\ m.selected = LastEvent(a) /\ m.reason = "condition"
  BY DEF App, Changes, Fields
<1>2. b = IF u.user # None /\ at # None THEN OnTab(SelectChunk(m, at), "Heap") ELSE m
  BY DEF BreakMatched
<1> HIDE DEF m, at, b
<1>3. m.events = a.events /\ m.ended = a.ended /\ m.list = a.list
  BY <1>1 DEF Changes, Fields
<1>4. EventOK(m) /\ "Paused" \in Statuses
  BY <1>1, <1>3 DEF App, EventOK, LastEvent, Statuses
<1>5. Changes(a, m, {"status", "follow", "before", "events", "selected", "ended", "reason",
                     "pane", "tab"})
  BY <1>1, ChangesMore
<1>6. App(m, I)
  BY <1>1, <1>3, <1>4, <1>5, FollowingApp DEF App
<1>7. App(b, I) /\ Changes(m, b, {"pane", "tab", "chunk", "user"})
  <2>1. CASE ~(u.user # None /\ at # None)
    BY <2>1, <1>2, <1>6 DEF App, Changes
  <2>2. CASE u.user # None /\ at # None
    <3>1. m.layout \in {None} \cup Seq(Nat) /\ DOMAIN m = Fields
      BY <1>6 DEF App, ChunkOK
    <3>2. at \in Nat
      BY <2>2, <3>1, ChunkFound DEF at
    <3> DEFINE c == SelectChunk(m, at)
    <3>3. App(c, I) /\ Changes(m, c, {"chunk", "user"})
      BY <1>6, <3>1, <3>2, SelectChunkHandled, SelectChunkRight DEF Handled
    <3>4. b = OnTab(c, "Heap")
      BY <1>2, <2>2
    <3> HIDE DEF c
    <3>5. Handled(c, b, I) /\ Changes(c, b, {"pane", "tab"})
      BY <3>3, <3>4, FocusHandled DEF OnTab, Changes, App, Fields
    <3> QED BY <3>3, <3>5 DEF Handled, Changes
  <2> QED BY <2>1, <2>2
<1>8. Changes(a, b, G)
  BY <1>1, <1>7 DEF Changes
<1>9. b.status = "Paused" /\ b.follow = FALSE /\ b.reason = "condition" /\ b.events = a.events
      /\ b.ended = a.ended /\ b.list = a.list
  BY <1>1, <1>3, <1>7 DEF Changes, Fields
<1>10. Reads(a, b, u)
  BY <1>9 DEF Reads, Now, StatusTold, ReasonTold, ListTold, Followed, BreakMatches, App
<1> QED BY <1>7, <1>8, <1>10 DEF b

\* What the user has selected stays selected as long as it is shown, unless a break
\* condition shows another chunk.
Kept(a, b, u) ==
  /\ (\E i \in DOMAIN b.list : b.list[i].id = SelectedId(a)) => SelectedId(b) = SelectedId(a)
  /\ /\ u.kind # "BreakMatched"
     /\ u.kind = "HeapLayout" => \E i \in DOMAIN u.layout : u.layout[i] = a.user
     => b.user = a.user

\* An update that touches neither the breakpoints nor the chunks keeps them selected.
LEMMA KeptAnyway ==
  ASSUME NEW a, NEW b, NEW u,
         Changes(a, b, Fields \ {"list", "row", "user"}) \/ (u.kind = "BreakMatched" /\ Changes(a, b, Fields \ {"list", "row"}))
  PROVE  Kept(a, b, u)
<1>1. b.list = a.list /\ b.row = a.row
  BY DEF Changes, Fields
<1>2. SelectedId(b) = SelectedId(a)
  BY <1>1 DEF SelectedId
<1>3. u.kind # "BreakMatched" => b.user = a.user
  BY DEF Changes, Fields
<1> QED BY <1>2, <1>3 DEF Kept

\* An update of what is displayed tells nothing of the target.
LEMMA DisplayRead ==
  ASSUME NEW a, NEW b, NEW u, NEW I, App(a, I), u.kind \in {"HeapLayout", "MemoryInspection", "CodeInspection"},
         Changes(a, b, {"layout", "chunk", "user", "words", "cell", "request", "pane", "tab"})
  PROVE  Reads(a, b, u)
<1>1. b.status = a.status /\ b.reason = a.reason /\ b.list = a.list /\ b.ended = a.ended
      /\ b.events = a.events /\ b.follow = a.follow /\ b.selected = a.selected
  BY DEF Changes, Fields
<1> QED BY <1>1 DEF Reads, Now, StatusTold, ReasonTold, ListTold, Followed, App

\* A new layout: the chunk that was selected stays so if it is shown.
LEMMA LayoutRight ==
  ASSUME NEW a, NEW I, App(a, I), NEW u \in HeapLayouts
  PROVE  LET b == Relocated([a EXCEPT !.layout = u.layout]) IN
         App(b, I) /\ Reads(a, b, u) /\ Kept(a, b, u)
<1> DEFINE m == [a EXCEPT !.layout = u.layout]
           b == Relocated(m)
<1>1. u.layout \in Seq(Nat) /\ u.kind = "HeapLayout"
  BY DEF HeapLayouts
<1>2. Changes(a, m, {"layout"}) /\ m.layout = u.layout
  BY DEF App, Changes, Fields
<1> HIDE DEF m
<1>3. m.chunk = a.chunk /\ m.user = a.user /\ DOMAIN m = Fields
  BY <1>2 DEF Changes, Fields
<1>4. a.chunk \in Nat \cup {None} /\ (a.chunk = None => a.user = None)
  BY DEF App, ChunkOK, InShown, InRange
<1>5. m.layout \in {None} \cup Seq(Nat)
  BY <1>1, <1>2
<1>6. /\ Changes(m, b, {"chunk", "user"}) /\ ChunkOK(b)
      /\ m.layout # None /\ (\E i \in DOMAIN m.layout : m.layout[i] = m.user) /\ m.user # None
           => b.user = m.user
  BY <1>3, <1>4, <1>5, RelocatedSelects
<1> HIDE DEF b
<1>7. Changes(a, b, {"layout", "chunk", "user"})
  BY <1>2, <1>6 DEF Changes
<1>8. EventOK(b) /\ RowOK(b) /\ WordOK(b) /\ LineOK(b, I)
  BY <1>7, PartsKept
<1>9. App(b, I)
  BY <1>6, <1>7, <1>8 DEF App, Changes, Fields
<1>10. Reads(a, b, u)
  <2>1. Changes(a, b, {"layout", "chunk", "user", "words", "cell", "request", "pane", "tab"})
    BY <1>7, ChangesMore
  <2> QED BY <1>1, <2>1, DisplayRead
<1>11. Kept(a, b, u)
  <2>1. b.list = a.list /\ b.row = a.row
    BY <1>7 DEF Changes, Fields
  <2>2. SelectedId(b) = SelectedId(a)
    BY <2>1 DEF SelectedId
  <2>3. ASSUME NEW i \in DOMAIN u.layout, u.layout[i] = a.user PROVE b.user = a.user
    <3>1. a.user \in Nat
      BY <1>1, <2>3
    <3>2. u.layout # None
      BY <1>1, NoneIsNothing
    <3> QED BY <1>2, <1>3, <1>6, <2>3, <3>1, <3>2, NoneIsNothing
  <2> QED BY <1>1, <2>2, <2>3 DEF Kept
<1> QED BY <1>9, <1>10, <1>11 DEF b, m

\* Memory that is shown has its first word selected.
LEMMA MemoryRight ==
  ASSUME NEW a, NEW I, App(a, I), NEW u \in MemoryShown(I)
  PROVE  LET b == FirstWord([OnTab(a, "Memory") EXCEPT !.words = u.words, !.request = u.at]) IN
         App(b, I) /\ Reads(a, b, u) /\ Kept(a, b, u)
<1> DEFINE m == [OnTab(a, "Memory") EXCEPT !.words = u.words, !.request = u.at]
           b == FirstWord(m)
<1>1. u.words \in Seq(Nat) /\ u.at \in Places(I) /\ u.kind = "MemoryInspection"
  BY DEF MemoryShown
<1>2. Changes(a, m, {"pane", "tab", "words", "request"}) /\ m.words = u.words /\ m.request = u.at
  BY DEF OnTab, App, Changes, Fields
<1> HIDE DEF m
<1>3. Changes(m, b, {"cell"}) /\ WordOK(b)
  BY <1>1, <1>2, FirstWordRight DEF Changes
<1> HIDE DEF b
<1>4. Changes(a, b, {"pane", "tab", "words", "request", "cell"}) /\ b.request = u.at
  BY <1>2, <1>3 DEF Changes, Fields
<1>5. EventOK(b) /\ RowOK(b) /\ ChunkOK(b)
  BY <1>4, PartsKept
<1>6. LineOK(b, I)
  BY <1>1, <1>4 DEF App, LineOK, Changes, Fields
<1>7. App(b, I)
  BY <1>3, <1>4, <1>5, <1>6 DEF App, Changes, Fields
<1>8. Reads(a, b, u)
  <2>1. Changes(a, b, {"layout", "chunk", "user", "words", "cell", "request", "pane", "tab"})
    BY <1>4, ChangesMore
  <2> QED BY <1>1, <2>1, DisplayRead
<1>9. Kept(a, b, u)
  <2>1. Changes(a, b, Fields \ {"list", "row", "user"})
    BY <1>4 DEF Changes, Fields
  <2> QED BY <2>1, KeptAnyway
<1> QED BY <1>7, <1>8, <1>9 DEF b, m

\* A new list: the breakpoint that was selected stays so if it is listed.
LEMMA ListRight ==
  ASSUME NEW a, NEW I, App(a, I), NEW u \in BreakpointLists
  PROVE  LET b == Normalized([a EXCEPT !.list = u.list], SelectedId(a)) IN
         App(b, I) /\ Reads(a, b, u) /\ Kept(a, b, u)
<1> DEFINE m == [a EXCEPT !.list = u.list]
           b == Normalized(m, SelectedId(a))
<1>1. u.list \in Seq(Breakpoints) /\ u.kind = "UserBreakpoints"
  BY DEF BreakpointLists
<1>2. Changes(a, m, {"list"}) /\ m.list = u.list
  BY DEF App, Changes, Fields
<1> HIDE DEF m
<1>3. m.row = a.row /\ (a.row = None \/ a.row \in Nat) /\ DOMAIN m = Fields
  BY <1>2 DEF Changes, Fields, App, RowOK, InRange
<1>4. SelectedId(a) \in Nat \cup {None}
  BY SelectedIdIs DEF App
<1>5. /\ Changes(m, b, {"row"}) /\ RowOK(b)
      /\ (\E i \in DOMAIN b.list : b.list[i].id = SelectedId(a)) => SelectedId(b) = SelectedId(a)
  BY <1>1, <1>2, <1>3, <1>4, NormalizedSelects
<1> HIDE DEF b
<1>6. Changes(a, b, {"list", "row"}) /\ b.list = u.list
  BY <1>2, <1>5 DEF Changes, Fields
<1>7. EventOK(b) /\ ChunkOK(b) /\ WordOK(b) /\ LineOK(b, I)
  BY <1>6, PartsKept
<1>8. App(b, I)
  BY <1>5, <1>6, <1>7 DEF App, Changes, Fields
<1>9. b.status = a.status /\ b.reason = a.reason /\ b.ended = a.ended /\ b.user = a.user
      /\ b.events = a.events /\ b.follow = a.follow /\ b.selected = a.selected
  BY <1>6 DEF Changes, Fields
<1>10. Reads(a, b, u)
  BY <1>1, <1>6, <1>9 DEF Reads, Now, StatusTold, ReasonTold, ListTold, Followed, App
<1>11. Kept(a, b, u)
  BY <1>1, <1>5, <1>9 DEF Kept
<1> QED BY <1>8, <1>10, <1>11 DEF b, m

\* The end of the session is an exit.
LEMMA EndRight ==
  ASSUME NEW a, NEW I, App(a, I)
  PROVE  LET b == [a EXCEPT !.ended = TRUE, !.status = "Exited", !.reason = "exit"] IN
         App(b, I) /\ Reads(a, b, End) /\ Kept(a, b, End)
<1> DEFINE b == [a EXCEPT !.ended = TRUE, !.status = "Exited", !.reason = "exit"]
<1>1. Changes(a, b, {"ended", "status", "reason"}) /\ b.ended = TRUE /\ b.status = "Exited"
      /\ b.reason = "exit"
  BY DEF App, Changes, Fields
<1> HIDE DEF b
<1>2. b.events = a.events /\ b.follow = a.follow /\ b.selected = a.selected /\ b.before = a.before
      /\ b.list = a.list
  BY <1>1 DEF Changes, Fields
<1>3. EventOK(b) /\ "Exited" \in Statuses
  BY <1>2 DEF App, EventOK, LastEvent, Statuses
<1>4. Changes(a, b, {"status", "follow", "before", "events", "selected", "ended", "reason",
                     "pane", "tab"})
  BY <1>1, ChangesMore
<1>5. App(b, I)
  BY <1>1, <1>2, <1>3, <1>4, FollowingApp DEF App
<1>6. Reads(a, b, End)
  BY <1>1, <1>2 DEF Reads, Now, StatusTold, ReasonTold, ListTold, Followed, End, App
<1>7. Kept(a, b, End)
  <2>1. Changes(a, b, Fields \ {"list", "row", "user"})
    BY <1>1 DEF Changes, Fields
  <2> QED BY <2>1, KeptAnyway
<1> QED BY <1>5, <1>6, <1>7 DEF b

\* Whatever update is read, the selections point at what is shown, what the user has
\* selected stays selected if it is still there, and the app takes over what it is
\* told and nothing else.
THEOREM AppliedRight ==
  ASSUME NEW a, NEW I, App(a, I), NEW u \in Updates(I)
  PROVE  App(Applied(a, u), I) /\ Reads(a, Applied(a, u), u) /\ Kept(a, Applied(a, u), u)
<1>1. CASE u.kind = "Event"
  <2>1. u = Event
    BY <1>1 DEF Updates, CommandStatuses, HeapLayouts, BreakMatches, BreakpointLists,
                MemoryShown, CodeShown, Event, End
  <2> DEFINE b == NewEvent(a)
  <2>2. App(b, I) /\ Changes(a, b, {"events", "selected"}) /\ Followed(a, b, u)
    BY <2>1, NewEventRight
  <2>3. Applied(a, u) = b
    BY <1>1 DEF Applied
  <2> HIDE DEF b
  <2>4. Reads(a, b, u)
    BY <1>1, <2>2 DEF Reads, Now, StatusTold, ReasonTold, ListTold, Changes, Fields, App
  <2>5. Kept(a, b, u)
    <3>1. Changes(a, b, Fields \ {"list", "row", "user"})
      BY <2>2 DEF Changes, Fields
    <3> QED BY <3>1, KeptAnyway
  <2> QED BY <2>2, <2>3, <2>4, <2>5
<1>2. CASE u.kind = "HeapLayout"
  <2>1. Applied(a, u) = Relocated([a EXCEPT !.layout = u.layout])
    BY <1>2 DEF Applied
  <2> QED BY <1>2, <2>1, KindsApart, LayoutRight
<1>3. CASE u.kind = "CommandStatus"
  <2> DEFINE b == Told(a, u)
  <2>1. Applied(a, u) = b
    BY <1>3 DEF Applied
  <2>2. App(b, I) /\ Changes(a, b, {"status", "follow", "before", "reason"}) /\ Reads(a, b, u)
    BY <1>3, KindsApart, ToldRight
  <2> HIDE DEF b
  <2>3. Changes(a, b, Fields \ {"list", "row", "user"})
    BY <2>2 DEF Changes, Fields
  <2> QED BY <2>1, <2>2, <2>3, KeptAnyway
<1>4. CASE u.kind = "MemoryInspection"
  <2>1. Applied(a, u) = FirstWord([OnTab(a, "Memory") EXCEPT !.words = u.words, !.request = u.at])
    BY <1>4 DEF Applied
  <2> QED BY <1>4, <2>1, KindsApart, MemoryRight
<1>5. CASE u.kind = "CodeInspection"
  <2> DEFINE b == Focus(a, "Code")
  <2>1. Applied(a, u) = b
    BY <1>5 DEF Applied
  <2>2. App(b, I) /\ Changes(a, b, {"pane"})
    BY FocusHandled DEF Handled, Focus, App, Changes, Fields
  <2> HIDE DEF b
  <2>3. Changes(a, b, Fields \ {"list", "row", "user"})
        /\ Changes(a, b, {"layout", "chunk", "user", "words", "cell", "request", "pane", "tab"})
    BY <2>2 DEF Changes, Fields
  <2> QED BY <1>5, <2>1, <2>2, <2>3, KeptAnyway, DisplayRead
<1>6. CASE u.kind = "BreakMatched"
  <2> DEFINE b == BreakMatched(a, u.user)
  <2>1. Applied(a, u) = b
    BY <1>6 DEF Applied
  <2>2. App(b, I) /\ Reads(a, b, u)
        /\ Changes(a, b, {"status", "follow", "before", "selected", "reason", "pane", "tab",
                          "chunk", "user"})
    BY <1>6, KindsApart, BreakMatchedRight
  <2> HIDE DEF b
  <2>3. Changes(a, b, Fields \ {"list", "row"})
    BY <2>2 DEF Changes, Fields
  <2> QED BY <1>6, <2>1, <2>2, <2>3, KeptAnyway
<1>7. CASE u.kind = "UserBreakpoints"
  <2>1. Applied(a, u) = Normalized([a EXCEPT !.list = u.list], SelectedId(a))
    BY <1>7 DEF Applied
  <2> QED BY <1>7, <2>1, KindsApart, ListRight
<1>8. CASE u.kind = "SessionEnd"
  <2>1. u = End
    BY <1>8 DEF Updates, CommandStatuses, HeapLayouts, BreakMatches, BreakpointLists,
                MemoryShown, CodeShown, Event, End
  <2> DEFINE b == [a EXCEPT !.ended = TRUE, !.status = "Exited", !.reason = "exit"]
  <2>2. Applied(a, u) = b
    BY <1>8 DEF Applied
  <2>3. App(b, I) /\ Reads(a, b, End) /\ Kept(a, b, End)
    BY EndRight
  <2> HIDE DEF b
  <2> QED BY <2>1, <2>2, <2>3
<1> QED BY <1>1, <1>2, <1>3, <1>4, <1>5, <1>6, <1>7, <1>8, KindsApart
================================================================================
