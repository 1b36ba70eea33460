--------------------------- MODULE LiveInterface ---------------------------
(***************************************************************************)
(* The terminal interface of a live session: LiveTuiApp                    *)
(* (crates/heapify-cli/src/live.rs) and what the keys do to it             *)
(* (crates/heapify-cli/src/app.rs).  Text, colours and scroll offsets are  *)
(* left out.                                                               *)
(*                                                                         *)
(* An app is a record                                                      *)
(*   status    target_status, what it believes of the target               *)
(*   follow    follow_tail      before   follow_tail_before_pause          *)
(*   events    how many         selected selected_index (from 0)           *)
(*   ended     session_end      reason   latest_stop_reason                *)
(*   pane      focused_debugger_pane     tab   active_right_tab            *)
(*   prompt    "search", "console" or None, and what was typed in input    *)
(*   list      user_breakpoints  row     selected_user_breakpoint_index    *)
(*   layout    user addresses of latest_heap_layout                        *)
(*   chunk, user   selected_chunk_index, selected_chunk_user_addr          *)
(*   words     latest_memory_inspection: the words shown, a pointer or 0   *)
(*   cell      memory_selected_row       request  latest_memory_request    *)
(*   history, recalled   console_history, console_history_index            *)
(***************************************************************************)
EXTENDS LiveCommands, Integers, Sequences, SequencesExt

\* Why a target stopped; "unexplained" if the interface is not told.
Causes == {"exit", "breakpoint", "condition", "signal", "Pause", "StepAllocatorEvent",
           "unexplained"} \cup StepVerbs

ASSUME NoneIsNothing == None \notin Nat /\ None \notin Seq(Nat) /\ None \notin Causes

Blank == [word |-> "", arg |-> None]

\* LiveTuiApp::default
Opened ==
  [status |-> "Running", follow |-> TRUE, before |-> None, events |-> 0, selected |-> 0,
   ended |-> FALSE, reason |-> None, pane |-> "Trace", tab |-> "Heap",
   prompt |-> None, input |-> Blank, list |-> <<>>, row |-> None,
   layout |-> None, chunk |-> None, user |-> None,
   words |-> None, cell |-> None, request |-> None, history |-> <<>>, recalled |-> None]

\* An index into s from 0 on, or none; and into what may not be there at all.
InRange(i, s)  == i = None \/ i \in 0 .. Len(s) - 1
InShown(i, s)  == IF s = None THEN i = None ELSE InRange(i, s)

Least(x, y) == IF x < y THEN x ELSE y
Clamp(i, n) == IF i < 0 THEN 0 ELSE Least(i, n - 1)

\* Where x comes first, from 0 on.
IndexOf(s, x) ==
  IF \E i \in DOMAIN s : s[i] = x
  THEN (CHOOSE i \in DOMAIN s : s[i] = x /\ \A j \in 1 .. i - 1 : s[j] # x) - 1
  ELSE None

-----------------------------------------------------------------------------
(* The event that is selected                                              *)

LastEvent(a) == IF a.events = 0 THEN 0 ELSE a.events - 1

SelectEvent(a, i) == [a EXCEPT !.follow = FALSE, !.selected = i]
MoveEvent(a, by)  == SelectEvent(a, IF a.selected + by < 0 THEN 0
                                    ELSE Least(a.selected + by, LastEvent(a)))
SelectLatest(a)   == [a EXCEPT !.follow = TRUE, !.selected = LastEvent(a)]

-----------------------------------------------------------------------------
(* The breakpoint that is selected: by its id as long as it is listed.     *)

SelectedId(a) ==
  IF a.row = None \/ a.row >= Len(a.list) THEN None ELSE a.list[a.row + 1].id

\* normalize_selected_user_breakpoint_with_previous_id
Normalized(a, id) ==
  LET at == IndexOf([i \in DOMAIN a.list |-> a.list[i].id], id)
  IN  [a EXCEPT !.row = IF a.list = <<>> THEN None
                        ELSE IF id # None /\ at # None THEN at
                        ELSE Least(IF @ = None THEN 0 ELSE @, Len(a.list) - 1)]

MoveBreakpoint(a, by) ==
  LET b == Normalized(a, SelectedId(a))
  IN  IF b.list = <<>> THEN b ELSE [b EXCEPT !.row = Clamp(@ + by, Len(b.list))]

FirstBreakpoint(a) == [a EXCEPT !.row = IF a.list = <<>> THEN None ELSE 0]
LastBreakpoint(a)  == [a EXCEPT !.row = IF a.list = <<>> THEN None ELSE Len(a.list) - 1]

-----------------------------------------------------------------------------
(* The chunk that is selected                                              *)

ClearChunk(a) == [a EXCEPT !.chunk = None, !.user = None]

SelectChunk(a, i) ==
  IF a.layout = None \/ i >= Len(a.layout) THEN ClearChunk(a)
  ELSE [a EXCEPT !.chunk = i, !.user = a.layout[i + 1]]

MoveChunk(a, by) ==
  IF a.layout \in {None, <<>>} THEN ClearChunk(a)
  ELSE SelectChunk(a, IF a.chunk = None THEN 0 ELSE Clamp(a.chunk + by, Len(a.layout)))

FindChunk(a, user) ==
  IF a.layout = None THEN None ELSE IndexOf(a.layout, user)

\* Mutant: the position is kept, whatever is there.
RelocatedByIndex(a) ==
  IF a.chunk = None THEN a
  ELSE IF a.layout \in {None, <<>>} THEN ClearChunk(a)
  ELSE SelectChunk(a, Least(a.chunk, Len(a.layout) - 1))

\* update_selected_chunk_after_layout_update: where the chunk went; another one
\* takes its place if it is not shown any more.
Relocated(a) ==
  LET at == FindChunk(a, a.user) IN
  IF a.layout \in {None, <<>>} THEN ClearChunk(a)
  ELSE IF a.user # None /\ at # None THEN SelectChunk(a, at)
  ELSE IF a.chunk # None THEN SelectChunk(a, Least(a.chunk, Len(a.layout) - 1))
  ELSE a

EnterChunk(a) == IF a.chunk = None THEN MoveChunk(a, 1) ELSE Relocated(a)

Focus(a, pane) == [a EXCEPT !.pane = pane]
OnTab(a, tab)  == [a EXCEPT !.pane = "RightTab", !.tab = tab]

\* jump_to_chunk_index, where a search ends.
JumpTo(a, i) == [OnTab(SelectChunk(a, i), "Heap") EXCEPT !.prompt = None, !.input = Blank]

\* execute_heap_search_query
Search(a, user) ==
  LET at == FindChunk(a, user)
  IN  IF at # None THEN JumpTo(a, at)
      ELSE IF a.prompt = "search" THEN [a EXCEPT !.prompt = None] ELSE a

-----------------------------------------------------------------------------
(* The word of memory that is selected                                     *)

\* Mutant: the row stays when other memory is shown.
FirstWordStays(a) ==
  [a EXCEPT !.cell = IF a.words \in {None, <<>>} THEN None ELSE IF @ = None THEN 0 ELSE @]

FirstWord(a) ==
  [a EXCEPT !.cell = IF a.words \in {None, <<>>} THEN None ELSE 0]
LastWord(a) ==
  [a EXCEPT !.cell = IF a.words \in {None, <<>>} THEN None ELSE Len(a.words) - 1]
MoveWord(a, by) ==
  [a EXCEPT !.cell = IF a.words \in {None, <<>>} THEN None
                     ELSE Clamp((IF @ = None THEN 0 ELSE Least(@, Len(a.words) - 1)) + by,
                                Len(a.words))]

\* memory_selected_value: a word that points into a mapping, 0 if none does.
SelectedWord(a) ==
  IF a.words = None \/ a.cell = None \/ a.cell >= Len(a.words) THEN 0
  ELSE a.words[a.cell + 1]

-----------------------------------------------------------------------------
(* An update                                                               *)

\* infer_debugger_stop_reason
Inferred(u) ==
  IF u.status = "Exited" THEN "exit"
  ELSE IF u.status # "Paused" THEN None
  ELSE IF u.message = "hit" THEN "breakpoint"
  ELSE IF u.verb = "Pause" /\ u.answer = "Completed" THEN "Pause"
  ELSE IF /\ u.verb \in {"StepAllocatorEvent"} \cup StepVerbs
          /\ u.answer = "Completed" /\ u.message = "moved" THEN u.verb
  ELSE IF u.verb \in StepVerbs \ SourceSteps /\ u.answer = "Failed" /\ u.message = "signal"
         THEN "signal"
  ELSE None

\* Mutants: only the end of a command changes the status; the first reason stays.
ToldAtEnd(a, u) ==
  [a EXCEPT !.status = IF u.answer = "Completed" THEN u.status ELSE @,
            !.reason = IF Inferred(u) = None THEN @ ELSE Inferred(u),
            !.before = IF u.status = "Paused" /\ @ = None THEN a.follow ELSE @,
            !.follow = @ /\ u.status # "Paused"]
ToldFirst(a, u) ==
  [a EXCEPT !.status = u.status,
            !.reason = IF Inferred(u) = None \/ @ # None THEN @ ELSE Inferred(u),
            !.before = IF u.status = "Paused" /\ @ = None THEN a.follow ELSE @,
            !.follow = @ /\ u.status # "Paused"]

\* apply_command_status
Told(a, u) ==
  [a EXCEPT !.status = u.status,
            !.reason = IF Inferred(u) = None THEN @ ELSE Inferred(u),
            !.before = IF u.status = "Paused" /\ @ = None THEN a.follow ELSE @,
            !.follow = @ /\ u.status # "Paused"]

\* Mutant: the selection stays where it is, followed or not.
EventUnfollowed(a) == [a EXCEPT !.events = @ + 1]

NewEvent(a) ==
  [a EXCEPT !.events = @ + 1,
            !.selected = IF a.follow /\ a.status \in {"Running", "SteppingToNextAllocatorEvent"}
                         THEN a.events ELSE @]

\* apply_break_match: the event is the last one, an update earlier.
BreakMatched(a, user) ==
  LET b == [a EXCEPT !.status = "Paused", !.follow = FALSE, !.before = FALSE,
                     !.selected = LastEvent(a), !.reason = "condition"]
      at == FindChunk(b, user)
  IN  IF user # None /\ at # None THEN OnTab(SelectChunk(b, at), "Heap") ELSE b

\* apply_update
Applied(a, u) ==
  CASE u.kind = "Event"            -> NewEvent(a)
    [] u.kind = "HeapLayout"       -> Relocated([a EXCEPT !.layout = u.layout])
    [] u.kind = "CommandStatus"    -> Told(a, u)
    [] u.kind = "MemoryInspection" ->
         FirstWord([OnTab(a, "Memory") EXCEPT !.words = u.words, !.request = u.at])
    [] u.kind = "CodeInspection"   -> Focus(a, "Code")
    [] u.kind = "BreakMatched"     -> BreakMatched(a, u.user)
    [] u.kind = "UserBreakpoints"  -> Normalized([a EXCEPT !.list = u.list], SelectedId(a))
    [] OTHER -> [a EXCEPT !.ended = TRUE, !.status = "Exited", !.reason = "exit"]

\* apply_sent_live_command
Sent(a, verb) ==
  CASE verb = "Stop"     -> [a EXCEPT !.status = "Stopping"]
    [] verb = "Pause"    -> [a EXCEPT !.before = a.follow, !.follow = FALSE]
    [] verb = "Resume"   ->
         LET b == [a EXCEPT !.before = None, !.follow = IF a.before = None THEN @ ELSE a.before]
         IN  IF a.before # None /\ b.follow THEN SelectLatest(b) ELSE b
    [] verb = "Continue" -> [SelectLatest(a) EXCEPT !.status = "Running", !.before = None]
    [] verb = "StepAllocatorEvent" -> [SelectLatest(a) EXCEPT !.status = StatusOf(verb)]
    [] verb \in StepVerbs -> [a EXCEPT !.status = StatusOf(verb), !.follow = FALSE]
    [] OTHER -> a

-----------------------------------------------------------------------------
(* A key.  What it does: the app, the command it sends (or None), and      *)
(* whether the interface is left.                                          *)

Does(a)          == [app |-> a, send |-> None, leave |-> FALSE]
Sends(a, verb)   == [app |-> a, send |-> Command(verb, 0), leave |-> FALSE]
SendsOf(a, verb, id) == [app |-> a, send |-> Command(verb, id), leave |-> FALSE]
Leaves(a)        == [app |-> a, send |-> None, leave |-> TRUE]

\* request_live_stop
RequestStop(a, closed) == IF a.ended \/ closed THEN Does(a) ELSE Sends(a, "Stop")

\* Mutant: the interface is left with the request.
StopOrLeaveAtOnce(a, closed) == Leaves(a)

StopOrLeave(a, closed) == IF a.ended \/ closed THEN Leaves(a) ELSE Sends(a, "Stop")

Panes == <<"Registers", "Code", "Trace", "Console", "RightTab">>
Tabs  == <<"Heap", "Stack", "Logs", "Maps", "Breakpoints", "Memory">>

\* next_live_debugger_pane, next_live_right_tab
Cycled(s, x, by) == s[((IndexOf(s, x) + by) % Len(s)) + 1]

InspectWord(a) ==
  IF SelectedWord(a) = 0 THEN Does(a) ELSE SendsOf(a, "InspectMemory", SelectedWord(a))

InspectBreakpoint(a) ==
  IF SelectedId(a) = None THEN Does(a)
  ELSE SendsOf(Focus(a, "Code"), "InspectCodeAt", SelectedId(a))

ToggleBreakpoint(a) ==
  IF SelectedId(a) = None THEN Does(a)
  ELSE SendsOf(a, IF a.list[a.row + 1].enabled THEN "DisableUserBreakpoint"
                  ELSE "EnableUserBreakpoint", SelectedId(a))

DeleteBreakpoint(a) ==
  IF SelectedId(a) = None THEN Does(a)
  ELSE SendsOf(a, "DeleteUserBreakpoint", SelectedId(a))

\* handle_live_breakpoints_tab_key
BreakpointsKeys == {"Down", "j", "Up", "k", "PageDown", "PageUp", "Home", "End", "Enter",
                    " ", "x"}
BreakpointsKey(a, code) ==
  CASE code \in {"Down", "j"} -> Does(MoveBreakpoint(a, 1))
    [] code \in {"Up", "k"}   -> Does(MoveBreakpoint(a, -1))
    [] code = "PageDown"      -> Does(MoveBreakpoint(a, 10))
    [] code = "PageUp"        -> Does(MoveBreakpoint(a, -10))
    [] code = "Home"          -> Does(FirstBreakpoint(a))
    [] code = "End"           -> Does(LastBreakpoint(a))
    [] code = "Enter"         -> InspectBreakpoint(a)
    [] code = " "             -> ToggleBreakpoint(a)
    [] OTHER                  -> DeleteBreakpoint(a)

\* handle_live_memory_tab_key
MemoryKeys == {"Down", "j", "Up", "k", "PageDown", "PageUp", "Home", "End", "Enter", "w", "g"}
MemoryKey(a, code) ==
  CASE code \in {"Down", "j"} -> Does(MoveWord(a, 1))
    [] code \in {"Up", "k"}   -> Does(MoveWord(a, -1))
    [] code = "PageDown"      -> Does(MoveWord(a, 10))
    [] code = "PageUp"        -> Does(MoveWord(a, -10))
    [] code = "Home"          -> Does(FirstWord(a))
    [] code = "End"           -> Does(LastWord(a))
    [] code = "Enter"         -> InspectWord(a)
    [] code = "w"             -> IF a.request = None THEN Does(a)
                                 ELSE SendsOf(a, "InspectMemory", a.request)
    [] OTHER                  ->
         Does([a EXCEPT !.prompt = "console", !.input = [word |-> "mem", arg |-> None]])

VerbOf(code) ==
  CASE code = "p" -> "Pause"    [] code = "r" -> "Resume"
    [] code = "c" -> "Continue" [] code = "n" -> "StepAllocatorEvent"
    [] code = "S" -> "SourceStep"      [] code = "N" -> "SourceStepOver"
    [] code = "." -> "StepInstruction" [] OTHER      -> "StepInstructionOver"
ControlKeys == {"p", "r", "c", "n", "S", "N", ".", ","}

SpaceKey(a) ==
  CASE a.status = "Running" -> Sends(a, "Pause")
    [] a.status = "Paused"  -> Sends(a, "Resume")
    [] OTHER                -> Does(a)

OnHeap(a)   == a.pane = "RightTab" /\ a.tab = "Heap"
OnMemory(a) == a.pane = "RightTab" /\ a.tab = "Memory"
OnBreaks(a) == a.pane = "RightTab" /\ a.tab = "Breakpoints"

\* Down and Up, Home and End, by what has the focus; the rest only scrolls.
Moved(a, by) ==
  CASE a.pane = "Trace" -> MoveEvent(a, by)
    [] OnHeap(a)        -> MoveChunk(a, by)
    [] OTHER            -> a
Page(a, by) == IF a.pane = "Trace" THEN MoveEvent(a, by) ELSE a
Topmost(a)  ==
  CASE a.pane = "Trace" -> SelectEvent(a, 0)
    [] OTHER -> a
Bottom(a) == IF a.pane = "Trace" THEN SelectLatest(a) ELSE a

Digits == {"1", "2", "3", "4", "5", "6"}
TabOf(code) ==
  CASE code = "1" -> "Heap" [] code = "2" -> "Stack" [] code = "3" -> "Logs"
    [] code = "4" -> "Maps" [] code = "5" -> "Breakpoints" [] OTHER -> "Memory"

GlobalKey(a, closed, code) ==
  CASE code \in {"q", "Esc"}  -> StopOrLeave(a, closed)
    [] code \in ControlKeys   -> Sends(a, VerbOf(code))
    [] code = " "             -> SpaceKey(a)
    [] code = "g"             -> Does([a EXCEPT !.prompt = "search", !.input = Blank])
    [] code = ":"             ->
         Does([Focus(a, "Console") EXCEPT !.prompt = "console", !.input = Blank,
                                          !.recalled = None])
    [] code = "f"             -> Does(IF a.follow THEN [a EXCEPT !.follow = FALSE]
                                      ELSE SelectLatest(a))
    [] code \in Digits        -> Does(OnTab(a, TabOf(code)))
    [] code = "]"             -> Does(OnTab(a, Cycled(Tabs, a.tab, 1)))
    [] code = "["             -> Does(OnTab(a, Cycled(Tabs, a.tab, -1)))
    [] code = "Tab"           -> Does(Focus(a, Cycled(Panes, a.pane, 1)))
    [] code = "BackTab"       -> Does(Focus(a, Cycled(Panes, a.pane, -1)))
    [] code \in {"Down", "j"} -> Does(Moved(a, 1))
    [] code \in {"Up", "k"}   -> Does(Moved(a, -1))
    [] code = "PageDown"      -> Does(Page(a, 10))
    [] code = "PageUp"        -> Does(Page(a, -10))
    [] code = "Home"          -> Does(Topmost(a))
    [] code = "End"           -> Does(Bottom(a))
    [] code = "Enter" /\ OnHeap(a) -> Does(EnterChunk(a))
    [] OTHER                  -> Does(a)

-----------------------------------------------------------------------------
(* The prompts.  A line typed in is a word and its argument; a key that is *)
(* a character spoils it.                                                  *)

Spoilt == [word |-> "?", arg |-> None]

\* handle_live_tui_search_key: all keys are taken, Ctrl-C too.
SearchKey(a, key) ==
  CASE key.code = "Type"      -> [a EXCEPT !.input = IF @ = Blank THEN key.line ELSE Spoilt]
    [] key.code = "Backspace" -> [a EXCEPT !.input = IF @ = Blank THEN Blank ELSE Spoilt]
    [] key.code = "Esc"       -> [a EXCEPT !.prompt = None, !.input = Blank]
    [] key.code = "Enter"     -> IF a.input.word = "user" THEN Search(a, a.input.arg)
                                 ELSE [a EXCEPT !.prompt = None]
    [] key.code \in {"C-c", "Up", "Down", "Tab", "BackTab", "Home", "End", "PageUp",
                     "PageDown"} -> a
    [] OTHER -> [a EXCEPT !.input = Spoilt]

\* parse_console_command: the control commands.
VerbTyped(word) ==
  CASE word = "continue"    -> "Continue"        [] word = "pause"       -> "Pause"
    [] word = "resume"      -> "Resume"          [] word = "next"        -> "StepAllocatorEvent"
    [] word = "stepi"       -> "StepInstruction" [] word = "nexti"       -> "StepInstructionOver"
    [] word = "source-step" -> "SourceStep"      [] word = "source-next" -> "SourceStepOver"
    [] word = "break"       -> "AddUserBreakpoint"
    [] word = "delete"      -> "DeleteUserBreakpoint"
    [] word = "enable"      -> "EnableUserBreakpoint"
    [] word = "disable"     -> "DisableUserBreakpoint"
    [] OTHER                -> None

TakesArgument == {"break", "delete", "enable", "disable"}

\* execute_console_command
Execute(a, closed, line) ==
  CASE line.word = "stop" -> StopOrLeave(a, closed)
    [] line.word = "tab"  -> Does(OnTab(a, line.arg))
    [] line.word = "heap" -> Does(Search(a, line.arg))
    [] line.word = "regs" -> Does(Focus(a, "Registers"))
    [] line.word = "list" -> Does(Focus(a, "Code"))
    [] line.word = "mem"  ->
         IF line.arg = None THEN Does(a)
         ELSE SendsOf([a EXCEPT !.request = line.arg], "InspectMemory", line.arg)
    [] line.word \in TakesArgument ->
         IF line.arg = None THEN Does(a) ELSE SendsOf(a, VerbTyped(line.word), line.arg)
    [] OTHER -> IF VerbTyped(line.word) = None THEN Does(a) ELSE Sends(a, VerbTyped(line.word))

\* remember_console_command
Remembered(a, line) ==
  IF a.history # <<>> /\ Last(a.history) = line THEN a
  ELSE [a EXCEPT !.history = Append(@, line)]

\* submit_console_input
Submit(a, closed) ==
  LET b == [a EXCEPT !.prompt = None, !.input = Blank, !.recalled = None]
  IN  IF a.input = Blank THEN Does(b) ELSE Execute(Remembered(b, a.input), closed, a.input)

Recall(a, i) == [a EXCEPT !.recalled = i, !.input = a.history[i + 1]]

HistoryPrevious(a) ==
  IF a.history = <<>> THEN a
  ELSE Recall(a, IF a.recalled = None THEN Len(a.history) - 1
                 ELSE IF a.recalled = 0 THEN 0 ELSE a.recalled - 1)
HistoryNext(a) ==
  IF a.recalled = None THEN a
  ELSE IF a.recalled + 1 >= Len(a.history) THEN [a EXCEPT !.recalled = None, !.input = Blank]
  ELSE Recall(a, a.recalled + 1)

\* handle_live_tui_console_key
ConsoleKey(a, closed, key) ==
  CASE key.code = "Type"      ->
         Does([a EXCEPT !.input = IF @ = Blank THEN key.line
                                  ELSE IF @.word = key.line.word /\ @.arg = None THEN key.line
                                  ELSE Spoilt])
    [] key.code = "Enter"     -> Submit(a, closed)
    [] key.code = "Esc"       -> Does([a EXCEPT !.prompt = None, !.input = Blank,
                                                !.recalled = None])
    [] key.code = "Backspace" -> Does([a EXCEPT !.input = IF @ = Blank THEN Blank ELSE Spoilt])
    [] key.code = "Up"        -> Does(HistoryPrevious(a))
    [] key.code = "Down"      -> Does(HistoryNext(a))
    [] key.code \in {"C-c", "Tab", "BackTab", "Home", "End", "PageUp", "PageDown"} -> Does(a)
    [] OTHER                  -> Does([a EXCEPT !.input = Spoilt])

\* handle_live_tui_key
Handle(a, closed, key) ==
  IF a.prompt = "search" THEN Does(SearchKey(a, key))
  ELSE IF a.prompt = "console" THEN ConsoleKey(a, closed, key)
  ELSE IF key.code = "C-c" THEN RequestStop(a, closed)
  ELSE IF OnBreaks(a) /\ key.code \in BreakpointsKeys THEN BreakpointsKey(a, key.code)
  ELSE IF OnMemory(a) /\ key.code \in MemoryKeys THEN MemoryKey(a, key.code)
  ELSE GlobalKey(a, closed, key.code)
=============================================================================
