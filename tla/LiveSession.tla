----------------------------- MODULE LiveSession -----------------------------
(***************************************************************************)
(* A live session (crates/heapify-cli/src/app.rs, run_trace_heap_live_tui):*)
(* the terminal interface and the trace worker are two threads, with a     *)
(* queue of commands one way and a queue of updates the other.  The        *)
(* interface drains its queue, draws, and takes at most one key, in turn;  *)
(* the worker polls its queue between two events and while the process     *)
(* stands still.                                                           *)
(***************************************************************************)
EXTENDS LiveInterface

CONSTANT Setups     \* what the user may press, and what the target may do

VARIABLES
  setup,        \* one of Setups: see SetupOf
  app,          \* LiveTuiApp, the interface's
  turn,         \* of the interface: "drain", or "key" once it has drained and drawn
  closed,       \* input_closed
  left,         \* run_live_tui_loop has returned: None, "key" or "failure"
  commands,     \* control_sender -> control_receiver
  updates,      \* sender -> receiver
  fresh,        \* how many of the updates are of the worker's last step
  worker,       \* see LiveWorker
  registry,     \* user_breakpoints, by id
  nextId,       \* next_user_breakpoint_id
  spent,        \* how many keys were pressed, stops sent, events reported
  cause,        \* why the worker paused last (not a variable of the code)
  failedEdit    \* the last edit failed halfway, and no list was sent since (not a
                \* variable of the code)

vars == <<setup, app, turn, closed, left, commands, updates, fresh, worker, registry, nextId,
          spent, cause, failedEdit>>

W == INSTANCE LiveWorker

\* What a session is made of: the keys pressed first, those pressed afterwards and
\* how many of them, the lines typed into prompts, how many events are reported,
\* the layouts, matches and memory they may show.
SetupOf(opening, keys, presses, lines, events, layouts, matches, words) ==
  [opening |-> opening, keys |-> keys, presses |-> presses, lines |-> lines,
   events |-> events, layouts |-> layouts, matches |-> matches, words |-> words]

\* Layouts are user addresses, memory is words, and a match may be about a chunk.
ASSUME SetupsTyped ==
  \A s \in Setups : /\ Len(s.opening) \in Nat
                    /\ s.layouts \subseteq Seq(Nat) /\ s.words \subseteq Seq(Nat)
                    /\ s.matches \subseteq Nat \cup {None}

\* The ways to leave are none at all otherwise.
ASSUME NoneIsNoWay == None \notin {"key", "failure"}

KeyOf(code)  == [code |-> code, line |-> Blank]
Typed(line)  == [code |-> "Type", line |-> line]
Line(w, arg) == [word |-> w, arg |-> arg]

Init ==
  /\ setup \in Setups
  /\ app = Opened
  /\ turn = "drain" /\ closed = FALSE /\ left = None
  /\ commands = <<>> /\ updates = <<>> /\ fresh = 0
  /\ worker = W!Launched /\ registry = <<>> /\ nextId = 1
  /\ spent = [keys |-> 0, stops |-> 0, events |-> 0]
  /\ cause = None /\ failedEdit = FALSE

-----------------------------------------------------------------------------
(* The worker                                                              *)

Says(o, kind) == \E i \in DOMAIN o.said : o.said[i].kind = kind

\* The updates of a step reach the queue, or nobody: the status of a command is
\* sent for what it is worth, all else ends the trace when it cannot be sent.
Becomes(o) ==
  /\ updates' = IF left = None THEN updates \o o.said ELSE updates
  /\ fresh' = Len(o.said)
  /\ worker' = IF left # None /\ \E i \in DOMAIN o.said : o.said[i].kind # "CommandStatus"
               THEN W!Fails(o.worker).worker ELSE o.worker
  /\ cause' = IF o.cause = None THEN cause ELSE o.cause
  /\ spent' = [spent EXCEPT !.events = IF Says(o, "Event") THEN @ + 1 ELSE @]

Reply(verb, answer, said) ==
  Becomes(W!Out(worker, <<Say(verb, "Accepted", worker.status, "other")>> \o said
                          \o <<Say(verb, answer, worker.status, "other")>>, None))

ControlCommand(c) ==
  /\ c.verb \in Controls
  /\ \E o \in W!Answer(worker, c.verb) : Becomes(o)
  /\ UNCHANGED <<registry, nextId, failedEdit>>

Refusal(c) ==
  /\ c.verb \in Inspections \/ (c.verb \in Edits /\ ~Valid(worker.status, c.verb))
  /\ Becomes(W!Answered(worker, c.verb, "Rejected"))
  /\ UNCHANGED <<registry, nextId, failedEdit>>

\* on_code_inspection and on_memory_inspection
Inspection(c) ==
  /\ c.verb \in Inspections /\ Valid(worker.status, c.verb) /\ worker.held
  /\ \/ Reply(c.verb, "Failed", <<>>)
     \/ c.verb = "InspectCodeAt" /\ Reply(c.verb, "Completed", <<CodeAt(c.id)>>)
     \/ /\ c.verb = "InspectMemory"
        /\ \E w \in setup.words : Reply(c.verb, "Completed", <<Shown(c.id, w)>>)
  /\ UNCHANGED <<registry, nextId, failedEdit>>

\* What the registry becomes; BreakpointManager has the breakpoints behind it.
Flagged(id, flag) ==
  [i \in DOMAIN registry |-> IF registry[i].id = id THEN [id |-> id, enabled |-> flag]
                             ELSE registry[i]]
IdAt(id) == CHOOSE i \in DOMAIN registry : registry[i].id = id
Edited(c) ==
  CASE c.verb = "AddUserBreakpoint"     -> Append(registry, [id |-> nextId, enabled |-> TRUE])
    [] c.verb = "DeleteUserBreakpoint"  -> RemoveAt(registry, IdAt(c.id))
    [] c.verb = "EnableUserBreakpoint"  -> Flagged(c.id, TRUE)
    [] OTHER                            -> Flagged(c.id, FALSE)
Known(c) ==
  c.verb = "AddUserBreakpoint" \/ \E i \in DOMAIN registry : registry[i].id = c.id

\* Mutant: the list is taken before the edit.
ListBefore == List(registry)

\* on_user_breakpoints, once the edit is made.
ListAfter == List(registry')

\* complete_breakpoint_management_command.  An edit that cannot touch the target
\* has changed the registry all the same; only one that succeeds shows the list.
BreakpointEdited(c) ==
  /\ c.verb \in Edits /\ Valid(worker.status, c.verb) /\ Known(c)
  /\ registry' = Edited(c)
  /\ nextId' = IF c.verb = "AddUserBreakpoint" THEN nextId + 1 ELSE nextId
  /\ \/ /\ Reply(c.verb, "Completed", <<ListAfter>>)
        /\ failedEdit' = FALSE
     \/ /\ registry' # registry
        /\ Reply(c.verb, "Failed", <<>>)
        /\ failedEdit' = TRUE

\* A symbol, a line or an id that names nothing.
EditUnresolved(c) ==
  /\ c.verb \in Edits /\ Valid(worker.status, c.verb)
  /\ c.verb = "AddUserBreakpoint" \/ ~Known(c)
  /\ Reply(c.verb, "Failed", <<>>)
  /\ UNCHANGED <<registry, nextId, failedEdit>>

\* handle_live_trace_controls: it is called between two waits, and not while a
\* source step runs.
ReadCommand ==
  /\ commands # <<>> /\ ~worker.over /\ worker.stepping = None
  /\ LET c == Head(commands) IN
       \/ ControlCommand(c)
       \/ Refusal(c)
       \/ Inspection(c)
       \/ BreakpointEdited(c)
       \/ EditUnresolved(c)
  /\ commands' = Tail(commands)
  /\ UNCHANGED <<setup, app, turn, closed, left>>

\* The updates of an allocator event: a heap layout is read when it can be.
Reports == {<<Event>>} \cup {<<Event, Layout(l)>> : l \in setup.layouts}

\* The rest of the loop of run_parent_trace_heap.
WorkerStep ==
  /\ \E report \in Reports, user \in setup.matches :
       \E o \in W!Own(worker, registry, report, Match(user)) :
         /\ spent.events = setup.events => ~Says(o, "Event")
         /\ Says(o, "UserBreakpoints") => \E i \in DOMAIN registry : registry[i].enabled
         /\ Becomes(o)
         /\ failedEdit' = (failedEdit /\ ~Says(o, "UserBreakpoints"))
  /\ UNCHANGED <<setup, app, turn, closed, left, commands, registry, nextId>>

-----------------------------------------------------------------------------
(* The interface: run_live_tui_loop                                        *)

\* try_recv finds an update.
TakeUpdate ==
  /\ left = None /\ turn = "drain" /\ ~closed /\ updates # <<>>
  /\ app' = Applied(app, Head(updates))
  /\ updates' = Tail(updates)
  /\ UNCHANGED <<setup, turn, closed, left, commands, fresh, worker, registry, nextId, spent,
                 cause, failedEdit>>

\* try_recv finds none: what the worker's last step sends may come later.  The
\* sender is dropped some time after the trace is over.
DrainEnds ==
  /\ left = None /\ turn = "drain" /\ Len(updates) <= fresh
  /\ closed' \in {closed, closed \/ (updates = <<>> /\ worker.over)}
  /\ turn' = "key"
  /\ UNCHANGED <<setup, app, left, commands, updates, fresh, worker, registry, nextId, spent,
                 cause, failedEdit>>

\* No key comes in time.
NoKey ==
  /\ left = None /\ turn = "key"
  /\ turn' = "drain"
  /\ UNCHANGED <<setup, app, closed, left, commands, updates, fresh, worker, registry, nextId,
                 spent, cause, failedEdit>>

\* send_live_command, send_console_live_command.  A command that the worker will
\* not read any more may be sent until its thread is gone.
Delivered(r) ==
  IF r.send = None \/ ~Valid(r.app.status, r.send.verb)
  THEN app' = r.app /\ UNCHANGED commands
  ELSE \/ ~worker.over /\ app' = Sent(r.app, r.send.verb) /\ commands' = Append(commands, r.send)
       \/ worker.over /\ ~closed /\ app' = Sent(r.app, r.send.verb) /\ UNCHANGED commands
       \/ worker.over /\ app' = r.app /\ UNCHANGED commands

KeyPresses ==
  IF spent.keys < Len(setup.opening) THEN {setup.opening[spent.keys + 1]}
  ELSE {KeyOf(code) : code \in setup.keys}
       \cup (IF app.prompt = None THEN {} ELSE {Typed(line) : line \in setup.lines})

\* handle_live_tui_key
Press(key) ==
  /\ left = None /\ turn = "key" /\ spent.keys < Len(setup.opening) + setup.presses
  /\ LET r == Handle(app, closed, key) IN
       /\ Delivered(r)
       /\ left' = IF r.leave THEN "key" ELSE None
       /\ spent' = [spent EXCEPT !.keys = @ + 1,
                                 !.stops = IF r.send = Command("Stop", 0) THEN @ + 1 ELSE @]
  /\ turn' = "drain"
  /\ UNCHANGED <<setup, closed, updates, fresh, worker, registry, nextId, cause, failedEdit>>

\* Drawing, or reading the terminal, fails.
TerminalFails ==
  /\ left = None
  /\ left' = "failure"
  /\ UNCHANGED <<setup, app, turn, closed, commands, updates, fresh, worker, registry, nextId,
                 spent, cause, failedEdit>>

Next ==
  \/ ReadCommand
  \/ WorkerStep
  \/ TakeUpdate
  \/ DrainEnds
  \/ NoKey
  \/ \E key \in KeyPresses : Press(key)
  \/ TerminalFails

Spec == Init /\ [][Next]_vars

-----------------------------------------------------------------------------
(* What must hold                                                          *)

Settled == commands = <<>> /\ updates = <<>> /\ left = None

\* The interface never points at what it does not show: the event, breakpoint,
\* chunk and word that are selected exist, and the chunk is the one remembered.
\* (LiveTuiApp::clamp_scrolls_to_content, the select and apply functions)
TypeOK ==
  /\ app.status \in Statuses /\ worker.status \in Statuses
  /\ worker.pending \subseteq {"Pause"} \cup Underway \cup {"StepAllocatorEvent"} \cup StepVerbs
  /\ app.selected \in 0 .. LastEvent(app)
  /\ InRange(app.row, app.list) /\ (app.list # <<>> => app.row # None)
  /\ InShown(app.chunk, app.layout) /\ InShown(app.cell, app.words)
  /\ app.user = IF app.chunk = None THEN None ELSE app.layout[app.chunk + 1]
  /\ InRange(app.recalled, app.history)

\* Once every message is read, what the interface believes of the target is what
\* the worker knows, although it changed its mind with every command it sent,
\* and the answers crossed the commands.  (apply_sent_live_command,
\* apply_command_status)
BeliefSettles ==
  Settled /\ ~worker.over /\ ~worker.lost /\ spent.stops <= 1 => app.status = worker.status

\* Once every message is read, the breakpoints shown are those the worker has.
\* An edit that failed halfway is the exception, since it sends no list: the next
\* edit that succeeds, or the next hit, puts that right.
\* (complete_breakpoint_management_command, run_parent_trace_heap)
ListSettles == Settled /\ ~failedEdit => app.list = registry

\* While the process stands still the interface shows why it does: the reason of
\* the last stop, not of an earlier one.  (infer_debugger_stop_reason)
ReasonCurrent ==
  Settled /\ worker.held /\ ~worker.lost /\ cause # "unexplained" => app.reason = cause

\* A key leaves the interface only when the trace is over, so that waiting for
\* the worker's thread returns.  (handle_live_tui_key, run_trace_heap_live_tui)
LeavesAfterEnd == left = "key" => worker.over

\* Following means that the newest event is the one selected.  (apply_update,
\* apply_sent_live_command, SelectLatest)
FollowsTail ==
  app.follow /\ app.status \in {"Running", "SteppingToNextAllocatorEvent"} /\ spent.stops = 0
    => app.selected = LastEvent(app)

\* A list or a layout that arrives between two keys does not move the selection
\* to another breakpoint or chunk while the one selected is still there: the
\* next key acts on what the user saw.  (normalize_selected_user_breakpoint_
\* with_previous_id, update_selected_chunk_after_layout_update)
SelectionKept ==
  [][Len(updates') < Len(updates) =>
       LET u == Head(updates) IN
       /\ (\E i \in DOMAIN app'.list : app'.list[i].id = SelectedId(app))
            => SelectedId(app') = SelectedId(app)
       /\ /\ u.kind # "BreakMatched"
          /\ u.kind = "HeapLayout" => \E i \in DOMAIN u.layout : u.layout[i] = app.user
          => app'.user = app.user]_vars
=============================================================================
