# Heapify: a TLA+ model

Heapify runs a program under ptrace, stops it at the entry and the return of `malloc`,
`free`, `calloc` and `realloc`, rebuilds what glibc's allocator did from the events, and
shows it live in a terminal or as NDJSON. This directory specifies the parts of it whose
correctness depends on order, on failure or on who acts when, checks them with TLC and
proves the central ones with TLAPS.

Paths below are relative to `crates/`.

## 1. The system

| Component | State it keeps | Operations | Talks to |
|---|---|---|---|
| Breakpoint manager `heapify-debugger/src/breakpoint.rs` | physical INT3 and saved byte per address, the list of its owners, the registry of user breakpoints | add, enable, disable, delete of a user breakpoint; set of an allocator or a step-over breakpoint; removal of an owner; credit of hits | the traced process's memory |
| Trace worker `heapify-debugger/src/lib.rs`, `run_control.rs` | paused, pause_requested, run mode, target status, ids of commands in flight, the nexti and the source step in flight, time of the stop request | poll commands, `waitpid(WNOHANG)`, serve a hit, single-step, continue, kill | the process by ptrace and signals, the interface by two channels |
| Event pairing (same file) | the last event id; return breakpoints carrying an entry's arguments | entry hit plants a return breakpoint, return hit reports | breakpoint manager, trackers |
| Heap tracker `heapify-core/src/tracker.rs` | one record per pointer ever returned | one per event kind | event callback |
| Observed tcache `heapify-core/src/tcache.rs` | per-bin lists of freed pointers | observe, compare with memory, validate | event callback, snapshots |
| Allocator sources `allocator_sources.rs`, heap scan `heap_scan.rs`, glibc layouts `glibc.rs` | none: pure functions of snapshots | classify, merge, validate, select a profile | snapshots |
| Chain readers `heapify-debugger/src/lib.rs:4651-5880` | none | bounded walks of fastbin, tcache, small, large and unsorted lists | the process's memory |
| Live session `heapify-cli/src/live.rs`, `app.rs` | what the interface believes: status, panes, command history | keys to commands, updates to panes, break conditions | worker thread by channels |
| Sinks and replay `trace.rs`, `json.rs`, `replay.rs` | a writer, a position | emit records, read them back | event callback |
| Launch, maps, snapshots, ELF | file descriptors; otherwise none | fork/exec, stdin writer, symbol lookup | the process |

What is hard here: the worker, the kernel and the traced process run concurrently, and
the user sends commands at any moment; a signal can be reported where a single-step's trap
is expected; several owners share one byte of the program's text; writing that byte can
fail half-way through an operation; an event id handed out at an entry is used at a return
that may share its address with other calls; a pause, a stop and an exit race; the evidence
mixes snapshots taken at different events with lists reconstructed from what was seen; the
interface changes its status when it sends a command, before the answer, and reads a batch of
updates between two keys.

What makes each part correct:

- **Breakpoints**: no byte of the program is ever lost; an address traps exactly while
  somebody claims it; the user's registry and the claims agree; a return breakpoint reports
  its own event, once.
- **Worker**: the process is held exactly when the worker thinks it is, the status says so,
  no command is answered twice, a pause and a stop get somewhere.
- **Tracker**: what it shows as allocated or freed is; a double free is called that exactly
  when it is one.
- **Evidence** (readers, observed tcache, sources, scan): of a sound heap every list is read
  whole and called plausible; what is called plausible of a damaged one is not wrong; an alarm
  has a reason; each record tells what was so at its event.
- **Trace and replay**: a trace cut anywhere replays as the session that had come so far.
- **Live session**: the interface's status, list and stop reason converge to the worker's; the
  selection stays on what the user saw; a key leaves only when the trace is over.
- **Command line**: what is asked for does not hang on the order of the options, but for two that set one value.

## 2. Modules

### BreakpointManager

State: `mem`, the byte in the process at each address; `breakpoints`, the code's map from
address to saved byte, enabled flag and owners in order; `users` and `next_id`, the
registry; `event_id`; `hit`, what `handle_managed_breakpoint_hit` keeps on its stack while
it steps over a breakpoint; `aborted`, an error that ended the trace. Three history
variables (`unsynced`, `stuck`, `retired`) name what went wrong or was reported before.

Every operation takes `ok`, whether the memory accesses it makes succeed; what the code
leaves behind on its error path is what the action leaves. A hit is `BeginHit` (rewind, lift
the INT3), `PlantReturn` or `MissReturn` for an entry, and `EndHit` (the single-step, removal
of a return owner, re-arming, crediting of user breakpoints), so that a failure may come
between any two. The words read and written by PTRACE_PEEKDATA and POKEDATA are reduced to
the one byte the code changes in them.

`TrapLedger` is what the owners are promised: an address traps as long as anybody claims it,
except while it is stepped past. `BreakpointManager!KeepsLedger` says the table implements
it, mapping claims to owner lists, armed to managed-and-enabled addresses, lifted to
managed-and-not-enabled ones.

### TraceWorker

The loop of `run_parent_trace_heap` under `TraceWaitMode::Controlled`, together with the
process and the kernel. `tgt`, `report`, `queue` and `pc` are the process: running, in a
ptrace-stop or gone; the wait status not yet reaped; pending signals; where it stands.
`HitBreakpoint`, `DequeueSignal`, `ReceiveSignal` and `ExitProcess` happen at any moment.
`users`, `rets`, `overs` and `stale` are the claims of BreakpointManager reduced to what the
loop asks (is there a user, a return, a step-over owner; is the byte still INT3 without one).
The other variables are the loop's own, by their names in the code.

One step of `Command` is one iteration of `handle_live_trace_controls`; since that loop
polls until no message is left, and a message may arrive late, the polling may stop after
any of them. `at = "afterHit"` is the second place commands are polled, between serving a hit
and continuing. `Reap` is the match on the wait status, one action per arm.
`SourceStepping` is `run_source_step_to_completion`, during which no command is polled.
Serving a hit - disable, single-step, remove, re-arm - is one step here: BreakpointManager
has the steps, and no command is polled between them. What may interrupt it is a signal,
and that is `StepLost`.

### HeapTracker

`live`, `dangling` and `doubled` are the heap and the free lists, `hidden` the addresses last
allocated or freed by a call no breakpoint sees (aligned_alloc, or a library that does not go
through the program's PLT); `chunks` and `note` are the tracker. The allocator may return any
address not in use, and one that was freed twice even while it is in use; the program may free
anything. realloc is called on live blocks only: of others glibc's answer is an abort.

`first_seen_event_id`, `last_seen_event_id`, `last_chunk_size` and the texts of `explain_event`
are left out: nothing is decided by them. Events are reported when calls return, so nested calls
reach the tracker in the order of their returns and not of their ids; that is also the order in
which the heap changed, and the model takes call and event together for that reason. A call of
another thread that overtakes between the two would be a different matter: Heapify traces one.

### The session: LiveCommands, LiveWorker, LiveInterface, LiveSession

`LiveCommands` is what the two threads say to each other, and `Valid` is
`validate_live_command`, which both of them ask.

`LiveWorker` is the abstract worker: a record of what the interface can learn of
`run_parent_trace_heap` (status, whether it holds the process, which commands it owes an answer,
stop requested, source step, process gone, over), and for each command and each thing that can
happen the answers sent. It is used twice. `TraceWorker!KeepsPromise` says the detailed loop
implements it (`Promised` is the refinement mapping), and `LiveSession` composes it with the
interface, so that the session is checked against a worker the loop is shown to be. The
refinement is about the record - status, holding, what is still owed, the end; the words of each
answer are translated in `LiveWorker` alone, line by line, since `TraceWorker` sends none.

`LiveInterface` is `LiveTuiApp`: `Applied` is `apply_update`, `Handle` is `handle_live_tui_key`
with its prompts, its console and its three selections (event, breakpoint, chunk). `LiveSession`
has the two queues, the registry of breakpoints as the commands change it, the drain-draw-key turns
of `run_live_tui_loop`, a terminal that fails, and the end of the worker's thread. One update is
taken at a time (`TakeUpdate`); the drain ends when the queue is empty, and what the worker's last
step sent may be missed by it (`DrainEnds`), so that a key may fall between two updates of one
step. The keys that open a session (`setup.opening`) are pressed one after the other like all others.

### The evidence: GlibcProfiles, GlibcHeap, BinChains, ObservedTcache, HeapReport, ArenaExperiments, LaunchOptions, TraceRecords, Replay, HeapEvidence

`GlibcHeap` is the target's memory as words: free lists of chunks and what their links hold,
protected links included, and at most one word the program overwrote. It is external, glibc's
behaviour as far as the readers rely on it. `BinChains` has the readers of lib.rs (heap walk,
fastbin, unsorted, small and large bins, the tcache struct) as bounded recursions, and
the validations of glibc.rs; `ArenaExperiments` the four scans of the arena for pointers.
`ObservedTcache` is tcache.rs: the lists put together from frees seen, their comparison with
memory and their validation. `HeapReport` is allocator_sources.rs and heap_scan.rs: memberships,
conflicts, warnings, summary, delta and findings. `GlibcProfiles` selects a layout.
`LaunchOptions` is `parse_trace_heap_args` with the presets and conflicts. `TraceRecords` says which
records are written and which of them are printed, `Replay` reads them back, and has the timeline.

`HeapEvidence` composes them. One step is one call of the program: the allocator chooses where
the chunk comes from or goes to, stashing and sorting included, and the tracer handles the event
(`emit_live_trace_records`) in the order of the code - tracker, tcache, mapping, bins read once and
kept, sources, scan, break conditions, records. The target stands still meanwhile, so this is
one step. Other steps are calls no breakpoint sees and an overwritten word.

Where the code loops these modules use recursive functions up to the limit of the loop, or folds. TLC
evaluates them; the proofs unfold those of the readers, the walk, the parser and the replay step by step
(section 4).

### MC modules

`MCBreakpointManager` and `MCTraceWorker` give the function constants values and name the
model values; `MCHeapEvidence` lists command lines, `MCLiveSession` sets of keys. `HeapTracker` is
checked as it stands.

## 3. Runs

| Run | Config | Shows |
|---|---|---|
| breakpoints | MCBreakpointManager.cfg | TypeOK, ProgramText, Rearmed, NoIdleTrap, OwnersRegistered, EnabledArmed, ReportedOnce, HitsCredited, KeepsLedger |
| worker | MCTraceWorker.cfg | TypeOK, HeldIffPaused, StatusHonest, NextiTrapped, PendingOpen, KeepsPromise |
| worker_live | MCTraceWorkerLive.cfg | PauseComes, StopProgresses |
| tracker | MCHeapTracker.cfg | TypeOK, TracksLive, TracksFreed, DoubleFreeExact, ReuseExplained |
| evidence | MCHeapEvidence.cfg | TypeOK, SoundHeapReadWhole, PlausibleIsPrefix, VouchedFastbinEnds, SnapshotsPredateFrees, AlarmsExplained, HeaderTakenForStray, OptionOrder, MatchIsExact, LayoutTells, ReplayTellsTrace |
| session | MCLiveSession.cfg | TypeOK, BeliefSettles, ListSettles, ReasonCurrent, LeavesAfterEnd, FollowsTail, SelectionKept |
| pause_race, double_continue, nexti_leak, stop_frozen, source_step_exit, stepi_trap | MCWorker*.cfg | one documented promise each that the code does not keep, see section 5 |

Bounds, and why they suffice:

- *breakpoints*: two addresses, one of which holds an INT3 of the program's own; two entry
  kinds and their return kinds, so that a return owner can share an address with one of the
  same and one of another kind; two user breakpoints, which may share an address with each
  other; one nexti; two event ids, two outstanding calls being what it takes to confuse their
  returns; four owners per address; one hit credited. A third address adds nothing: an
  operation touches one address, a hit at most two.
- *worker*: one allocator entry and one other address which returns, step-overs and user
  breakpoints share; five commands of all ten kinds. The longest scenario known, a nexti
  orphaned and met again, takes four. The process receives one further kind of signal, of
  higher priority than SIGTERM and SIGSTOP.
- *worker_live*: three commands: one to pause, one to act, one to interfere. The program gets
  no signals of its own, since an endless stream of a lower-numbered signal may hold back a
  SIGSTOP for ever.
- *tracker*: two addresses, products below, at and above the word. Nothing is counted: the state
  space is finite, so the run covers calls, traced or not, in every order and any number.
- *evidence*: three chunks of one size, which never merge, and the top; a walk of five chunks and
  chains of two nodes (three in the tcache), so that lists of exactly the limit and longer ones
  occur; one chunk kept in the tcache. Fifteen command lines: each preset, each view, wide and narrow limits, a guessed and
  a known layout, a header where the profile says and two words below, a refused line of each kind. Six events
  in an undisturbed session, enough to fill the tcache, fill a bin beside it, take a chunk out and
  free it again; four where a trace is written or something disturbs; one untraced call, one
  overwritten word. Addresses count words, not bytes.
- *session*: seven kinds of session, each with the keys of one part of the interface - let go, hold and
  stop; follow the tail; all kinds of step; edit breakpoints; browse chunks; look at memory; type and recall lines -
  and three to five keys of them in any order, against every behaviour of the worker, with up to two
  events. A command that crosses an update takes one key and one event; a second command that crosses the
  answer of the first, two keys.
- Deadlock is not checked: the trace ends, and every bound stops the models somewhere.

Fairness: the worker's thread runs (`WF` of `Worker`) and a pending signal of a running
process is eventually delivered (`WF` of `DequeueSignal`). `GraceElapsed` needs strong
fairness: `waitpid` must find the process running at some poll more than two seconds after the
request, and a process that traps over and over is running at the poll only now and then.
Nothing is assumed of the program: it need not trap, exit or die of a signal. `QuietSpec` takes
out one thing: a command that lets the process go between the hit that paused it and the end of
that iteration. With it `PauseComes` fails too, because the second continue of the
`double_continue` run may also swallow a SIGSTOP that is already reported.

## 4. Proofs

All theorems are for any values of the constants that satisfy the assumptions their modules name, and rest
on nothing else. TLC evaluates the assumptions on every run.

`BreakpointManager_proofs`
: `TypeCorrect` first. `HitOpen` has to go with the types: `EndHit` writes at `hit.addr`, and
that stays a managed address only because nothing is removed during a hit.
`TextPreserved` proves `IInv`: `ProgramText` and `Rearmed` are not inductive alone. When the
last return owner leaves, its entry is dropped without writing memory, which is right only
because the byte was restored at the beginning of the hit (`HitLifted`); and the exemption in
`Rearmed` must be the hit in progress and no other address. The lemmas treat `Enable`, `Disable`,
`AddOwner` and `RemoveOwner` once each; the actions only compose them.
`ProgramTextRearmed` and `AlwaysRearmed` are corollaries.
: `OwnersAgree` proves `OInv` on top of `IInv`: beside `NoIdleTrap`, `OwnersRegistered` and
`EnabledArmed` it takes `ClaimedOnce` (no owner is in a list twice, or removing it would leave
it there), `IdsFresh`, `ReturnsPending` (a return owner belongs to a call that is out, and to one
only) and `HitCurrent` (what a hit read before the single-step is still so after it).
`IdleTrapsGo`, `ClaimsRegistered`, `ListedArmed` and `EventsReportedOnce` follow, and
`HitsCreditedAlways` step by step. `LedgerKept` is the refinement: each action changes the claims as
one step of `TrapLedger` does, or not at all.

`TraceWorker_proofs`
: `WorkerKeeps` proves three invariants, each on top of the one before. `TInv`: types, with what
keeps a step-over count from going below zero (a nexti and a source step each own one claim, also
at the same address). `HInv`: who holds the process. `HeldIffPaused` needs `PausedHeld`, because a
source step runs calls while `paused` stays true, and `ReportFits`, because a pause is only as good
as the report it was taken for. `AInv`: the ids that are pending differ, without which an answer
could close another command. `WorkerTyped`, `HeldKnown`, `StatusTrue`, `NextiKeepsTrap` and
`AnsweredOnce` are its corollaries.
: `PromiseKept`, that `TraceWorker` implements `LiveWorker`. One lemma for each kind of move the
abstract worker has; `PInv`, what a held process shows (a pause whose stop was reaped), needed
because a `continue` of a process that is gone must be answered as one of a held process; then one
step per action of the loop, the process and the kernel.

`HeapTracker_proofs`
: `TrackerAgrees`: `TypeOK`, `TracksLive` and `TracksFreed` together are inductive. One lemma
for each outcome a call can have (an address returned, handed back, resized, moved, nothing, or a
call not traced), and the actions are their combinations. `Allocated` and `live` agree on a
returned address whatever the tracker believed before, which is why untraced calls elsewhere do no
harm. `TrackerTyped` and `FreedKnown` are corollaries; `DoubleFreeSound` and `ReuseSound` follow
step by step.

`LiveInterface_proofs`
: What an update and a key do to the interface, for every state of it, every update and every key.
`App` is the type of the interface with its selections in range; `AppliedRight` says that an update
keeps it and changes status, list, reason and end only to what the update says, `HandlePressed` that a
key keeps it, leaves only at the end of the trace, and sends a command that is valid in the status
shown. One lemma per kind of update, per selection and per pane.

`LiveSession_proofs`
: `SafeAlways` proves `Safe`, from which everything the session run checks follows but one property. None
of those properties is inductive, since they speak of the moment when all messages are read; `Safe`
says what holds while they are on their way. `Tells` is what a queue of updates tells of the status, the
reason, the list and the end, the last update that says something of it counting. `Believed`: what is
told, or shown where nothing is told, is what the worker knows: the list unless an edit failed
halfway, the reason while the process stands still, and the status once no command is on its way; and
nobody is told of the end, or leaves, before it. `StopsSent`: a stop is in the queue or obeyed only if
one was sent, and of one sent stop there is one. What the worker answers is taken from `LiveWorker`, one lemma for
each kind of outcome; where a queue is searched for what was told last, the least-number principle of
the library stands in for induction.
`TypeCorrect`, `BeliefRight`, `ListRightAlways`, `ReasonRight` and `LeavesRight` are corollaries,
`SelectionStays` follows step by step.
`FollowsAlways` needs `InOrder` beside it: the queue tells of an event only after it told of going on, and
of going on only after it told that the process stood still, so that an interface that follows, and whose
newest event is not the one selected, was last told of something other than running.
The proofs use that the sentinel `None` is none of the values it stands beside (`NoneIsNothing`,
`NoneIsNoWay`) and that layouts and memory are sequences of words (`SetupsTyped`).

`CommandLine_proofs`
: `OrderAlways`, for a line of any length. The loop of the parser is a recursive function, so what it leaves is
an invariant of its steps (`LoopTells`, by `Induct`): after k options it has refused the line if one of them
cannot stand (`Taken`), and else a configuration of which `Tells` says field by field what it is, in words that
do not mention the loop: the union of what the flags show, the value of the last option of a flag, the values
of a list by their places in the line. Of a line and a reordered one these agree: `Reordered` maps places to
places, the last option of a flag to the last (`StoredReordered`) and, since numbers can be listed in order in
one way only (`EnumeratesOnce`), a list to the same list (`ListedReordered`); the break conditions are only the
same set. What follows the loop does not look at their order (`FinishedAlike`).

`HeapEvidence_proofs`
: `InvAlways` proves `Inv`, which is what the evidence rests on: whatever the allocator does - serve from
any list, stash, sort, grow the top - the heap stays well formed (`WellFormed`: no chunk in two places, none
beyond the top, the end of the heap where the chunks say), the mapping once found lies within it, and as long
as every call is traced (`Traced`) the tracker knows each chunk and its state, and each bin was read, empty,
with the first chunk. `PredateFrees` is a corollary, `AlarmsAlways` (`CalmEvent`: of an undisturbed session
no scan has a suspicious finding but for one of the `Reasons`) and `LayoutAlways` follow step by step.
`TypeAlways` adds that what the summary counts is finite.
: `MatchAlways` needs `Watched` beside it: the links seen at the frees lead where the tcache's list does, for
every chunk whose free was an event, since the observed tcache is never popped and an entry of it may be older
than the list.
: The readers are loops, and a claim about what a loop has read is an invariant of its steps. `Iterates` and
`Unfolds` show that a recursive function up to a limit is what its step makes of its start; `Induct`, from the
least-number principle, carries the loop's invariant to its end. `SoundReadAlways` uses `Along` (the reading
has come k chunks along the list, and the next one is at hand or the list is over), `FastbinAlways`
`ReadOnceOnly`, `PrefixAlways` `FollowsFrom` and `Agreeing`: an overwritten forward link leads astray only if
the chunk it leads to has a link back, and one word was overwritten, so that such a chunk is the one that
comes next or has no forward link, and then the reading does not end as one that is vouched for
(`BackLink`). `StrayAlways` uses `Straying` and keeps `KeptStrays` of the snapshots. It is about heaps nobody
overwrote: an overwritten link can close the chain, or end it at the address the reader looks for.
: Of the constants they use `HeapBounds` (a walk can list every chunk, and the heap ends below the arena),
`ChainBound`, `TcacheBound`, `BoundsAreNumbers`, and that `None` is none of the values it stands beside.
`SetupsTyped` says of a command line only that it is one, and that the limits on it are numbers where they
parse; that the parser then makes numbers of them is `ConfigNumbers` of `CommandLine_proofs`.

`Replay_proofs`
: `ReplayAlways`, for a trace of any length. `BookAlways` is the invariant it needs, and speaks of the writer
only: a trace is one page of the session and one page of each event in turn (`Paged`); the event is the
first record of its page and the only event on it, every record of the page carries its id, and either every
page has one summary and, next to it, the difference from the summary before (`Summed`), or no page has any
(`Unsummed`). Which blocks are told once, and which views are on, does not matter, since `Amid` says of an
event's records only that nothing else of these kinds is among them. The rest is about the reader, and holds of
every such sequence (`FileIs`), with the end of the session or cut within the last page (`WholeFile`, `CutFile`).
`Picked`, by which the reader selects, is a recursive function: `PickedIs` says that it yields what stands at
the numbers picked, in their order, `PickedRun` that a run of numbers yields the run. So what is told of an
event is what follows it in the file (`RelatedRead`, `FollowingRead`), the deltas up to its end add up to its
summary (`CountMoves`, by `Induct` along the file), the line selected is among those shown (`OffsetShows`), and the
two ends frame the rest (`WholeRendered`).

Model-checked only: `PauseComes` and `StopProgresses`, since liveness under fairness is out of the prover's reach.
Every invariant and every other action property of the passing runs is proved.

## 5. Where the code and its documentation disagree

- **pause_race**: `p` while a breakpoint hit is served. The single-step's `waitpid` reports
  SIGSTOP first, and the trace ends with an error (lib.rs:3771).
- **double_continue**: `c` polled right after the event that completed `n`. The process is
  continued twice, the second time while it runs; ESRCH ends the trace (lib.rs:1738).
- **nexti_leak**: `,` then `p`, `r`, `p`, `,`: pausing leaves the nexti in flight, the second one
  overwrites it, and the first one's breakpoint later has no owner anybody serves (lib.rs:2664,
  3586).
- **stop_frozen**: `p` then `q` before the pause is noticed. The pause is noticed after the stop;
  from then on the loop polls commands only and the grace period never elapses (lib.rs:1506).
- **source_step_exit**: the process exits under `S`. The worker reports a pause and stays in it
  (lib.rs:2970).
- **stepi_trap**: `.` in front of a breakpoint executes the INT3 (lib.rs:2495).

## 6. What the models show of the code

Beside the disagreements of section 5, the models made these plain. Each is built into the models, and
the properties hold with it; the one that a line of the documentation reads otherwise is named so.

Evidence:

- Each bin is read at the first event that can read it and kept for the session, so the snapshots
  that later warnings, summaries and scans compare with predate every traced free
  (`SnapshotsPredateFrees`; app.rs:7528, 7677, 7784, 7869). The heap mapping is found once too
  (lib.rs:5899-5912), and what lies beyond a heap that grew counts as outside.
- The sentinel of a doubly linked bin is taken to be the arena plus the field's offset; glibc's header
  lies 0x10 lower. Where it does, every scan calls every bin it read a node outside the heap
  (`HeaderTakenForStray`).
- The tail word of a bin is never compared with the last node read: a chain cut short can be
  plausible (`PlausibleIsPrefix` and not equality).
- The observed tcache is never popped, does not see the frees a realloc makes, and takes a free to
  another bin for a push (tcache.rs:73-110). `MatchIsExact` says what a match with memory is still worth.
- The default limit of 16 regular bins leaves the large bins unread; the default profile has no offsets.
- `--break-on suspicious` looks at the heap scan only, where README.md:235 speaks of "heap scan or
  allocator diagnostics"; warnings and failed validations that are no finding of the scan do not stop.
- An empty unsorted bin is always `incomplete`. A
  chunk allocated and in a free list is reported as that, and its size mismatch is not (heap_scan.rs).
- The chunk lines of a layout name the tcache and fastbins as sources, the JSON of it all bins
  (app.rs:5309-5335, json.rs:1374-1459). `replay --events-only` still shows the chunk lines of events.
- A trace cut within a line is refused as a whole; cut between lines it replays (`ReplayTellsTrace`).
  A trace that fails writes no `session_end`; one that ends writes exit status "unknown".

Session:

- `:break *ADDR` with an address that cannot be written fails, but the breakpoint stays in the registry,
  enabled, and is on the next list sent; `:enable ID` then succeeds and arms nothing (breakpoint.rs:294, 322).
  `EnabledArmed` exempts such a breakpoint until it is disabled.
- A breakpoint command that fails half-way sends no list; the registry has changed all the same. The next
  command that succeeds, or the next hit, brings the list up to date (`ListSettles`, `failedEdit`).
- A second stop while paused lets the process run and leaves the worker's status, and then the interface's,
  at Paused; `StatusHonest` ends at the first stop, `BeliefSettles` at the second (lib.rs:2179).
- A call that leaves without returning (longjmp) leaves its return owner behind, and the next call of the
  kind that returns there is reported with its event (lib.rs:3774); `ReportedOnce` is about one event twice.
- After a source step that ended without a reason known to the interface, the stop reason shown is the
  one before it.
- `c` or `r` out of a pause switches following on, and the answer that accepts it, still with the status
  Paused, off again (live.rs:615-619); the tests of both keys stop before the answer. `FollowsTail` says only
  what holds while following is on. Events between a stop and its answer are not followed either.
- Late answers to an inspection take the focus to their pane.
- If the terminal fails while the process is held, the join of the worker's thread waits for ever
  (app.rs:702-704): `LeavesAfterEnd` is about keys.

## 7. Not modelled, and why

- *Launch, the stdin writer, /proc maps*: system calls in one order without state that outlives them.
- *Register, stack, code and memory snapshots*: reads of a stopped process; that they are asked for and
  answered is in `LiveSession`, what they hold decides nothing.
- *ELF and DWARF*: the object and gimli crates. Resolving a symbol or a line for a breakpoint either
  gives an address or fails, and that is how `BreakpointManager` and `LiveSession` take it.
- *Rendering, scrolling, the text of records*: layout without decisions, but for which record is shown.
- *Write errors of a sink*: they end the session at the record at hand.
- *The blocking loop without an interface*: one thread, no commands; the part it shares with the
  controlled loop is modelled there. ptrace events other than traps, signals and exits end the trace.
- *Threads of the traced program*: Heapify traces one. The arguments a return breakpoint carries are
  taken for the call's own.
- *Chunks of several sizes, merging, other arenas*: one size class and one arena exercise every reader;
  the sizes the validations compare are there, since an overwritten size word is among the damage.
- *The search for main_arena* uses libc's symbol, which is taken as found, and a word that cannot be read
  at all occurs only outside the heap and the arena.

Smaller things the models abstract, none of which a property rests on:

- *TraceWorker*: `CanStep` leaves out the test that all breakpoints are armed (lib.rs:2465), since between hits
  they always are (`Rearmed`, proved). That the instruction at RIP cannot be decoded under a source-next, which
  ends the trace (lib.rs:2864), is not a step of its own; under a nexti it leaves everything as it was.
- *BreakpointManager* has no action for a single-step that fails within a hit: the trace is over with the
  breakpoint lifted, as it is when re-arming fails in `EndHit`.
- *LiveInterface* leaves out `normalize_memory_selection`: in the model the row is reset with every
  snapshot and clamped when it moves, so that there is nothing to normalise (`TypeOK`).
- *LiveWorker*: a nexti started over a process that is gone is answered Accepted and Failed, as a stepi is, where
  the code may answer Failed alone; the interface takes both the same way.
- *HeapEvidence*: a stray link, decoded or not, is one address outside every mapping, and the tcache structure
  is always found.
