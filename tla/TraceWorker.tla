----------------------------- MODULE TraceWorker -----------------------------
(***************************************************************************)
(* The trace worker of a live session (crates/heapify-debugger/src/lib.rs, *)
(* run_parent_trace_heap): one thread that polls live commands, waits for  *)
(* the traced process with WNOHANG, steps it past breakpoints and decides  *)
(* who pauses it.  The traced process and the kernel run concurrently with *)
(* it: a stop is reported (`report') some time before waitpid reaps it,    *)
(* and signals queue up (`queue') until the process runs again.            *)
(*                                                                         *)
(* Claims on breakpoints are kept as BreakpointManager keeps them, reduced *)
(* to what the loop asks of them: which kinds of owner an address has.     *)
(* Serving a hit (disable, single-step, remove, re-arm) is one step here.  *)
(***************************************************************************)
EXTENDS Naturals, FiniteSets

CONSTANTS
  Addr, Elsewhere, \* addresses that may carry a breakpoint; all the others
  Entries,         \* the allocator entry points among them
  Verbs,           \* the live commands that are sent
  ProgramSignals,  \* whether the program receives signals of its own
  MaxCommands      \* bound: live commands sent

ASSUME Constants ==
  /\ Elsewhere \notin Addr
  /\ Entries \subseteq Addr
  /\ ProgramSignals \in BOOLEAN
  /\ MaxCommands \in Nat

VARIABLES
  \* the traced process
  tgt,             \* "running", "stopped" (ptrace-stop) or "gone"
  report,          \* the wait status not reaped yet, or NoReport
  queue,           \* pending signals
  pc,              \* where it is stopped: an address of Addr, or Elsewhere
  \* BreakpointManager: who claims what
  users,           \* addresses with a persistent user breakpoint
  rets,            \* addresses with a return breakpoint of a traced call
  overs,           \* how many instruction step-overs claim each address
  stale,           \* armed addresses nobody claims: the byte was not restored
  \* run_parent_trace_heap
  at,              \* "loop", "afterHit" (controls polled after a hit), "ended"
  failure,         \* the error that ended the trace, or "none"
  paused, pause_requested, run_mode, target_status,
  pending_pause, pending_step,      \* LiveCommandIds, 0 for None
  pending_nexti,                    \* PendingInstructionStepOver
  source,                           \* SourceStepState and the call it steps over
  stop_requested,                   \* stop_requested_at.is_some()
  \* commands
  sent,            \* LiveCommandIds handed out
  open,            \* history: ids accepted and not yet Completed or Failed
  skipped          \* history: the process ran past an INT3 nobody rewound

target  == <<tgt, report, queue, pc>>
claims  == <<users, rets, overs, stale>>
mode    == <<paused, pause_requested, run_mode, target_status>>
pending == <<pending_pause, pending_step, pending_nexti>>
control == <<at, failure, mode, pending, source, stop_requested>>
log     == <<sent, open, skipped>>
vars    == <<target, claims, control, log>>

-----------------------------------------------------------------------------
(* Values *)

Signals == {"USR", "TERM", "STOP"}

\* The kernel dequeues the lowest-numbered pending signal first.
Rank == [USR |-> 1, TERM |-> 2, STOP |-> 3]
First(s) == s \in queue /\ \A t \in queue : Rank[s] <= Rank[t]

NoReport  == [why |-> "none", addr |-> Elsewhere, sig |-> "none"]
Trap(a)   == [why |-> "trap", addr |-> a, sig |-> "none"]
Sig(s)    == [why |-> "signal", addr |-> Elsewhere, sig |-> s]
Exit      == [why |-> "exit", addr |-> Elsewhere, sig |-> "none"]

Nexti(id, a)  == [id |-> id, addr |-> a]
NoNexti       == Nexti(0, Elsewhere)

\* phase "step": between two instructions; "call": the process runs a call
\* whose fall-through is addr, and the worker blocks in waitpid.
Source(phase, id, kind, a) == [phase |-> phase, id |-> id, kind |-> kind, addr |-> a]
NoSource                   == Source("none", 0, "none", Elsewhere)

\* LiveTargetStatus of a worker that only has commands in flight
Stepping == {"SteppingToNextAllocatorEvent", "SteppingInstruction",
             "SteppingInstructionOver", "SourceStepping", "SourceSteppingOver"}
Statuses == {"Running", "Paused", "Stopping", "Exited"} \cup Stepping

Claimed(a) == a \in Entries \cup users \cup rets \cup {b \in Addr : overs[b] > 0}
Armed(a)   == Claimed(a) \/ a \in stale

Busy    == failure = "none" /\ at # "ended"
Polling == Busy /\ source = NoSource
Waiting == Polling /\ at = "loop" /\ ~paused

-----------------------------------------------------------------------------
(* The process and the kernel *)

Stop(r) == tgt = "running" /\ tgt' = "stopped" /\ report' = r

HitBreakpoint(a) ==
  /\ Stop(Trap(a)) /\ Armed(a)
  /\ UNCHANGED <<queue, pc, claims, control, log>>

ReceiveSignal ==
  /\ ProgramSignals /\ tgt # "gone" /\ "USR" \notin queue
  /\ queue' = queue \cup {"USR"}
  /\ UNCHANGED <<tgt, report, pc, claims, control, log>>

DequeueSignal ==
  /\ \E s \in Signals : First(s) /\ Stop(Sig(s)) /\ queue' = queue \ {s}
  /\ UNCHANGED <<pc, claims, control, log>>

ExitProcess ==
  /\ tgt = "running" /\ tgt' = "gone" /\ report' = Exit /\ queue' = {}
  /\ UNCHANGED <<pc, claims, control, log>>

Target == (\E a \in Addr : HitBreakpoint(a)) \/ ReceiveSignal \/ DequeueSignal \/ ExitProcess

-----------------------------------------------------------------------------
(* ptrace and kill, as the worker calls them *)

\* PTRACE_CONT without a signal; a stop not reaped yet is lost.
Cont == /\ tgt = "stopped" /\ tgt' = "running"
        /\ report' = NoReport /\ pc' = Elsewhere

\* PTRACE_CONT with a signal: the program's handler runs, or it dies.
ContWith(s) ==
  /\ pc' = Elsewhere
  /\ \/ tgt' = "running" /\ report' = NoReport /\ UNCHANGED queue
     \/ tgt' = "gone" /\ report' = Exit /\ queue' = {}

\* send_signal_best_effort
Kill(s) == queue' = IF tgt = "gone" THEN queue ELSE queue \cup {s}

Reaped == report' = NoReport /\ pc' \in Addr \cup {Elsewhere}

\* Mutant: every step-over at the address leaves.
RemoveEveryOver(a) ==
  /\ overs' = [overs EXCEPT ![a] = 0]
  /\ stale' = IF overs[a] = 0 \/ a \in Entries \cup users \cup rets \/ tgt = "stopped"
              THEN stale ELSE stale \cup {a}

\* Vec::remove of one step-over owner; memory of a process that is not in a
\* ptrace-stop cannot be written, so its INT3 stays.
RemoveOver(a) ==
  IF overs[a] = 0 THEN UNCHANGED <<overs, stale>>
  ELSE /\ overs' = [overs EXCEPT ![a] = @ - 1]
       /\ stale' = IF overs[a] > 1 \/ a \in Entries \cup users \cup rets \/ tgt = "stopped"
                   THEN stale ELSE stale \cup {a}

\* Adding an owner adopts a stale INT3.
AddOver(a) ==
  /\ overs' = [overs EXCEPT ![a] = @ + 1]
  /\ stale' = stale \ {a}

PauseNow == paused' = TRUE /\ pause_requested' = FALSE /\ target_status' = "Paused"

Fail(why) == failure' = why /\ UNCHANGED <<at, mode, pending, source, stop_requested>>

-----------------------------------------------------------------------------
Init ==
  /\ tgt = "running" /\ report = NoReport /\ queue = {} /\ pc = Elsewhere
  /\ users = {} /\ rets = {} /\ overs = [a \in Addr |-> 0] /\ stale = {}
  /\ at = "loop" /\ failure = "none"
  /\ paused = FALSE /\ pause_requested = FALSE
  /\ run_mode = "Continuous" /\ target_status = "Running"
  /\ pending_pause = 0 /\ pending_step = 0 /\ pending_nexti = NoNexti
  /\ source = NoSource /\ stop_requested = FALSE
  /\ sent = 0 /\ open = {} /\ skipped = FALSE

(* handle_live_trace_controls: one command per step, ids in order.  A      *)
(* command answered within the step never enters `open'.                   *)

\* Mutant: the counter is advanced before it is read.
idTwice == sent + 2

id == sent + 1

\* validate_live_command
Allowed(v) ==
  CASE v = "Stop"     -> target_status # "Exited"
    [] v = "Pause"    -> target_status \in {"Running"} \cup Stepping
    [] v = "Continue" -> target_status \in {"Paused", "SteppingToNextAllocatorEvent"}
    [] OTHER          -> target_status = "Paused"

Receive(v) == v \in Verbs /\ Polling /\ sent < MaxCommands /\ sent' = id

\* can_user_step_instruction: no traced call is out.
CanStep == paused /\ target_status = "Paused" /\ rets = {}

StepVerbs == {"StepInstruction", "StepInstructionOver", "SourceStep", "SourceStepOver"}

\* Rejected, or Failed because the process is gone; a source step also where
\* the executable has no line information.
Refuse(v) ==
  /\ Receive(v)
  /\ \/ ~Allowed(v)
     \/ v \in StepVerbs /\ (~CanStep \/ tgt = "gone" \/ v \in {"SourceStep", "SourceStepOver"})
  /\ UNCHANGED <<target, claims, control, open, skipped>>

\* Mutant: the status is left to the next update.
GoSilently(status) == paused' = FALSE /\ pause_requested' = FALSE /\ UNCHANGED target_status

Go(status) == paused' = FALSE /\ pause_requested' = FALSE /\ target_status' = status

CancelNexti ==
  /\ pending_nexti' = NoNexti
  /\ IF pending_nexti = NoNexti THEN UNCHANGED <<overs, stale>>
     ELSE RemoveOver(pending_nexti.addr)

StopTarget ==
  /\ Receive("Stop") /\ Allowed("Stop")
  /\ run_mode' = "Continuous" /\ pending_pause' = 0 /\ pending_step' = 0
  /\ CancelNexti
  /\ stop_requested' = TRUE
  /\ IF stop_requested THEN open' = open \cup {id} /\ UNCHANGED queue
     ELSE UNCHANGED open /\ Kill("TERM")
  /\ paused' = FALSE
  /\ pause_requested' = (pause_requested /\ ~paused)
  /\ target_status' = IF stop_requested THEN target_status ELSE "Stopping"
  /\ IF paused /\ tgt = "stopped" THEN Cont ELSE UNCHANGED <<tgt, report, pc>>
  /\ UNCHANGED <<users, rets, at, failure, source, skipped>>

\* Mutant: the request is noted, the signal is not sent.
PauseUnsent ==
  /\ Receive("Pause") /\ Allowed("Pause")
  /\ run_mode' = "Continuous" /\ pause_requested' = TRUE
  /\ pending_pause' = id /\ open' = open \cup {id}
  /\ UNCHANGED <<target, claims, at, failure, paused, target_status,
                 pending_step, pending_nexti, source, stop_requested, skipped>>

PauseTarget ==
  /\ Receive("Pause") /\ Allowed("Pause")
  /\ Kill("STOP")
  /\ run_mode' = "Continuous" /\ pause_requested' = TRUE
  /\ pending_pause' = id /\ open' = open \cup {id}
  /\ UNCHANGED <<tgt, report, pc, claims, at, failure, paused, target_status,
                 pending_step, pending_nexti, source, stop_requested, skipped>>

\* While `paused' is false the command is accepted and forgotten.
Resume ==
  /\ Receive("Resume") /\ Allowed("Resume")
  /\ run_mode' = "Continuous"
  /\ IF paused /\ tgt = "stopped" THEN Cont /\ Go("Running")
     ELSE UNCHANGED <<tgt, report, pc, paused, pause_requested, target_status>>
  /\ UNCHANGED <<queue, claims, at, failure, pending, source, stop_requested, open, skipped>>

\* Mutant: a nexti under way stays pending.
ContinueKeepsNexti ==
  /\ Receive("Continue") /\ Allowed("Continue")
  /\ run_mode' = "Continuous"
  /\ IF ~paused THEN /\ target_status' = "Running"
                     /\ UNCHANGED <<tgt, report, pc, paused, pause_requested>>
     ELSE IF tgt = "stopped" THEN Cont /\ Go("Running")
     ELSE UNCHANGED <<tgt, report, pc, paused, pause_requested, target_status>>
  /\ UNCHANGED <<queue, claims, at, failure, pending, source, stop_requested, open, skipped>>

Continue ==
  /\ Receive("Continue") /\ Allowed("Continue")
  /\ run_mode' = "Continuous"
  /\ CancelNexti
  /\ IF ~paused THEN /\ target_status' = "Running"
                     /\ UNCHANGED <<tgt, report, pc, paused, pause_requested>>
     ELSE IF tgt = "stopped" THEN Cont /\ Go("Running")
     ELSE UNCHANGED <<tgt, report, pc, paused, pause_requested, target_status>>
  /\ UNCHANGED <<queue, users, rets, at, failure, pending_pause, pending_step,
                 source, stop_requested, open, skipped>>

StepAllocatorEvent ==
  /\ Receive("StepAllocatorEvent") /\ Allowed("StepAllocatorEvent")
  /\ IF paused /\ tgt = "stopped"
     THEN /\ Cont /\ Go("SteppingToNextAllocatorEvent")
          /\ run_mode' = "StepAllocatorEvent"
          /\ pending_step' = id /\ open' = open \cup {id}
     ELSE UNCHANGED <<tgt, report, pc, mode, pending_step, open>>
  /\ UNCHANGED <<queue, claims, at, failure, pending_pause, pending_nexti,
                 source, stop_requested, skipped>>

-----------------------------------------------------------------------------
(* Stepping the program itself *)

\* PTRACE_SINGLESTEP and a blocking waitpid, by how it ends.  Nothing lifts a
\* breakpoint first: at an armed address the INT3 is what gets executed.
StepTraps ==
  /\ tgt = "stopped" /\ queue = {}
  /\ pc' \in Addr \cup {Elsewhere} /\ skipped' = (skipped \/ Armed(pc))
  /\ UNCHANGED <<tgt, report, queue>>
StepSignalled ==
  /\ tgt = "stopped" /\ \E s \in Signals : First(s) /\ queue' = queue \ {s}
  /\ UNCHANGED <<tgt, report, pc, skipped>>
StepExits ==
  /\ tgt = "stopped" /\ queue = {} /\ tgt' = "gone" /\ pc' = Elsewhere
  /\ UNCHANGED <<report, queue, skipped>>

\* StepInstruction, and StepInstructionOver where no call is decoded.
StepInstruction ==
  /\ Receive("StepInstruction") \/ Receive("StepInstructionOver")
  /\ CanStep
  /\ \/ /\ StepTraps \/ StepSignalled
        /\ UNCHANGED <<at, mode>>
     \/ /\ StepExits
        /\ at' = "ended" /\ paused' = FALSE /\ target_status' = "Exited"
        /\ UNCHANGED <<pause_requested, run_mode>>
  /\ UNCHANGED <<claims, failure, pending, source, stop_requested, open>>

StepInstructionOverCall(a) ==
  /\ Receive("StepInstructionOver") /\ CanStep
  /\ ~Armed(pc)
  /\ AddOver(a)
  /\ Cont /\ Go("SteppingInstructionOver")
  /\ run_mode' = "UserInstructionStepOver"
  /\ pending_nexti' = Nexti(id, a) /\ open' = open \cup {id}
  /\ UNCHANGED <<queue, users, rets, at, failure, pending_pause, pending_step,
                 source, stop_requested, skipped>>

StartSourceStep(kind) ==
  /\ Receive(IF kind = "Over" THEN "SourceStepOver" ELSE "SourceStep")
  /\ CanStep /\ tgt = "stopped"
  /\ source' = Source("step", id, kind, Elsewhere) /\ open' = open \cup {id}
  /\ target_status' = IF kind = "Over" THEN "SourceSteppingOver" ELSE "SourceStepping"
  /\ run_mode' = IF kind = "Over" THEN "SourceStepOver" ELSE "SourceStepInto"
  /\ UNCHANGED <<target, claims, at, failure, paused, pause_requested, pending,
                 stop_requested, skipped>>

(* Add, enable, disable and delete of a persistent breakpoint.  Memory     *)
(* that cannot be accessed fails the arming, and leaves the INT3 standing. *)
ToggleUserBreakpoint(a) ==
  /\ Receive("Breakpoint") /\ Allowed("Breakpoint")
  /\ IF a \in users
     THEN /\ users' = users \ {a}
          /\ stale' = IF a \in Entries \cup rets \/ overs[a] > 0 \/ tgt = "stopped"
                      THEN stale ELSE stale \cup {a}
     ELSE /\ users' = IF tgt = "stopped" \/ Armed(a) THEN users \cup {a} ELSE users
          /\ stale' = stale \ {a}
  /\ UNCHANGED <<target, rets, overs, control, open, skipped>>

Command ==
  \/ \E v \in Verbs : Refuse(v)
  \/ StopTarget \/ PauseTarget \/ Resume \/ Continue
  \/ StepAllocatorEvent \/ StepInstruction
  \/ \E a \in Addr : StepInstructionOverCall(a) \/ ToggleUserBreakpoint(a)
  \/ \E kind \in {"Into", "Over"} : StartSourceStep(kind)

-----------------------------------------------------------------------------
(* The wait half of the loop: what waitpid reports, and what becomes of it *)

Trapped(a) == Waiting /\ report = Trap(a)

IsNextiHit(a) == pending_nexti.id # 0 /\ pending_nexti.addr = a /\ overs[a] > 0

\* A nexti comes back to its fall-through: the process stays there, in front
\* of whatever other owners have armed.
NextiHit(a) ==
  /\ Trapped(a) /\ IsNextiHit(a)
  /\ RemoveOver(a)
  /\ report' = NoReport /\ pc' = a
  /\ open' = open \ {pending_nexti.id} /\ pending_nexti' = NoNexti
  /\ PauseNow /\ run_mode' = "Continuous"
  /\ UNCHANGED <<tgt, queue, users, rets, at, failure, pending_pause, pending_step,
                 source, stop_requested, sent, skipped>>

HasAllocatorOwner(a) == a \in Entries \cup rets

\* What serving a hit does to the allocator's claims: an entry plants the
\* return breakpoint (unless the return address cannot be read), a return
\* breakpoint is used up.  The entry owner, set at launch, is the first.
ServeClaims(a) ==
  IF a \in Entries
  THEN \/ UNCHANGED <<rets, stale>>
       \/ \E r \in Addr \ (rets \cup {a}) : rets' = rets \cup {r} /\ stale' = stale \ {r}
  ELSE rets' = rets \ {a} /\ UNCHANGED stale

EmitsEvent(a) == a \notin Entries /\ a \in rets

\* The single-step of a served hit must report SIGTRAP; a signal that is
\* queued, or the end of the process, is reported first and ends the trace.
StepLost(a) ==
  /\ a \in users \/ HasAllocatorOwner(a)
  /\ \/ \E s \in Signals : First(s) /\ Fail(s)
     \/ queue = {} /\ Fail("exit")

UserHit(a) ==
  /\ Trapped(a) /\ ~IsNextiHit(a)
  /\ a \in users /\ queue = {}
  /\ ServeClaims(a)
  /\ Reaped
  /\ PauseNow /\ run_mode' = "Continuous" /\ pending_step' = 0
  /\ UNCHANGED <<tgt, queue, users, overs, at, failure, pending_pause, pending_nexti,
                 source, stop_requested, log>>

ShouldPauseAfter(event_control) ==
  event_control = "Pause" \/ run_mode \notin {"Continuous", "UserInstructionStepOver"}

\* should_pause_after_allocator_event and the pause it asks for; a break
\* condition takes over from the step that was waiting for an event.
PauseAfterEvent(event_control) ==
  /\ PauseNow /\ run_mode' = "Continuous" /\ pending_step' = 0
  /\ IF event_control = "Pause"
     THEN /\ CancelNexti
          /\ open' = open \ {pending_nexti.id}
     ELSE UNCHANGED <<pending_nexti, overs>> /\ open' = open \ {pending_step}

\* The process stays stopped while the controls are polled again.
ManagedHit(a) ==
  /\ Trapped(a) /\ ~IsNextiHit(a)
  /\ a \notin users /\ HasAllocatorOwner(a) /\ queue = {}
  /\ ServeClaims(a)
  /\ Reaped
  /\ at' = "afterHit"
  /\ \E event_control \in {"Pause", "Continue"} :
       IF EmitsEvent(a) /\ ShouldPauseAfter(event_control)
       THEN PauseAfterEvent(event_control)
       ELSE UNCHANGED <<mode, pending_step, pending_nexti, overs, open>>
  /\ UNCHANGED <<tgt, queue, users, failure, pending_pause, source, stop_requested,
                 sent, skipped>>

\* Mutant: only a process that was let go before the controls is continued.
AfterHitWithoutCont ==
  /\ Polling /\ at = "afterHit" /\ at' = "loop"
  /\ UNCHANGED <<target, claims, failure, mode, pending, source, stop_requested, log>>

\* The process is continued if nothing paused it - also when a command just
\* polled has done so already.
AfterHit ==
  /\ Polling /\ at = "afterHit"
  /\ \/ /\ paused
        /\ at' = "loop"
        /\ UNCHANGED <<target, skipped, failure>>
     \/ /\ ~paused /\ Cont
        /\ at' = "loop"
        /\ skipped' = (skipped \/ report.why = "trap")
        /\ UNCHANGED <<queue, failure>>
     \/ /\ ~paused /\ tgt # "stopped"
        /\ failure' = "cont"
        /\ UNCHANGED <<target, skipped, at>>
  /\ UNCHANGED <<claims, mode, pending, source, stop_requested, sent, open>>

FailedHit(a) ==
  /\ Trapped(a) /\ ~IsNextiHit(a)
  /\ \/ StepLost(a)
     \/ a \notin users /\ ~HasAllocatorOwner(a) /\ Armed(a) /\ Fail("owner")
     \/ ~Armed(a) /\ Fail("unmanaged")
  /\ UNCHANGED <<target, claims, log>>

\* Mutant: the pause command is answered but not forgotten.
PauseStopCopies ==
  /\ Waiting /\ report = Sig("STOP")
  /\ Reaped
  /\ PauseNow
  /\ open' = open \ {pending_pause}
  /\ UNCHANGED <<tgt, queue, claims, at, failure, run_mode, pending,
                 source, stop_requested, sent, skipped>>

\* SIGSTOP pauses, whether or not a pause was asked for.
PauseStop ==
  /\ Waiting /\ report = Sig("STOP")
  /\ Reaped
  /\ PauseNow
  /\ pending_pause' = 0 /\ open' = open \ {pending_pause}
  /\ UNCHANGED <<tgt, queue, claims, at, failure, run_mode, pending_step, pending_nexti,
                 source, stop_requested, sent, skipped>>

\* Any other signal aborts a nexti - and is not delivered - or goes on to the
\* program.
SignalStop ==
  /\ Waiting /\ report \in {Sig(s) : s \in Signals \ {"STOP"}}
  /\ IF pending_nexti # NoNexti
     THEN /\ CancelNexti /\ open' = open \ {pending_nexti.id}
          /\ Reaped /\ UNCHANGED <<tgt, queue>>
          /\ paused' = TRUE /\ target_status' = "Paused"
     ELSE /\ ContWith(report.sig)
          /\ UNCHANGED <<pending_nexti, overs, stale, open, paused, target_status>>
  /\ UNCHANGED <<users, rets, at, failure, pause_requested, run_mode, pending_pause,
                 pending_step, source, stop_requested, sent, skipped>>

\* Mutant: the request lapses, the process lives.
GraceLapses ==
  /\ Waiting /\ tgt = "running" /\ stop_requested
  /\ target_status' = "Stopping" /\ stop_requested' = FALSE
  /\ UNCHANGED <<target, claims, at, failure, paused, pause_requested, run_mode, pending,
                 source, log>>

\* Two seconds after a stop was requested the process still runs: SIGKILL.
GraceElapsed ==
  /\ Waiting /\ tgt = "running" /\ stop_requested
  /\ tgt' = "gone" /\ report' = Exit /\ queue' = {}
  /\ target_status' = "Stopping" /\ stop_requested' = FALSE
  /\ UNCHANGED <<pc, claims, at, failure, paused, pause_requested, run_mode, pending,
                 source, log>>

ReapExit ==
  /\ Waiting /\ report = Exit
  /\ report' = NoReport
  /\ at' = "ended" /\ target_status' = "Exited"
  /\ UNCHANGED <<tgt, queue, pc, claims, failure, paused, pause_requested, run_mode,
                 pending, source, stop_requested, log>>

\* waitpid for a child that was reaped before.
NoChild ==
  /\ Waiting /\ tgt = "gone" /\ report = NoReport
  /\ Fail("child")
  /\ UNCHANGED <<target, claims, log>>

Reap ==
  \/ \E a \in Addr : NextiHit(a) \/ UserHit(a) \/ ManagedHit(a) \/ FailedHit(a)
  \/ PauseStop \/ SignalStop \/ ReapExit \/ NoChild

-----------------------------------------------------------------------------
(* run_source_step_to_completion: the worker steps, or waits for a call to *)
(* return, until the line changes; no command is polled meanwhile.         *)

InSource(phase) == Busy /\ source.phase = phase

SourceReturn(result) ==
  /\ source' = NoSource /\ open' = open \ {source.id}
  /\ paused' = TRUE /\ pause_requested' = FALSE
  /\ target_status' = result /\ run_mode' = "Continuous"
  /\ UNCHANGED <<at, failure, pending, stop_requested, sent>>

SourceGoesOn ==
  UNCHANGED <<at, failure, mode, pending, stop_requested, sent, open>>

\* The exit of a single-stepped process comes back as a pause.
SourceInstruction ==
  /\ InSource("step")
  /\ \/ StepTraps /\ SourceGoesOn /\ UNCHANGED source
     \/ StepTraps /\ SourceReturn("Paused")
     \/ (StepSignalled \/ StepExits) /\ SourceReturn("Paused")
  /\ UNCHANGED claims

SourceCall(a) ==
  /\ InSource("step") /\ source.kind = "Over" /\ ~Armed(pc)
  /\ AddOver(a)
  /\ Cont
  /\ source' = [source EXCEPT !.phase = "call", !.addr = a]
  /\ SourceGoesOn
  /\ UNCHANGED <<queue, users, rets, skipped>>

SourceCallReturns ==
  LET a == source.addr IN
  /\ InSource("call") /\ report = Trap(a)
  /\ RemoveOver(a)
  /\ report' = NoReport /\ pc' = a
  /\ \/ SourceGoesOn /\ source' = [source EXCEPT !.phase = "step", !.addr = Elsewhere]
     \/ SourceReturn("Paused")
  /\ UNCHANGED <<tgt, queue, users, rets, skipped>>

\* Another breakpoint on the way: a user breakpoint or a break condition
\* interrupts the step, everything else is served and passed.
SourceCallHit(a) ==
  /\ InSource("call") /\ report = Trap(a) /\ a # source.addr
  /\ a \in users \/ HasAllocatorOwner(a)
  /\ queue = {}
  /\ ServeClaims(a)
  /\ \/ /\ a \in users \/ EmitsEvent(a)
        /\ SourceReturn("Paused")
        /\ overs' = [overs EXCEPT ![source.addr] = @ - 1]
        /\ Reaped /\ UNCHANGED tgt
     \/ /\ a \notin users
        /\ SourceGoesOn /\ UNCHANGED <<source, overs>>
        /\ Cont
  /\ UNCHANGED <<queue, users, skipped>>

SourceCallSignalled ==
  /\ InSource("call") /\ report.why = "signal"
  /\ RemoveOver(source.addr)
  /\ SourceReturn("Paused") /\ Reaped
  /\ UNCHANGED <<tgt, queue, users, rets, skipped>>

SourceCallExits ==
  /\ InSource("call") /\ report = Exit
  /\ SourceReturn("Exited") /\ report' = NoReport
  /\ UNCHANGED <<tgt, queue, pc, claims, skipped>>

SourceFails(a) ==
  /\ InSource("call") /\ report = Trap(a) /\ a # source.addr
  /\ \/ StepLost(a)
     \/ a \notin users /\ ~HasAllocatorOwner(a) /\ Armed(a) /\ Fail("owner")
  /\ UNCHANGED <<target, claims, log>>

SourceStepping ==
  \/ SourceInstruction \/ SourceCallReturns \/ SourceCallSignalled \/ SourceCallExits
  \/ \E a \in Addr : SourceCall(a) \/ SourceCallHit(a) \/ SourceFails(a)

-----------------------------------------------------------------------------
Worker == Reap \/ AfterHit \/ SourceStepping

Next == Target \/ Command \/ Worker \/ GraceElapsed

Spec == Init /\ [][Next]_vars

\* The worker's thread and the kernel are scheduled; a process that keeps
\* trapping is at times found running when the grace period is over.
Fairness == WF_vars(Worker) /\ WF_vars(DequeueSignal) /\ SF_vars(GraceElapsed)

FairSpec == Spec /\ Fairness

\* A session in which nobody lets the process go between the hit that paused it
\* and the end of that iteration: there it is continued twice (see
\* ContinueKeepsTrace), and the second one may swallow any later stop.
ReleasedTwice == at = "afterHit" /\ paused /\ ~paused'
QuietSpec     == Init /\ [][Next /\ ~ReleasedTwice]_vars /\ Fairness

-----------------------------------------------------------------------------
(* Properties *)

NextiPending == [id : 0 .. MaxCommands, addr : Addr \cup {Elsewhere}]
SourceSteps  == [phase : {"none", "step", "call"}, id : 0 .. MaxCommands,
                 kind : {"none", "Into", "Over"}, addr : Addr \cup {Elsewhere}]

\* The process, the claims, the loop's variables and the commands have their
\* types (lib.rs:1469-1477).
TypeOK ==
  /\ tgt \in {"running", "stopped", "gone"}
  /\ report \in {NoReport, Exit} \cup {Trap(a) : a \in Addr} \cup {Sig(s) : s \in Signals}
  /\ queue \subseteq Signals /\ pc \in Addr \cup {Elsewhere}
  /\ users \subseteq Addr /\ rets \subseteq Addr /\ stale \subseteq Addr
  /\ overs \in [Addr -> Nat]
  /\ at \in {"loop", "afterHit", "ended"}
  /\ failure \in {"none", "exit", "owner", "unmanaged", "cont", "child"} \cup Signals
  /\ paused \in BOOLEAN /\ pause_requested \in BOOLEAN /\ stop_requested \in BOOLEAN
  /\ run_mode \in {"Continuous", "StepAllocatorEvent", "UserInstructionStepOver",
                   "SourceStepInto", "SourceStepOver"}
  /\ target_status \in Statuses
  /\ pending_pause \in 0 .. MaxCommands /\ pending_step \in 0 .. MaxCommands
  /\ pending_nexti \in NextiPending /\ source \in SourceSteps
  /\ sent \in 0 .. MaxCommands /\ open \subseteq 1 .. MaxCommands /\ skipped \in BOOLEAN

\* Whoever stopped the process, the loop knows: with the controls polled, a
\* process whose stop was reaped is paused - it is never left standing while
\* the worker waits for it - and a paused one stands still or is gone.
HeldIffPaused ==
  Polling =>
    /\ at = "loop" /\ tgt = "stopped" /\ report = NoReport => paused
    /\ paused => tgt = "gone" \/ (tgt = "stopped" /\ report = NoReport)

\* Until a stop is requested, the status the worker reports with each answer
\* says "paused" exactly while it holds the process.
StatusHonest ==
  Polling /\ tgt # "gone" /\ ~stop_requested => (target_status = "Paused" <=> paused)

\* A nexti in flight has its breakpoint: no other step, pause or break
\* condition takes the one it waits for.
NextiTrapped == pending_nexti.id # 0 => overs[pending_nexti.addr] > 0

\* A command the worker still means to answer has not been answered yet: none
\* is told twice that it completed or failed.
PendingOpen ==
  {pending_pause, pending_step, pending_nexti.id, source.id} \ {0} \subseteq open

\* What the three rest on: a stop is reported by a process that stopped, ...
ReportFits ==
  /\ tgt = "running" => report = NoReport
  /\ report = Exit => tgt = "gone"
  /\ tgt = "gone" => report \in {NoReport, Exit}

\* ... the process stands still under the worker's hand, but for the call that a
\* source step waits for, ...
PausedHeld ==
  paused /\ source.phase # "call" => tgt = "gone" \/ (tgt = "stopped" /\ report = NoReport)

\* ... a source step is under way from a pause to a pause, with the breakpoint
\* behind the call it waits for its own, ...
SourceOpen ==
  source = NoSource \/
  /\ source.phase \in {"step", "call"} /\ source.id # 0 /\ paused
  /\ source.phase = "call" => source.addr \in Addr /\ overs[source.addr] > 0

\* ... as is the one of a nexti, although both may be at one address, ...
NextiOpen ==
  pending_nexti = NoNexti \/
  /\ pending_nexti.id # 0 /\ pending_nexti.addr \in Addr
  /\ overs[pending_nexti.addr] > 0
  /\ source.phase = "call" /\ source.addr = pending_nexti.addr => overs[source.addr] > 1

\* ... and no id is pending twice.
IdsDiffer ==
  /\ pending_pause <= sent /\ pending_step <= sent
  /\ pending_nexti.id <= sent /\ source.id <= sent
  /\ pending_pause # 0 => pending_pause \notin {pending_step, pending_nexti.id, source.id}
  /\ pending_step # 0 => pending_step \notin {pending_nexti.id, source.id}
  /\ pending_nexti.id # 0 => pending_nexti.id # source.id

TInv == TypeOK /\ SourceOpen /\ NextiOpen
HInv == ReportFits /\ PausedHeld /\ HeldIffPaused /\ StatusHonest
AInv == IdsDiffer /\ PendingOpen

\* A pause that was requested happens, or the trace ends first.
PauseComes == pause_requested ~> paused \/ ~Busy

\* A stop request ends the trace, or something pauses it meanwhile.
StopProgresses == stop_requested ~> ~Busy \/ paused

\* What the interface is promised (LiveWorker).
Pending ==
  (IF pending_pause = 0 THEN {} ELSE {"Pause"})
  \cup (IF pending_step = 0 THEN {} ELSE {"StepAllocatorEvent"})
  \cup (IF pending_nexti = NoNexti THEN {} ELSE {"StepInstructionOver"})

Promised ==
  [status   |-> target_status,
   held     |-> paused,
   pending  |-> Pending,
   stopping |-> stop_requested,
   stepping |-> CASE source = NoSource     -> "none"
                  [] source.kind = "Over"  -> "SourceStepOver"
                  [] OTHER                 -> "SourceStep",
   lost     |-> Busy /\ tgt = "gone" /\ report = NoReport,
   over     |-> ~Busy]

W == INSTANCE LiveWorker WITH worker <- Promised, None <- "none"

\* Whatever the kernel, the signals and the breakpoints do, the loop never answers
\* with a status, a pause or an end the interface is not told to expect
\* (lib.rs:1478-1810, 1831-2806, 2815-3150).
KeepsPromise == W!Spec

(* What the documentation says of the session, which the code does not keep *)

\* README.md:110 `p': pause.  A pause that overtakes a breakpoint hit does not
\* end the trace: no step over a breakpoint is answered by the SIGSTOP.
PauseKeepsTrace == failure # "STOP"

\* README.md:117 `c': continue normally.  No continue finds the process
\* running already.
ContinueKeepsTrace == failure # "cont"

\* docs/architecture.md:77 nexti plants a temporary breakpoint: one a nexti
\* planted is never hit when no nexti is in flight.
NextiKeepsTrace == failure # "owner"

\* README.md:108 `q' or `Esc': stop the running target.
StopEnds == stop_requested ~> ~Busy

\* README.md:108 ... or quit after it exits: the worker notices the end of the
\* process and finishes.
ExitEnds == tgt = "gone" ~> ~Busy

\* README.md:129 stepping executes one machine instruction of the program,
\* never the breakpoint that stands on it.
NothingSkipped == ~skipped
=============================================================================
