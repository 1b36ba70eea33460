----------------------------- MODULE LiveWorker -----------------------------
(***************************************************************************)
(* What the trace worker promises the terminal interface: the status it    *)
(* answers with, and when it may say what.  The threads, signals and       *)
(* breakpoints behind it are TraceWorker's, which implements this.         *)
(*                                                                         *)
(* A worker is a record                                                    *)
(*   status    target_status                                               *)
(*   held      the process stands still, and the loop knows (paused)       *)
(*   pending   the commands it still has to answer (pending_*_command_id)  *)
(*   stopping  a stop was requested, and the grace period runs             *)
(*   stepping  the source step it is busy with, or None                    *)
(*   lost      the process is gone, and the loop does not know             *)
(*   over      the trace has ended                                         *)
(***************************************************************************)
EXTENDS LiveCommands, Sequences

VARIABLE worker

Launched ==
  [status |-> "Running", held |-> FALSE, pending |-> {}, stopping |-> FALSE,
   stepping |-> None, lost |-> FALSE, over |-> FALSE]

\* A step of the worker: what becomes of it, the updates it sends, and why it
\* paused, None if it did not.
Out(w, said, cause) == [worker |-> w, said |-> said, cause |-> cause]

Answered(w, verb, answer) == Out(w, <<Say(verb, answer, w.status, "other")>>, None)

Holding(w, gone) ==
  [w EXCEPT !.status = "Paused", !.held = TRUE, !.pending = @ \ gone]
Going(w, status) == [w EXCEPT !.status = status, !.held = FALSE]

-----------------------------------------------------------------------------
(* handle_live_trace_controls: the answers to a command                    *)

Rejected(w, verb) == {Answered(w, verb, "Rejected")}

\* The process is not there to be continued: paused it remains.
GoneFails(w, verb) == Say(verb, "Failed", "Paused", "other")

\* Only the first stop changes the status; both let a held process go.
StopAnswer(w) ==
  LET free  == [w EXCEPT !.held = FALSE, !.pending = {}, !.stopping = TRUE]
      heard == Say("Stop", "Accepted", w.status, "other")
  IN  IF w.stopping THEN {Out(free, <<heard>>, None)}
      ELSE {Out([free EXCEPT !.status = "Stopping"],
                <<heard, Say("Stop", "Completed", "Stopping", "other")>>, None)}

PauseAnswer(w) == {Answered([w EXCEPT !.pending = @ \cup {"Pause"}], "Pause", "Accepted")}

LetGo(w, verb) ==
  LET heard == Say(verb, "Accepted", w.status, "other")
  IN  IF w.lost THEN {Out([w EXCEPT !.status = "Paused"], <<heard, GoneFails(w, verb)>>, None)}
      ELSE {Out(Going(w, "Running"),
                <<heard, Say(verb, "Completed", "Running", "other")>>, None)}

\* A process that is not held is not resumed, and nobody is told.
ResumeAnswer(w) == IF w.held THEN LetGo(w, "Resume") ELSE {Out(w, <<>>, None)}

ContinueAnswer(w) ==
  LET calm == [w EXCEPT !.pending = @ \ {"StepInstructionOver"}]
  IN  IF w.held THEN LetGo(calm, "Continue")
      ELSE {Out([calm EXCEPT !.status = "Running"],
                <<Say("Continue", "Accepted", w.status, "other"),
                  Say("Continue", "Completed", "Running", "other")>>, None)}

Started(w, verb) ==
  Answered([Going(w, StatusOf(verb)) EXCEPT !.pending = @ \cup {verb}], verb, "Accepted")

StepEventAnswer(w) ==
  IF ~w.held THEN {Out(w, <<>>, None)}
  ELSE IF w.lost THEN {Out(w, <<GoneFails(w, "StepAllocatorEvent")>>, None)}
  ELSE {Started(w, "StepAllocatorEvent")}

Ended(w) == [w EXCEPT !.status = "Exited", !.held = FALSE, !.over = TRUE, !.lost = FALSE]

\* One instruction: done, interrupted by a signal, or the last one.
OneStep(w, verb) ==
  LET heard == Say(verb, "Accepted", StatusOf(verb), "other") IN
  IF w.lost THEN {Out(w, <<heard, GoneFails(w, verb)>>, None)}
  ELSE {Out(w, <<heard, Say(verb, "Completed", "Paused", "moved")>>, verb),
        Out(w, <<heard, Say(verb, "Failed", "Paused", "signal")>>, "signal"),
        Out(Ended(w), <<heard, Say(verb, "Completed", "Exited", "other"), End>>, None)}

\* A source step also needs line information; any step, that no traced call is out.
StepAnswer(w, verb) ==
  Rejected(w, verb) \cup
  (IF ~w.held THEN {}
   ELSE IF verb \in SourceSteps
     THEN IF w.lost THEN {Out(w, <<GoneFails(w, verb)>>, None)}
          ELSE {Answered([w EXCEPT !.status = StatusOf(verb), !.stepping = verb],
                         verb, "Accepted")}
   ELSE OneStep(w, verb)
        \cup (IF verb = "StepInstructionOver" /\ ~w.lost THEN {Started(w, verb)} ELSE {}))

Answer(w, verb) ==
  IF ~Valid(w.status, verb) THEN Rejected(w, verb)
  ELSE CASE verb = "Stop"               -> StopAnswer(w)
         [] verb = "Pause"              -> PauseAnswer(w)
         [] verb = "Resume"             -> ResumeAnswer(w)
         [] verb = "Continue"           -> ContinueAnswer(w)
         [] verb = "StepAllocatorEvent" -> StepEventAnswer(w)
         [] OTHER                       -> StepAnswer(w, verb)

-----------------------------------------------------------------------------
(* The wait half of the loop.  `event' are the updates an allocator event  *)
(* brings, `match' the one of a break condition it meets, `list' the       *)
(* breakpoints there are; what the hit of a user breakpoint sends first is *)
(* one of Before.                                                          *)

Fails(w) == Out([w EXCEPT !.over = TRUE, !.lost = FALSE], <<>>, None)

Before(event, match) == {<<>>, event, event \o <<match>>}

HitSaid(list)     == <<List(list)>>
HitReported       == <<Say(None, "Completed", "Paused", "hit")>>

\* run_source_step_to_completion.  The exit of the process is reported, and
\* taken for a pause.
SourceOutcomes(w, list, event, match) ==
  LET verb == w.stepping
      back == [Holding(w, {}) EXCEPT !.stepping = None]
      told(answer, status, message) == <<Say(verb, answer, status, message)>>
  IN  {Out(w, event, None),
       Out(back, told("Completed", "Paused", "moved"), verb),
       Out(back, told("Completed", "Paused", "other"), "unexplained"),
       Out(back, told("Failed", "Paused", "signal"), "unexplained"),
       Out(back, event \o <<match>> \o told("Failed", "Paused", "other"), "condition"),
       Out([back EXCEPT !.lost = TRUE], told("Completed", "Exited", "other"), "unexplained"),
       Out([back EXCEPT !.lost = TRUE, !.status = "Exited"],
           told("Completed", "Exited", "other"), "unexplained"),
       Fails(w)}
      \cup {Out(back, b \o HitSaid(list) \o told("Failed", "Paused", "other") \o HitReported,
                "breakpoint") : b \in Before(event, match)}

EventOutcomes(w, event, match) ==
  {Out(w, event, None),
   Out(Holding(w, {"StepAllocatorEvent", "StepInstructionOver"}),
       event \o <<match>> \o
         (IF "StepInstructionOver" \in w.pending
          THEN <<Say("StepInstructionOver", "Failed", "Paused", "other")>> ELSE <<>>),
       "condition")}
  \cup
  (IF "StepAllocatorEvent" \notin w.pending THEN {}
   ELSE {Out(Holding(w, {"StepAllocatorEvent"}),
             event \o <<Say("StepAllocatorEvent", "Completed", "Paused", "moved")>>,
             "StepAllocatorEvent")})

HitOutcomes(w, list, event, match) ==
  {Out(Holding(w, {"StepAllocatorEvent"}), b \o HitSaid(list) \o HitReported, "breakpoint") :
     b \in Before(event, match)}

\* SIGSTOP, as a pause asked for it, whatever happened since.
PauseOutcomes(w) ==
  {Out(Holding(w, {"Pause"}), <<Say("Pause", "Completed", "Paused", "other")>>, "Pause")}

NextiOutcomes(w) ==
  IF "StepInstructionOver" \notin w.pending THEN {}
  ELSE {Out(Holding(w, {"StepInstructionOver"}),
            <<Say("StepInstructionOver", "Completed", "Paused", "moved")>>,
            "StepInstructionOver"),
        Out(Holding(w, {"StepInstructionOver"}),
            <<Say("StepInstructionOver", "Failed", "Paused", "signal")>>, "signal")}

GraceOutcomes(w) ==
  IF ~w.stopping THEN {}
  ELSE {Out([w EXCEPT !.status = "Stopping", !.stopping = FALSE],
            <<Say(None, "Completed", "Stopping", "other")>>, None)}

ExitOutcomes(w) == {Out(Ended(w), <<Say(None, "Completed", "Exited", "other"), End>>, None)}

Own(w, list, event, match) ==
  IF w.over \/ (w.held /\ w.stepping = None) THEN {}
  ELSE IF w.stepping # None THEN SourceOutcomes(w, list, event, match)
  ELSE IF w.lost THEN {Fails(w)}
  ELSE EventOutcomes(w, event, match) \cup HitOutcomes(w, list, event, match)
       \cup PauseOutcomes(w) \cup NextiOutcomes(w) \cup GraceOutcomes(w)
       \cup ExitOutcomes(w) \cup {Fails(w)}

Steps(w) ==
  Own(w, <<>>, <<>>, Match(None))
  \cup IF w.over \/ w.stepping # None THEN {} ELSE UNION {Answer(w, v) : v \in Controls}

-----------------------------------------------------------------------------
(* The worker by itself, whoever listens                                   *)

Init == worker = Launched
Next == \E o \in Steps(worker) : worker' = o.worker
Spec == Init /\ [][Next]_worker
=============================================================================
