---------------------------- MODULE LiveCommands ----------------------------
(***************************************************************************)
(* What the terminal interface and the trace worker of a live session say  *)
(* to each other (crates/heapify-debugger/src/run_control.rs,              *)
(* crates/heapify-cli/src/trace.rs): commands one way, updates the other.  *)
(* Snapshots, maps, logs and the other records that only get displayed are *)
(* left out.                                                               *)
(***************************************************************************)
CONSTANT None

SourceSteps == {"SourceStep", "SourceStepOver"}
StepVerbs   == {"StepInstruction", "StepInstructionOver"} \cup SourceSteps
Edits       == {"AddUserBreakpoint", "DeleteUserBreakpoint", "EnableUserBreakpoint",
                "DisableUserBreakpoint"}
Inspections == {"InspectCodeAt", "InspectMemory"}
Controls    == {"Stop", "Pause", "Resume", "Continue", "StepAllocatorEvent"} \cup StepVerbs

\* LiveTargetStatus while a command is under way.
StatusOf(verb) ==
  CASE verb = "StepAllocatorEvent"  -> "SteppingToNextAllocatorEvent"
    [] verb = "StepInstruction"     -> "SteppingInstruction"
    [] verb = "StepInstructionOver" -> "SteppingInstructionOver"
    [] verb = "SourceStep"          -> "SourceStepping"
    [] OTHER                        -> "SourceSteppingOver"

Underway == {StatusOf(v) : v \in {"StepAllocatorEvent"} \cup StepVerbs}
Statuses == {"Running", "Paused", "Stopping", "Exited"} \cup Underway

\* validate_live_command: asked by the interface before it sends a command, and
\* by the worker when it gets it.
Valid(status, verb) ==
  CASE verb = "Stop"     -> status # "Exited"
    [] verb = "Pause"    -> status \in {"Running"} \cup Underway
    [] verb = "Continue" -> status \in {"Paused", "SteppingToNextAllocatorEvent"}
    [] OTHER             -> status = "Paused"

\* A command; `id' is the breakpoint or the address it is about, 0 where none is.
Command(verb, id) == [verb |-> verb, id |-> id]

-----------------------------------------------------------------------------
(* Updates.  Of the message of a status only what the interface reads out  *)
(* of it is kept: "hit" (a user breakpoint), "signal", "moved" (from where *)
(* to where a step went) or "other".                                       *)

Say(verb, answer, status, message) ==
  [kind |-> "CommandStatus", verb |-> verb, answer |-> answer, status |-> status,
   message |-> message]

Event      == [kind |-> "Event"]
Layout(l)  == [kind |-> "HeapLayout", layout |-> l]
Match(u)   == [kind |-> "BreakMatched", user |-> u]
List(l)    == [kind |-> "UserBreakpoints", list |-> l]
Shown(at, w) == [kind |-> "MemoryInspection", at |-> at, words |-> w]
CodeAt(id) == [kind |-> "CodeInspection", id |-> id]
End        == [kind |-> "SessionEnd"]
=============================================================================
