---------------------------- MODULE MCTraceWorker ----------------------------
(* Small instances of TraceWorker for TLC: one allocator entry, and one other *)
(* address that return, step-over and user breakpoints share.                 *)
EXTENDS TraceWorker

CONSTANTS entry, site

AllVerbs == {"Stop", "Pause", "Resume", "Continue", "Breakpoint",
             "StepAllocatorEvent", "StepInstruction", "StepInstructionOver",
             "SourceStep", "SourceStepOver"}
=============================================================================
