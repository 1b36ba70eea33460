------------------------ MODULE MCBreakpointManager ------------------------
(* A small instance of BreakpointManager for TLC.  The program itself has an *)
(* INT3 at one address, as hand-written traps and padding do.                *)
EXTENDS BreakpointManager, TLC

CONSTANTS a1, a2, plain

MCText == a1 :> INT3 @@ [a \in Addr \ {a1} |-> plain]

MCMallocReturnOf == "MallocEntry" :> "MallocReturn"

MCReturnOf == "MallocEntry" :> "MallocReturn" @@ "ReallocEntry" :> "ReallocReturn"
=============================================================================
