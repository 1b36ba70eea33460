-------------------------- MODULE TraceWorker_proofs --------------------------
(* Theorems about the trace worker (run_control.rs and the live loop of      *)
(* lib.rs), for any addresses, entries and number of commands.               *)
(* Four inductive invariants, each resting on the ones before: TInv, what is *)
(* of which type and which breakpoint a step in flight owns; HInv, who holds *)
(* the process; AInv, which commands are still to be answered; PInv, what a  *)
(* held process shows.                                                       *)
EXTENDS TraceWorker, TLAPS, Sequences

USE DEF target, claims, mode, pending, control, log

-----------------------------------------------------------------------------
(* The claims *)

\* One step-over leaves, and nobody else.
LEMMA RemoveOverType ==
  ASSUME TypeOK, NEW a \in Addr, RemoveOver(a)
  PROVE  /\ overs' \in [Addr -> Nat] /\ stale' \subseteq Addr
         /\ \A b \in Addr : b # a => overs'[b] = overs[b]
         /\ overs'[a] = IF overs[a] = 0 THEN 0 ELSE overs[a] - 1
BY DEF TypeOK, RemoveOver

\* One step-over joins.
LEMMA AddOverType ==
  ASSUME TypeOK, NEW a \in Addr, AddOver(a)
  PROVE  /\ overs' \in [Addr -> Nat] /\ stale' \subseteq Addr
         /\ \A b \in Addr : overs'[b] >= overs[b]
         /\ overs'[a] = overs[a] + 1
BY DEF TypeOK, AddOver

\* A nexti that is given up takes its breakpoint along.
LEMMA CancelNextiType ==
  ASSUME TypeOK, NextiOpen, CancelNexti
  PROVE  /\ overs' \in [Addr -> Nat] /\ stale' \subseteq Addr
         /\ pending_nexti' = NoNexti
         /\ \A b \in Addr : b # pending_nexti.addr => overs'[b] = overs[b]
BY RemoveOverType DEF TypeOK, NextiOpen, CancelNexti

\* Serving a hit leaves return owners at addresses.
LEMMA ServeClaimsType ==
  ASSUME TypeOK, NEW a \in Addr, ServeClaims(a)
  PROVE  rets' \subseteq Addr /\ stale' \subseteq Addr
BY DEF TypeOK, ServeClaims

\* The wait statuses are told apart.
LEMMA Reports ==
  /\ NoReport.why = "none" /\ Exit.why = "exit" /\ NoReport # Exit
  /\ \A a \in Addr : Trap(a).why = "trap" /\ Trap(a) # Exit /\ Trap(a) # NoReport
  /\ \A s \in Signals : Sig(s).why = "signal" /\ Sig(s) # Exit /\ Sig(s) # NoReport
  /\ \A a \in Addr : \A s \in Signals : Trap(a) # Sig(s)
BY DEF NoReport, Exit, Trap, Sig

-----------------------------------------------------------------------------
(* Types *)

\* TypeOK in six groups: most actions leave most of them alone.
TargetOK ==
  /\ tgt \in {"running", "stopped", "gone"}
  /\ report \in {NoReport, Exit} \cup {Trap(a) : a \in Addr} \cup {Sig(s) : s \in Signals}
  /\ queue \subseteq Signals /\ pc \in Addr \cup {Elsewhere}
ClaimsOK ==
  users \subseteq Addr /\ rets \subseteq Addr /\ stale \subseteq Addr /\ overs \in [Addr -> Nat]
LoopOK ==
  /\ at \in {"loop", "afterHit", "ended"}
  /\ failure \in {"none", "exit", "owner", "unmanaged", "cont", "child"} \cup Signals
  /\ run_mode \in {"Continuous", "StepAllocatorEvent", "UserInstructionStepOver",
                   "SourceStepInto", "SourceStepOver"}
  /\ target_status \in Statuses
FlagsOK ==
  /\ paused \in BOOLEAN /\ pause_requested \in BOOLEAN /\ stop_requested \in BOOLEAN
  /\ skipped \in BOOLEAN
WaitsOK ==
  /\ pending_pause \in 0 .. MaxCommands /\ pending_step \in 0 .. MaxCommands
  /\ pending_nexti \in NextiPending /\ source \in SourceSteps
CommandsOK == sent \in 0 .. MaxCommands /\ open \subseteq 1 .. MaxCommands

\* The groups make up TypeOK, before a step and after it.
LEMMA TypeParts ==
  /\ TypeOK <=> TargetOK /\ ClaimsOK /\ LoopOK /\ FlagsOK /\ WaitsOK /\ CommandsOK
  /\ TypeOK' <=> TargetOK' /\ ClaimsOK' /\ LoopOK' /\ FlagsOK' /\ WaitsOK' /\ CommandsOK'
BY DEF TypeOK, TargetOK, ClaimsOK, LoopOK, FlagsOK, WaitsOK, CommandsOK

\* What the worker waits for, by what it is made of.
LEMMA NothingPending ==
  /\ NoNexti \in NextiPending /\ NoNexti.id = 0
  /\ NoSource \in SourceSteps /\ NoSource.phase = "none" /\ NoSource.id = 0
BY Constants DEF NoNexti, Nexti, NextiPending, NoSource, Source, SourceSteps

\* A nexti in flight, by its number and its breakpoint.
LEMMA NextiValue ==
  ASSUME NEW i \in 0 .. MaxCommands, NEW a \in Addr
  PROVE  Nexti(i, a) \in NextiPending /\ Nexti(i, a).id = i /\ Nexti(i, a).addr = a
BY DEF Nexti, NextiPending

\* A source step that begins has a number and no call to wait for.
LEMMA SourceValue ==
  ASSUME NEW i \in 0 .. MaxCommands, NEW kind \in {"Into", "Over"}
  PROVE  LET s == Source("step", i, kind, Elsewhere)
         IN  s \in SourceSteps /\ s.phase = "step" /\ s.id = i
BY DEF Source, SourceSteps

\* A command read has a number no other has.
LEMMA NewId ==
  ASSUME Constants, CommandsOK, NEW v, Receive(v)
  PROVE  id \in 1 .. MaxCommands /\ id > sent /\ sent' = id
BY DEF CommandsOK, Receive, id

\* While a call runs, its breakpoint is known.
LEMMA CallOpen ==
  ASSUME SourceOpen, InSource("call")
  PROVE  source.addr \in Addr /\ overs[source.addr] > 0 /\ paused /\ source.id # 0
BY NothingPending DEF SourceOpen, InSource

\* A source step keeps its number as it enters a call and comes back.
LEMMA SourceMoves ==
  ASSUME NEW s \in SourceSteps, NEW a \in Addr
  PROVE  LET call == [s EXCEPT !.phase = "call", !.addr = a]
             step == [s EXCEPT !.phase = "step", !.addr = Elsewhere]
         IN  /\ call \in SourceSteps /\ call.phase = "call" /\ call.id = s.id /\ call.addr = a
             /\ step \in SourceSteps /\ step.phase = "step" /\ step.id = s.id
BY DEF SourceSteps

\* Every step keeps the types; it takes the breakpoint of a nexti or of a source
\* step away only from an address that has one.
LEMMA TypeStep ==
  ASSUME Constants, TypeOK, SourceOpen, NextiOpen, [Next]_vars
  PROVE  TypeOK'
<1>0. TargetOK /\ ClaimsOK /\ LoopOK /\ FlagsOK /\ WaitsOK /\ CommandsOK
  BY TypeParts
<1>1. ASSUME NEW a \in Addr, HitBreakpoint(a) PROVE TypeOK'
  <2>1. ClaimsOK' /\ LoopOK' /\ FlagsOK' /\ WaitsOK' /\ CommandsOK'
    BY <1>0, <1>1 DEF HitBreakpoint, ClaimsOK, LoopOK, FlagsOK, WaitsOK, CommandsOK
  <2>2. TargetOK'
    BY <1>0, <1>1 DEF HitBreakpoint, TargetOK, Stop
  <2> QED
    BY <2>1, <2>2, TypeParts
<1>2. ASSUME ReceiveSignal PROVE TypeOK'
  <2>1. ClaimsOK' /\ LoopOK' /\ FlagsOK' /\ WaitsOK' /\ CommandsOK'
    BY <1>0, <1>2 DEF ReceiveSignal, ClaimsOK, LoopOK, FlagsOK, WaitsOK, CommandsOK
  <2>2. TargetOK'
    BY <1>0, <1>2 DEF ReceiveSignal, TargetOK, Signals
  <2> QED
    BY <2>1, <2>2, TypeParts
<1>3. ASSUME DequeueSignal PROVE TypeOK'
  <2>1. ClaimsOK' /\ LoopOK' /\ FlagsOK' /\ WaitsOK' /\ CommandsOK'
    BY <1>0, <1>3 DEF DequeueSignal, ClaimsOK, LoopOK, FlagsOK, WaitsOK, CommandsOK
  <2>2. TargetOK'
    BY <1>0, <1>3 DEF DequeueSignal, TargetOK, Stop, First
  <2> QED
    BY <2>1, <2>2, TypeParts
<1>4. ASSUME ExitProcess PROVE TypeOK'
  <2>1. ClaimsOK' /\ LoopOK' /\ FlagsOK' /\ WaitsOK' /\ CommandsOK'
    BY <1>0, <1>4 DEF ExitProcess, ClaimsOK, LoopOK, FlagsOK, WaitsOK, CommandsOK
  <2>2. TargetOK'
    BY <1>0, <1>4 DEF ExitProcess, TargetOK
  <2> QED
    BY <2>1, <2>2, TypeParts
<1>5. ASSUME NEW v \in Verbs, Refuse(v) PROVE TypeOK'
  <2>1. TargetOK' /\ ClaimsOK' /\ LoopOK' /\ FlagsOK' /\ WaitsOK'
    BY <1>0, <1>5 DEF Refuse, TargetOK, ClaimsOK, LoopOK, FlagsOK, WaitsOK
  <2>2. CommandsOK'
    BY <1>0, <1>5 DEF Refuse, CommandsOK, Receive, id
  <2> QED
    BY <2>1, <2>2, TypeParts
<1>6. ASSUME StopTarget PROVE TypeOK'
  <2>1. TargetOK'
    BY <1>0, <1>6 DEF StopTarget, TargetOK, Kill, Cont, Signals
  <2>2. ClaimsOK'
    BY <1>0, <1>6, CancelNextiType DEF StopTarget, ClaimsOK
  <2>3. LoopOK'
    BY <1>0, <1>6 DEF StopTarget, LoopOK, Statuses
  <2>4. FlagsOK'
    BY <1>0, <1>6 DEF StopTarget, FlagsOK
  <2>5. WaitsOK'
    BY <1>0, <1>6, CancelNextiType, NothingPending DEF StopTarget, WaitsOK
  <2>6. CommandsOK'
    <3>1. id \in 1 .. MaxCommands /\ sent' = id
      BY <1>0, <1>6, NewId DEF StopTarget
    <3>2. open' = open \/ open' = open \cup {id}
      BY <1>6 DEF StopTarget
    <3>3. sent' \in 0 .. MaxCommands
      BY <3>1 DEF Constants
    <3>4. open' \subseteq 1 .. MaxCommands
      BY <1>0, <3>1, <3>2 DEF CommandsOK
    <3> QED
      BY <3>3, <3>4 DEF CommandsOK
  <2> QED
    BY <2>1, <2>2, <2>3, <2>4, <2>5, <2>6, TypeParts
<1>7. ASSUME PauseTarget PROVE TypeOK'
  <2>1. ClaimsOK'
    BY <1>0, <1>7 DEF PauseTarget, ClaimsOK
  <2>2. TargetOK'
    BY <1>0, <1>7 DEF PauseTarget, TargetOK, Kill, Signals
  <2>3. LoopOK'
    BY <1>0, <1>7 DEF PauseTarget, LoopOK
  <2>4. FlagsOK'
    BY <1>0, <1>7 DEF PauseTarget, FlagsOK
  <2>5. WaitsOK'
    BY <1>0, <1>7 DEF PauseTarget, WaitsOK, Receive, id, CommandsOK
  <2>6. CommandsOK'
    BY <1>0, <1>7 DEF PauseTarget, CommandsOK, Receive, id
  <2> QED
    BY <2>1, <2>2, <2>3, <2>4, <2>5, <2>6, TypeParts
<1>8. ASSUME Resume PROVE TypeOK'
  <2>1. ClaimsOK' /\ WaitsOK'
    BY <1>0, <1>8 DEF Resume, ClaimsOK, WaitsOK
  <2>2. TargetOK'
    BY <1>0, <1>8 DEF Resume, TargetOK, Cont
  <2>3. LoopOK'
    BY <1>0, <1>8 DEF Resume, LoopOK, Go, Statuses
  <2>4. FlagsOK'
    BY <1>0, <1>8 DEF Resume, FlagsOK, Go
  <2>5. CommandsOK'
    BY <1>0, <1>8 DEF Resume, CommandsOK, Receive, id
  <2> QED
    BY <2>1, <2>2, <2>3, <2>4, <2>5, TypeParts
<1>9. ASSUME Continue PROVE TypeOK'
  <2>1. TargetOK'
    BY <1>0, <1>9 DEF Continue, TargetOK, Cont
  <2>2. ClaimsOK'
    BY <1>0, <1>9, CancelNextiType DEF Continue, ClaimsOK
  <2>3. LoopOK'
    BY <1>0, <1>9 DEF Continue, LoopOK, Go, Statuses
  <2>4. FlagsOK'
    BY <1>0, <1>9 DEF Continue, FlagsOK, Go
  <2>5. WaitsOK'
    BY <1>0, <1>9, CancelNextiType, NothingPending DEF Continue, WaitsOK
  <2>6. CommandsOK'
    BY <1>0, <1>9 DEF Continue, CommandsOK, Receive, id
  <2> QED
    BY <2>1, <2>2, <2>3, <2>4, <2>5, <2>6, TypeParts
<1>10. ASSUME StepAllocatorEvent PROVE TypeOK'
  <2>1. ClaimsOK'
    BY <1>0, <1>10 DEF StepAllocatorEvent, ClaimsOK
  <2>2. TargetOK'
    BY <1>0, <1>10 DEF StepAllocatorEvent, TargetOK, Cont
  <2>3. LoopOK'
    BY <1>0, <1>10 DEF StepAllocatorEvent, LoopOK, Go, Statuses, Stepping
  <2>4. FlagsOK'
    BY <1>0, <1>10 DEF StepAllocatorEvent, FlagsOK, Go
  <2>5. WaitsOK'
    BY <1>0, <1>10 DEF StepAllocatorEvent, WaitsOK, Receive, id, CommandsOK
  <2>6. CommandsOK'
    <3>1. id \in 1 .. MaxCommands /\ sent' = id
      BY <1>0, <1>10, NewId DEF StepAllocatorEvent
    <3>2. open' = open \/ open' = open \cup {id}
      BY <1>10 DEF StepAllocatorEvent
    <3>3. sent' \in 0 .. MaxCommands
      BY <3>1 DEF Constants
    <3>4. open' \subseteq 1 .. MaxCommands
      BY <1>0, <3>1, <3>2 DEF CommandsOK
    <3> QED
      BY <3>3, <3>4 DEF CommandsOK
  <2> QED
    BY <2>1, <2>2, <2>3, <2>4, <2>5, <2>6, TypeParts
<1>11. ASSUME StepInstruction PROVE TypeOK'
  <2>1. ClaimsOK' /\ WaitsOK'
    BY <1>0, <1>11 DEF StepInstruction, ClaimsOK, WaitsOK
  <2>2. TargetOK'
    BY <1>0, <1>11 DEF StepInstruction, TargetOK, StepTraps, StepSignalled, StepExits, First
  <2>3. LoopOK'
    BY <1>0, <1>11 DEF StepInstruction, LoopOK, Statuses
  <2>4. FlagsOK'
    BY <1>0, <1>11 DEF StepInstruction, FlagsOK, StepTraps, StepSignalled, StepExits
  <2>5. CommandsOK'
    BY <1>0, <1>11 DEF StepInstruction, CommandsOK, Receive, id
  <2> QED
    BY <2>1, <2>2, <2>3, <2>4, <2>5, TypeParts
<1>12. ASSUME NEW a \in Addr, StepInstructionOverCall(a) PROVE TypeOK'
  <2>1. TargetOK'
    BY <1>0, <1>12 DEF StepInstructionOverCall, TargetOK, Cont
  <2>2. ClaimsOK'
    BY <1>0, <1>12, AddOverType DEF StepInstructionOverCall, ClaimsOK
  <2>3. LoopOK'
    BY <1>0, <1>12 DEF StepInstructionOverCall, LoopOK, Go, Statuses, Stepping
  <2>4. FlagsOK'
    BY <1>0, <1>12 DEF StepInstructionOverCall, FlagsOK, Go
  <2>5. WaitsOK'
    BY <1>0, <1>12, NextiValue DEF StepInstructionOverCall, WaitsOK, Receive, id, CommandsOK
  <2>6. CommandsOK'
    BY <1>0, <1>12 DEF StepInstructionOverCall, CommandsOK, Receive, id
  <2> QED
    BY <2>1, <2>2, <2>3, <2>4, <2>5, <2>6, TypeParts
<1>13. ASSUME NEW a \in Addr, ToggleUserBreakpoint(a) PROVE TypeOK'
  <2>1. TargetOK' /\ LoopOK' /\ FlagsOK' /\ WaitsOK'
    BY <1>0, <1>13 DEF ToggleUserBreakpoint, TargetOK, LoopOK, FlagsOK, WaitsOK
  <2>2. ClaimsOK'
    BY <1>0, <1>13 DEF ToggleUserBreakpoint, ClaimsOK
  <2>3. CommandsOK'
    BY <1>0, <1>13 DEF ToggleUserBreakpoint, CommandsOK, Receive, id
  <2> QED
    BY <2>1, <2>2, <2>3, TypeParts
<1>14. ASSUME NEW kind \in {"Into", "Over"}, StartSourceStep(kind) PROVE TypeOK'
  <2>1. TargetOK' /\ ClaimsOK' /\ FlagsOK'
    BY <1>0, <1>14 DEF StartSourceStep, TargetOK, ClaimsOK, FlagsOK
  <2>2. LoopOK'
    BY <1>0, <1>14 DEF StartSourceStep, LoopOK, Statuses, Stepping
  <2>3. WaitsOK'
    BY <1>0, <1>14, SourceValue DEF StartSourceStep, WaitsOK, Receive, id, CommandsOK
  <2>4. CommandsOK'
    BY <1>0, <1>14 DEF StartSourceStep, CommandsOK, Receive, id
  <2> QED
    BY <2>1, <2>2, <2>3, <2>4, TypeParts
<1>15. ASSUME NEW a \in Addr, NextiHit(a) PROVE TypeOK'
  <2>1. TargetOK'
    BY <1>0, <1>15 DEF NextiHit, TargetOK
  <2>2. ClaimsOK'
    BY <1>0, <1>15, RemoveOverType DEF NextiHit, ClaimsOK
  <2>3. LoopOK'
    BY <1>0, <1>15 DEF NextiHit, LoopOK, PauseNow, Statuses
  <2>4. FlagsOK'
    BY <1>0, <1>15 DEF NextiHit, FlagsOK, PauseNow
  <2>5. WaitsOK'
    BY <1>0, <1>15, NothingPending DEF NextiHit, WaitsOK
  <2>6. CommandsOK'
    BY <1>0, <1>15 DEF NextiHit, CommandsOK
  <2> QED
    BY <2>1, <2>2, <2>3, <2>4, <2>5, <2>6, TypeParts
<1>16. ASSUME NEW a \in Addr, UserHit(a) PROVE TypeOK'
  <2>1. CommandsOK'
    BY <1>0, <1>16 DEF UserHit, CommandsOK
  <2>2. TargetOK'
    BY <1>0, <1>16 DEF UserHit, TargetOK, Reaped
  <2>3. ClaimsOK'
    BY <1>0, <1>16, ServeClaimsType DEF UserHit, ClaimsOK
  <2>4. LoopOK'
    BY <1>0, <1>16 DEF UserHit, LoopOK, PauseNow, Statuses
  <2>5. FlagsOK'
    BY <1>0, <1>16 DEF UserHit, FlagsOK, PauseNow
  <2>6. WaitsOK'
    BY <1>0, <1>16 DEF UserHit, WaitsOK
  <2> QED
    BY <2>1, <2>2, <2>3, <2>4, <2>5, <2>6, TypeParts
<1>17. ASSUME NEW a \in Addr, ManagedHit(a) PROVE TypeOK'
  <2>1. TargetOK'
    BY <1>0, <1>17 DEF ManagedHit, TargetOK, Reaped
  <2>2. ClaimsOK'
    BY <1>0, <1>17, ServeClaimsType, CancelNextiType DEF ManagedHit, ClaimsOK, PauseAfterEvent
  <2>3. LoopOK'
    BY <1>0, <1>17 DEF ManagedHit, LoopOK, PauseAfterEvent, PauseNow, Statuses
  <2>4. FlagsOK'
    BY <1>0, <1>17 DEF ManagedHit, FlagsOK, PauseAfterEvent, PauseNow
  <2>5. WaitsOK'
    BY <1>0, <1>17, CancelNextiType, NothingPending DEF ManagedHit, WaitsOK, PauseAfterEvent
  <2>6. CommandsOK'
    BY <1>0, <1>17 DEF ManagedHit, CommandsOK, PauseAfterEvent
  <2> QED
    BY <2>1, <2>2, <2>3, <2>4, <2>5, <2>6, TypeParts
<1>18. ASSUME NEW a \in Addr, FailedHit(a) PROVE TypeOK'
  <2>1. TargetOK' /\ ClaimsOK' /\ CommandsOK'
    BY <1>0, <1>18 DEF FailedHit, TargetOK, ClaimsOK, CommandsOK
  <2>2. LoopOK'
    BY <1>0, <1>18 DEF FailedHit, LoopOK, StepLost, Fail, First
  <2>3. FlagsOK'
    BY <1>0, <1>18 DEF FailedHit, FlagsOK, StepLost, Fail
  <2>4. WaitsOK'
    BY <1>0, <1>18 DEF FailedHit, WaitsOK, StepLost, Fail
  <2> QED
    BY <2>1, <2>2, <2>3, <2>4, TypeParts
<1>19. ASSUME PauseStop PROVE TypeOK'
  <2>1. ClaimsOK'
    BY <1>0, <1>19 DEF PauseStop, ClaimsOK
  <2>2. TargetOK'
    BY <1>0, <1>19 DEF PauseStop, TargetOK, Reaped
  <2>3. LoopOK'
    BY <1>0, <1>19 DEF PauseStop, LoopOK, PauseNow, Statuses
  <2>4. FlagsOK'
    BY <1>0, <1>19 DEF PauseStop, FlagsOK, PauseNow
  <2>5. WaitsOK'
    BY <1>0, <1>19 DEF PauseStop, WaitsOK
  <2>6. CommandsOK'
    BY <1>0, <1>19 DEF PauseStop, CommandsOK
  <2> QED
    BY <2>1, <2>2, <2>3, <2>4, <2>5, <2>6, TypeParts
<1>20. ASSUME SignalStop PROVE TypeOK'
  <2>1. TargetOK'
    BY <1>0, <1>20 DEF SignalStop, TargetOK, Reaped, ContWith
  <2>2. ClaimsOK'
    BY <1>0, <1>20, CancelNextiType DEF SignalStop, ClaimsOK
  <2>3. LoopOK'
    BY <1>0, <1>20 DEF SignalStop, LoopOK, Statuses
  <2>4. FlagsOK'
    BY <1>0, <1>20 DEF SignalStop, FlagsOK
  <2>5. WaitsOK'
    BY <1>0, <1>20, CancelNextiType, NothingPending DEF SignalStop, WaitsOK
  <2>6. CommandsOK'
    BY <1>0, <1>20 DEF SignalStop, CommandsOK
  <2> QED
    BY <2>1, <2>2, <2>3, <2>4, <2>5, <2>6, TypeParts
<1>21. ASSUME ReapExit PROVE TypeOK'
  <2>1. ClaimsOK' /\ FlagsOK' /\ WaitsOK' /\ CommandsOK'
    BY <1>0, <1>21 DEF ReapExit, ClaimsOK, FlagsOK, WaitsOK, CommandsOK
  <2>2. TargetOK'
    BY <1>0, <1>21 DEF ReapExit, TargetOK
  <2>3. LoopOK'
    BY <1>0, <1>21 DEF ReapExit, LoopOK, Statuses
  <2> QED
    BY <2>1, <2>2, <2>3, TypeParts
<1>22. ASSUME NoChild PROVE TypeOK'
  <2>1. TargetOK' /\ ClaimsOK' /\ CommandsOK'
    BY <1>0, <1>22 DEF NoChild, TargetOK, ClaimsOK, CommandsOK
  <2>2. LoopOK'
    BY <1>0, <1>22 DEF NoChild, LoopOK, Fail
  <2>3. FlagsOK'
    BY <1>0, <1>22 DEF NoChild, FlagsOK, Fail
  <2>4. WaitsOK'
    BY <1>0, <1>22 DEF NoChild, WaitsOK, Fail
  <2> QED
    BY <2>1, <2>2, <2>3, <2>4, TypeParts
<1>23. ASSUME AfterHit PROVE TypeOK'
  <2>1. ClaimsOK' /\ WaitsOK' /\ CommandsOK'
    BY <1>0, <1>23 DEF AfterHit, ClaimsOK, WaitsOK, CommandsOK
  <2>2. TargetOK'
    BY <1>0, <1>23 DEF AfterHit, TargetOK, Cont
  <2>3. LoopOK'
    BY <1>0, <1>23 DEF AfterHit, LoopOK
  <2>4. FlagsOK'
    BY <1>0, <1>23 DEF AfterHit, FlagsOK
  <2> QED
    BY <2>1, <2>2, <2>3, <2>4, TypeParts
<1>24. ASSUME SourceInstruction PROVE TypeOK'
  <2>1. ClaimsOK'
    BY <1>0, <1>24 DEF SourceInstruction, ClaimsOK
  <2>2. TargetOK'
    BY <1>0, <1>24 DEF SourceInstruction, TargetOK, StepTraps, StepSignalled, StepExits, First
  <2>3. LoopOK'
    BY <1>0, <1>24 DEF SourceInstruction, LoopOK, SourceReturn, SourceGoesOn, Statuses
  <2>4. FlagsOK'
    BY <1>0, <1>24 DEF SourceInstruction, FlagsOK, StepTraps, StepSignalled, StepExits, SourceReturn, SourceGoesOn
  <2>5. WaitsOK'
    BY <1>0, <1>24, NothingPending DEF SourceInstruction, WaitsOK, SourceReturn, SourceGoesOn
  <2>6. CommandsOK'
    BY <1>0, <1>24 DEF SourceInstruction, CommandsOK, SourceReturn, SourceGoesOn
  <2> QED
    BY <2>1, <2>2, <2>3, <2>4, <2>5, <2>6, TypeParts
<1>25. ASSUME SourceCallReturns PROVE TypeOK'
  <2>1. TargetOK'
    BY <1>0, <1>25, CallOpen DEF SourceCallReturns, TargetOK
  <2>2. ClaimsOK'
    BY <1>0, <1>25, CallOpen, RemoveOverType DEF SourceCallReturns, ClaimsOK
  <2>3. LoopOK'
    BY <1>0, <1>25 DEF SourceCallReturns, LoopOK, SourceReturn, SourceGoesOn, Statuses
  <2>4. FlagsOK'
    BY <1>0, <1>25 DEF SourceCallReturns, FlagsOK, SourceReturn, SourceGoesOn
  <2>5. WaitsOK'
    BY <1>0, <1>25, CallOpen, NothingPending, SourceMoves DEF SourceCallReturns, WaitsOK, SourceReturn, SourceGoesOn
  <2>6. CommandsOK'
    BY <1>0, <1>25 DEF SourceCallReturns, CommandsOK, SourceReturn, SourceGoesOn
  <2> QED
    BY <2>1, <2>2, <2>3, <2>4, <2>5, <2>6, TypeParts
<1>26. ASSUME SourceCallSignalled PROVE TypeOK'
  <2>1. TargetOK'
    BY <1>0, <1>26 DEF SourceCallSignalled, TargetOK, Reaped
  <2>2. ClaimsOK'
    BY <1>0, <1>26, CallOpen, RemoveOverType DEF SourceCallSignalled, ClaimsOK
  <2>3. LoopOK'
    BY <1>0, <1>26 DEF SourceCallSignalled, LoopOK, SourceReturn, Statuses
  <2>4. FlagsOK'
    BY <1>0, <1>26 DEF SourceCallSignalled, FlagsOK, SourceReturn
  <2>5. WaitsOK'
    BY <1>0, <1>26, NothingPending DEF SourceCallSignalled, WaitsOK, SourceReturn
  <2>6. CommandsOK'
    BY <1>0, <1>26 DEF SourceCallSignalled, CommandsOK, SourceReturn
  <2> QED
    BY <2>1, <2>2, <2>3, <2>4, <2>5, <2>6, TypeParts
<1>27. ASSUME SourceCallExits PROVE TypeOK'
  <2>1. ClaimsOK'
    BY <1>0, <1>27 DEF SourceCallExits, ClaimsOK
  <2>2. TargetOK'
    BY <1>0, <1>27 DEF SourceCallExits, TargetOK
  <2>3. LoopOK'
    BY <1>0, <1>27 DEF SourceCallExits, LoopOK, SourceReturn, Statuses
  <2>4. FlagsOK'
    BY <1>0, <1>27 DEF SourceCallExits, FlagsOK, SourceReturn
  <2>5. WaitsOK'
    BY <1>0, <1>27, NothingPending DEF SourceCallExits, WaitsOK, SourceReturn
  <2>6. CommandsOK'
    BY <1>0, <1>27 DEF SourceCallExits, CommandsOK, SourceReturn
  <2> QED
    BY <2>1, <2>2, <2>3, <2>4, <2>5, <2>6, TypeParts
<1>28. ASSUME NEW a \in Addr, SourceCall(a) PROVE TypeOK'
  <2>1. TargetOK'
    BY <1>0, <1>28 DEF SourceCall, TargetOK, Cont
  <2>2. ClaimsOK'
    BY <1>0, <1>28, AddOverType DEF SourceCall, ClaimsOK
  <2>3. LoopOK'
    BY <1>0, <1>28 DEF SourceCall, LoopOK, SourceGoesOn
  <2>4. FlagsOK'
    BY <1>0, <1>28 DEF SourceCall, FlagsOK, SourceGoesOn
  <2>5. WaitsOK'
    BY <1>0, <1>28, SourceMoves DEF SourceCall, WaitsOK, SourceGoesOn
  <2>6. CommandsOK'
    BY <1>0, <1>28 DEF SourceCall, CommandsOK, SourceGoesOn
  <2> QED
    BY <2>1, <2>2, <2>3, <2>4, <2>5, <2>6, TypeParts
<1>29. ASSUME NEW a \in Addr, SourceCallHit(a) PROVE TypeOK'
  <2>1. TargetOK'
    BY <1>0, <1>29 DEF SourceCallHit, TargetOK, Reaped, Cont
  <2>2. ClaimsOK'
    BY <1>0, <1>29, CallOpen, ServeClaimsType DEF SourceCallHit, ClaimsOK
  <2>3. LoopOK'
    BY <1>0, <1>29 DEF SourceCallHit, LoopOK, SourceReturn, SourceGoesOn, Statuses
  <2>4. FlagsOK'
    BY <1>0, <1>29 DEF SourceCallHit, FlagsOK, SourceReturn, SourceGoesOn
  <2>5. WaitsOK'
    BY <1>0, <1>29, NothingPending DEF SourceCallHit, WaitsOK, SourceReturn, SourceGoesOn
  <2>6. CommandsOK'
    BY <1>0, <1>29 DEF SourceCallHit, CommandsOK, SourceReturn, SourceGoesOn
  <2> QED
    BY <2>1, <2>2, <2>3, <2>4, <2>5, <2>6, TypeParts
<1>30. ASSUME NEW a \in Addr, SourceFails(a) PROVE TypeOK'
  <2>1. TargetOK' /\ ClaimsOK' /\ CommandsOK'
    BY <1>0, <1>30 DEF SourceFails, TargetOK, ClaimsOK, CommandsOK
  <2>2. LoopOK'
    BY <1>0, <1>30 DEF SourceFails, LoopOK, StepLost, Fail, First
  <2>3. FlagsOK'
    BY <1>0, <1>30 DEF SourceFails, FlagsOK, StepLost, Fail
  <2>4. WaitsOK'
    BY <1>0, <1>30 DEF SourceFails, WaitsOK, StepLost, Fail
  <2> QED
    BY <2>1, <2>2, <2>3, <2>4, TypeParts
<1>31. ASSUME GraceElapsed PROVE TypeOK'
  <2>1. ClaimsOK' /\ WaitsOK' /\ CommandsOK'
    BY <1>0, <1>31 DEF GraceElapsed, ClaimsOK, WaitsOK, CommandsOK
  <2>2. TargetOK'
    BY <1>0, <1>31 DEF GraceElapsed, TargetOK
  <2>3. LoopOK'
    BY <1>0, <1>31 DEF GraceElapsed, LoopOK, Statuses
  <2>4. FlagsOK'
    BY <1>0, <1>31 DEF GraceElapsed, FlagsOK
  <2> QED
    BY <2>1, <2>2, <2>3, <2>4, TypeParts
<1>32. CASE UNCHANGED vars
  BY <1>32 DEF vars, TypeOK
<1> QED
  BY <1>1, <1>2, <1>3, <1>4, <1>5, <1>6, <1>7, <1>8, <1>9, <1>10, <1>11, <1>12, <1>13, <1>14, <1>15, <1>16, <1>17, <1>18, <1>19, <1>20, <1>21, <1>22, <1>23, <1>24, <1>25, <1>26, <1>27, <1>28, <1>29, <1>30, <1>31, <1>32
  DEF Next, Target, Command, Worker, Reap, SourceStepping

-----------------------------------------------------------------------------
(* What is under way *)

\* Nothing changes of what is under way, or no source step is.
LEMMA KeepOpen ==
  ASSUME SourceOpen, NextiOpen, UNCHANGED <<source, pending_nexti, overs>>,
         source = NoSource \/ paused' = paused
  PROVE  SourceOpen' /\ NextiOpen'
BY DEF SourceOpen, NextiOpen

\* Without a source step, a nexti goes, or keeps its breakpoint.
LEMMA KeepNexti ==
  ASSUME NextiOpen, source = NoSource, source' = NoSource,
         pending_nexti' = NoNexti \/ UNCHANGED <<pending_nexti, overs>>
  PROVE  SourceOpen' /\ NextiOpen'
BY NothingPending DEF SourceOpen, NextiOpen

\* The call of a source step is over: a nexti to the same place keeps a breakpoint.
LEMMA NextiKept ==
  ASSUME TypeOK, NextiOpen, source.addr \in Addr, source.phase = "call", RemoveOver(source.addr),
         pending_nexti' = pending_nexti, source'.phase # "call"
  PROVE  NextiOpen'
<1>1. \A b \in Addr : overs[b] \in Nat /\ overs'[b] =
        IF b = source.addr /\ overs[b] # 0 THEN overs[b] - 1 ELSE overs[b]
  BY RemoveOverType DEF TypeOK
<1> QED
  BY <1>1 DEF NextiOpen

\* Whatever happens, the step-overs in flight own breakpoints where they stop.
LEMMA OpenStep ==
  ASSUME Constants, TypeOK, SourceOpen, NextiOpen, [Next]_vars
  PROVE  SourceOpen' /\ NextiOpen'
<1>0. TypeOK /\ ClaimsOK /\ WaitsOK /\ CommandsOK
  BY TypeParts
<1>1. ASSUME NEW a \in Addr, HitBreakpoint(a) PROVE SourceOpen' /\ NextiOpen'
  BY <1>1, KeepOpen DEF HitBreakpoint, Stop
<1>2. ASSUME ReceiveSignal PROVE SourceOpen' /\ NextiOpen'
  BY <1>2, KeepOpen DEF ReceiveSignal
<1>3. ASSUME DequeueSignal PROVE SourceOpen' /\ NextiOpen'
  BY <1>3, KeepOpen DEF DequeueSignal, Stop
<1>4. ASSUME ExitProcess PROVE SourceOpen' /\ NextiOpen'
  BY <1>4, KeepOpen DEF ExitProcess
<1>5. ASSUME NEW v \in Verbs, Refuse(v) PROVE SourceOpen' /\ NextiOpen'
  BY <1>5, KeepOpen DEF Refuse
<1>6. ASSUME StopTarget PROVE SourceOpen' /\ NextiOpen'
  BY <1>6, KeepNexti DEF StopTarget, Receive, Polling, CancelNexti
<1>7. ASSUME PauseTarget PROVE SourceOpen' /\ NextiOpen'
  BY <1>7, KeepOpen DEF PauseTarget
<1>8. ASSUME Resume PROVE SourceOpen' /\ NextiOpen'
  BY <1>8, KeepOpen DEF Resume, Receive, Polling
<1>9. ASSUME Continue PROVE SourceOpen' /\ NextiOpen'
  BY <1>9, KeepNexti DEF Continue, Receive, Polling, CancelNexti
<1>10. ASSUME StepAllocatorEvent PROVE SourceOpen' /\ NextiOpen'
  BY <1>10, KeepOpen DEF StepAllocatorEvent, Receive, Polling
<1>11. ASSUME StepInstruction PROVE SourceOpen' /\ NextiOpen'
  BY <1>11, KeepOpen DEF StepInstruction, Receive, Polling
<1>12. ASSUME NEW a \in Addr, StepInstructionOverCall(a) PROVE SourceOpen' /\ NextiOpen'
  <2>1. source = NoSource /\ source' = NoSource /\ pending_nexti' = Nexti(id, a)
    BY <1>12 DEF StepInstructionOverCall, Receive, Polling
  <2>2. id \in 1 .. MaxCommands /\ id \in 0 .. MaxCommands /\ AddOver(a)
    BY <1>0, <1>12, NewId DEF StepInstructionOverCall, Constants
  <2>3. Nexti(id, a).id = id /\ Nexti(id, a).addr = a
    BY <2>2, NextiValue
  <2>4. overs'[a] > 0
    BY <1>0, <2>2, AddOverType DEF ClaimsOK
  <2> QED
    BY <2>1, <2>2, <2>3, <2>4, NothingPending DEF SourceOpen, NextiOpen, Constants
<1>13. ASSUME NEW a \in Addr, ToggleUserBreakpoint(a) PROVE SourceOpen' /\ NextiOpen'
  BY <1>13, KeepOpen DEF ToggleUserBreakpoint
<1>14. ASSUME NEW kind \in {"Into", "Over"}, StartSourceStep(kind) PROVE SourceOpen' /\ NextiOpen'
  <2>1. UNCHANGED <<overs, pending_nexti>> /\ paused /\ paused' = paused
        /\ source' = Source("step", id, kind, Elsewhere)
    BY <1>14 DEF StartSourceStep, CanStep
  <2>2. id \in 1 .. MaxCommands /\ id \in 0 .. MaxCommands
    BY <1>0, <1>14, NewId DEF StartSourceStep, Constants
  <2>3. source'.phase = "step" /\ source'.id # 0
    BY <2>1, <2>2, SourceValue DEF Constants
  <2> QED
    BY <2>1, <2>3 DEF SourceOpen, NextiOpen
<1>15. ASSUME NEW a \in Addr, NextiHit(a) PROVE SourceOpen' /\ NextiOpen'
  BY <1>15, KeepNexti DEF NextiHit, Trapped, Waiting, Polling
<1>16. ASSUME NEW a \in Addr, UserHit(a) PROVE SourceOpen' /\ NextiOpen'
  BY <1>16, KeepOpen DEF UserHit, Trapped, Waiting, Polling
<1>17. ASSUME NEW a \in Addr, ManagedHit(a) PROVE SourceOpen' /\ NextiOpen'
  BY <1>17, KeepNexti DEF ManagedHit, Trapped, Waiting, Polling, PauseAfterEvent, CancelNexti
<1>18. ASSUME NEW a \in Addr, FailedHit(a) PROVE SourceOpen' /\ NextiOpen'
  BY <1>18, KeepOpen DEF FailedHit, Fail, StepLost
<1>19. ASSUME PauseStop PROVE SourceOpen' /\ NextiOpen'
  BY <1>19, KeepOpen DEF PauseStop, Waiting, Polling
<1>20. ASSUME SignalStop PROVE SourceOpen' /\ NextiOpen'
  BY <1>20, KeepNexti DEF SignalStop, Waiting, Polling, CancelNexti
<1>21. ASSUME ReapExit PROVE SourceOpen' /\ NextiOpen'
  BY <1>21, KeepOpen DEF ReapExit
<1>22. ASSUME NoChild PROVE SourceOpen' /\ NextiOpen'
  BY <1>22, KeepOpen DEF NoChild, Fail
<1>23. ASSUME AfterHit PROVE SourceOpen' /\ NextiOpen'
  BY <1>23, KeepOpen DEF AfterHit
<1>24. ASSUME SourceInstruction PROVE SourceOpen' /\ NextiOpen'
  <2>1. UNCHANGED <<overs, pending_nexti>> /\ source.phase = "step"
    BY <1>24 DEF SourceInstruction, InSource, SourceReturn, SourceGoesOn
  <2>2. \/ source' = NoSource
        \/ source' = source /\ paused' = paused
    BY <1>24 DEF SourceInstruction, SourceReturn, SourceGoesOn
  <2> QED
    BY <2>1, <2>2, NothingPending DEF SourceOpen, NextiOpen
<1>25. ASSUME SourceCallReturns PROVE SourceOpen' /\ NextiOpen'
  <2>1. source.addr \in Addr /\ overs[source.addr] > 0 /\ paused /\ source.id # 0
    BY <1>25, CallOpen DEF SourceCallReturns
  <2>2. RemoveOver(source.addr) /\ pending_nexti' = pending_nexti /\ source.phase = "call"
    BY <1>25 DEF SourceCallReturns, InSource, SourceReturn, SourceGoesOn
  <2>3. \/ source' = NoSource
        \/ paused' = paused /\ source'.phase = "step" /\ source'.id = source.id
    BY <1>0, <1>25, <2>1, SourceMoves DEF SourceCallReturns, SourceReturn, SourceGoesOn, WaitsOK
  <2>4. SourceOpen'
    BY <2>1, <2>3 DEF SourceOpen
  <2>5. source'.phase # "call"
    BY <2>3, NothingPending
  <2> QED
    BY <1>0, <2>1, <2>2, <2>4, <2>5, NextiKept
<1>26. ASSUME SourceCallSignalled PROVE SourceOpen' /\ NextiOpen'
  <2>1. source.addr \in Addr /\ RemoveOver(source.addr) /\ pending_nexti' = pending_nexti
        /\ source' = NoSource /\ source.phase = "call"
    BY <1>26, CallOpen DEF SourceCallSignalled, InSource, SourceReturn
  <2> QED
    BY <1>0, <2>1, NothingPending, NextiKept DEF SourceOpen
<1>27. ASSUME SourceCallExits PROVE SourceOpen' /\ NextiOpen'
  <2>1. UNCHANGED <<overs, pending_nexti>> /\ source' = NoSource
    BY <1>27 DEF SourceCallExits, SourceReturn
  <2> QED
    BY <2>1, NothingPending DEF SourceOpen, NextiOpen
<1>28. ASSUME NEW a \in Addr, SourceCall(a) PROVE SourceOpen' /\ NextiOpen'
  <2>1. AddOver(a) /\ pending_nexti' = pending_nexti /\ paused' = paused /\ source.phase = "step"
    BY <1>28 DEF SourceCall, InSource, SourceGoesOn
  <2>2. source' = [source EXCEPT !.phase = "call", !.addr = a] /\ source \in SourceSteps
    BY <1>0, <1>28 DEF SourceCall, WaitsOK
  <2>3. source'.phase = "call" /\ source'.addr = a /\ source'.id = source.id
    BY <2>2, SourceMoves
  <2>4. /\ overs'[a] = overs[a] + 1 /\ overs[a] \in Nat
        /\ \A b \in Addr : overs'[b] >= overs[b] /\ overs[b] \in Nat /\ overs'[b] \in Nat
    BY <1>0, <2>1, AddOverType DEF ClaimsOK
  <2>5. paused /\ source.id # 0
    BY <2>1, NothingPending DEF SourceOpen
  <2>6. SourceOpen'
    BY <2>1, <2>3, <2>4, <2>5 DEF SourceOpen
  <2>7. NextiOpen'
    BY <2>1, <2>3, <2>4 DEF NextiOpen
  <2> QED
    BY <2>6, <2>7
<1>29. ASSUME NEW a \in Addr, SourceCallHit(a) PROVE SourceOpen' /\ NextiOpen'
  <2>1. source.addr \in Addr /\ overs[source.addr] > 0 /\ source.phase = "call"
        /\ pending_nexti' = pending_nexti
    BY <1>29, CallOpen DEF SourceCallHit, InSource, SourceReturn, SourceGoesOn
  <2>2. CASE UNCHANGED <<source, overs, paused>>
    BY <2>1, <2>2, KeepOpen
  <2>3. CASE source' = NoSource /\ overs' = [overs EXCEPT ![source.addr] = @ - 1]
    <3>1. \A b \in Addr : overs[b] \in Nat
                         /\ overs'[b] = IF b = source.addr THEN overs[b] - 1 ELSE overs[b]
      BY <1>0, <2>3 DEF ClaimsOK
    <3>2. NextiOpen'
      BY <2>1, <2>3, <3>1, NothingPending DEF NextiOpen
    <3> QED
      BY <2>3, <3>2 DEF SourceOpen
  <2> QED
    BY <1>29, <2>2, <2>3 DEF SourceCallHit, SourceReturn, SourceGoesOn
<1>30. ASSUME NEW a \in Addr, SourceFails(a) PROVE SourceOpen' /\ NextiOpen'
  BY <1>30, KeepOpen DEF SourceFails, Fail, StepLost
<1>31. ASSUME GraceElapsed PROVE SourceOpen' /\ NextiOpen'
  BY <1>31, KeepOpen DEF GraceElapsed
<1>32. CASE UNCHANGED vars
  BY <1>32, KeepOpen DEF vars
<1> QED
  BY <1>1, <1>2, <1>3, <1>4, <1>5, <1>6, <1>7, <1>8, <1>9, <1>10, <1>11, <1>12, <1>13, <1>14, <1>15, <1>16, <1>17, <1>18, <1>19, <1>20, <1>21, <1>22, <1>23, <1>24, <1>25, <1>26, <1>27, <1>28, <1>29, <1>30, <1>31, <1>32
  DEF Next, Target, Command, Worker, Reap, SourceStepping

-----------------------------------------------------------------------------
(* Who holds the process *)

\* No step leaves the process standing with nobody knowing, or lets a paused one go.
LEMMA HeldStep ==
  ASSUME Constants, TypeOK, SourceOpen, SourceOpen', HInv, [Next]_vars
  PROVE  HInv'
<1>0. TargetOK /\ ClaimsOK /\ LoopOK /\ FlagsOK /\ WaitsOK /\ CommandsOK
  BY TypeParts
<1>1. ASSUME NEW a \in Addr, HitBreakpoint(a) PROVE HInv'
  <2>1. ReportFits'
    BY <1>0, <1>1, Reports DEF HInv, HitBreakpoint, Stop, Polling, Busy, ReportFits, TargetOK
  <2>2. PausedHeld'
    BY <1>0, <1>1, Reports, NothingPending DEF HInv, HitBreakpoint, Stop, Polling, Busy, ReportFits, PausedHeld, TargetOK, SourceOpen
  <2>3. HeldIffPaused'
    BY <1>0, <1>1, <2>2, Reports, NothingPending DEF HInv, HitBreakpoint, Stop, Polling, Busy, ReportFits, PausedHeld, HeldIffPaused, TargetOK, SourceOpen
  <2>4. StatusHonest'
    BY <1>0, <1>1, Reports, NothingPending DEF HInv, HitBreakpoint, Stop, Polling, Busy, ReportFits, StatusHonest, TargetOK, SourceOpen
  <2> QED
    BY <2>1, <2>2, <2>3, <2>4 DEF HInv
<1>2. ASSUME ReceiveSignal PROVE HInv'
  <2>1. ReportFits'
    BY <1>0, <1>2, Reports DEF HInv, ReceiveSignal, Polling, Busy, ReportFits, TargetOK
  <2>2. PausedHeld'
    BY <1>0, <1>2, Reports, NothingPending DEF HInv, ReceiveSignal, Polling, Busy, ReportFits, PausedHeld, TargetOK, SourceOpen
  <2>3. HeldIffPaused'
    BY <1>0, <1>2, <2>2, Reports, NothingPending DEF HInv, ReceiveSignal, Polling, Busy, ReportFits, PausedHeld, HeldIffPaused, TargetOK, SourceOpen
  <2>4. StatusHonest'
    BY <1>0, <1>2, Reports, NothingPending DEF HInv, ReceiveSignal, Polling, Busy, ReportFits, StatusHonest, TargetOK, SourceOpen
  <2> QED
    BY <2>1, <2>2, <2>3, <2>4 DEF HInv
<1>3. ASSUME DequeueSignal PROVE HInv'
  <2>1. ReportFits'
    BY <1>0, <1>3, Reports DEF HInv, DequeueSignal, Stop, First, Polling, Busy, ReportFits, TargetOK
  <2>2. PausedHeld'
    BY <1>0, <1>3, Reports, NothingPending DEF HInv, DequeueSignal, Stop, First, Polling, Busy, ReportFits, PausedHeld, TargetOK, SourceOpen
  <2>3. HeldIffPaused'
    BY <1>0, <1>3, <2>2, Reports, NothingPending DEF HInv, DequeueSignal, Stop, First, Polling, Busy, ReportFits, PausedHeld, HeldIffPaused, TargetOK, SourceOpen
  <2>4. StatusHonest'
    BY <1>0, <1>3, Reports, NothingPending DEF HInv, DequeueSignal, Stop, First, Polling, Busy, ReportFits, StatusHonest, TargetOK, SourceOpen
  <2> QED
    BY <2>1, <2>2, <2>3, <2>4 DEF HInv
<1>4. ASSUME ExitProcess PROVE HInv'
  <2>1. ReportFits'
    BY <1>0, <1>4, Reports DEF HInv, ExitProcess, Polling, Busy, ReportFits, TargetOK
  <2>2. PausedHeld'
    BY <1>0, <1>4, Reports, NothingPending DEF HInv, ExitProcess, Polling, Busy, ReportFits, PausedHeld, TargetOK, SourceOpen
  <2>3. HeldIffPaused'
    BY <1>0, <1>4, <2>2, Reports, NothingPending DEF HInv, ExitProcess, Polling, Busy, ReportFits, PausedHeld, HeldIffPaused, TargetOK, SourceOpen
  <2>4. StatusHonest'
    BY <1>0, <1>4, Reports, NothingPending DEF HInv, ExitProcess, Polling, Busy, ReportFits, StatusHonest, TargetOK, SourceOpen
  <2> QED
    BY <2>1, <2>2, <2>3, <2>4 DEF HInv
<1>5. ASSUME NEW v \in Verbs, Refuse(v) PROVE HInv'
  <2>1. ReportFits'
    BY <1>0, <1>5, Reports DEF HInv, Refuse, Receive, Polling, Busy, ReportFits, TargetOK
  <2>2. PausedHeld'
    BY <1>0, <1>5, Reports, NothingPending DEF HInv, Refuse, Receive, Polling, Busy, ReportFits, PausedHeld, TargetOK, SourceOpen
  <2>3. HeldIffPaused'
    BY <1>0, <1>5, <2>2, Reports, NothingPending DEF HInv, Refuse, Receive, Polling, Busy, ReportFits, PausedHeld, HeldIffPaused, TargetOK, SourceOpen
  <2>4. StatusHonest'
    BY <1>0, <1>5, Reports, NothingPending DEF HInv, Refuse, Receive, Polling, Busy, ReportFits, StatusHonest, TargetOK, SourceOpen
  <2> QED
    BY <2>1, <2>2, <2>3, <2>4 DEF HInv
<1>6. ASSUME StopTarget PROVE HInv'
  <2>1. ReportFits'
    BY <1>0, <1>6, Reports DEF HInv, StopTarget, Receive, Kill, Cont, Polling, Busy, ReportFits, TargetOK
  <2>2. PausedHeld'
    BY <1>0, <1>6, Reports, NothingPending DEF HInv, StopTarget, Receive, Kill, Cont, Polling, Busy, ReportFits, PausedHeld, TargetOK, SourceOpen
  <2>3. HeldIffPaused'
    BY <1>0, <1>6, <2>2, Reports, NothingPending DEF HInv, StopTarget, Receive, Kill, Cont, Polling, Busy, ReportFits, PausedHeld, HeldIffPaused, TargetOK, SourceOpen
  <2>4. StatusHonest'
    BY <1>0, <1>6, Reports, NothingPending DEF HInv, StopTarget, Receive, Kill, Cont, Polling, Busy, ReportFits, StatusHonest, TargetOK, SourceOpen
  <2> QED
    BY <2>1, <2>2, <2>3, <2>4 DEF HInv
<1>7. ASSUME PauseTarget PROVE HInv'
  <2>1. ReportFits'
    BY <1>0, <1>7, Reports DEF HInv, PauseTarget, Receive, Kill, Polling, Busy, ReportFits, TargetOK
  <2>2. PausedHeld'
    BY <1>0, <1>7, Reports, NothingPending DEF HInv, PauseTarget, Receive, Kill, Polling, Busy, ReportFits, PausedHeld, TargetOK, SourceOpen
  <2>3. HeldIffPaused'
    BY <1>0, <1>7, <2>2, Reports, NothingPending DEF HInv, PauseTarget, Receive, Kill, Polling, Busy, ReportFits, PausedHeld, HeldIffPaused, TargetOK, SourceOpen
  <2>4. StatusHonest'
    BY <1>0, <1>7, Reports, NothingPending DEF HInv, PauseTarget, Receive, Kill, Polling, Busy, ReportFits, StatusHonest, TargetOK, SourceOpen
  <2> QED
    BY <2>1, <2>2, <2>3, <2>4 DEF HInv
<1>8. ASSUME Resume PROVE HInv'
  <2>1. ReportFits'
    BY <1>0, <1>8, Reports DEF HInv, Resume, Receive, Cont, Go, Polling, Busy, ReportFits, TargetOK
  <2>2. PausedHeld'
    BY <1>0, <1>8, Reports, NothingPending DEF HInv, Resume, Receive, Cont, Go, Polling, Busy, ReportFits, PausedHeld, TargetOK, SourceOpen
  <2>3. HeldIffPaused'
    BY <1>0, <1>8, <2>2, Reports, NothingPending DEF HInv, Resume, Receive, Cont, Go, Polling, Busy, ReportFits, PausedHeld, HeldIffPaused, TargetOK, SourceOpen
  <2>4. StatusHonest'
    BY <1>0, <1>8, Reports, NothingPending DEF HInv, Resume, Receive, Cont, Go, Polling, Busy, ReportFits, StatusHonest, TargetOK, SourceOpen
  <2> QED
    BY <2>1, <2>2, <2>3, <2>4 DEF HInv
<1>9. ASSUME Continue PROVE HInv'
  <2>1. ReportFits'
    BY <1>0, <1>9, Reports DEF HInv, Continue, Receive, Cont, Go, Polling, Busy, ReportFits, TargetOK
  <2>2. PausedHeld'
    BY <1>0, <1>9, Reports, NothingPending DEF HInv, Continue, Receive, Cont, Go, Polling, Busy, ReportFits, PausedHeld, TargetOK, SourceOpen
  <2>3. HeldIffPaused'
    BY <1>0, <1>9, <2>2, Reports, NothingPending DEF HInv, Continue, Receive, Cont, Go, Polling, Busy, ReportFits, PausedHeld, HeldIffPaused, TargetOK, SourceOpen
  <2>4. StatusHonest'
    BY <1>0, <1>9, Reports, NothingPending DEF HInv, Continue, Receive, Cont, Go, Polling, Busy, ReportFits, StatusHonest, TargetOK, SourceOpen
  <2> QED
    BY <2>1, <2>2, <2>3, <2>4 DEF HInv
<1>10. ASSUME StepAllocatorEvent PROVE HInv'
  <2>1. ReportFits'
    BY <1>0, <1>10, Reports DEF HInv, StepAllocatorEvent, Receive, Cont, Go, Polling, Busy, ReportFits, TargetOK
  <2>2. PausedHeld'
    BY <1>0, <1>10, Reports, NothingPending DEF HInv, StepAllocatorEvent, Receive, Cont, Go, Polling, Busy, ReportFits, PausedHeld, TargetOK, SourceOpen
  <2>3. HeldIffPaused'
    BY <1>0, <1>10, <2>2, Reports, NothingPending DEF HInv, StepAllocatorEvent, Receive, Cont, Go, Polling, Busy, ReportFits, PausedHeld, HeldIffPaused, TargetOK, SourceOpen
  <2>4. StatusHonest'
    BY <1>0, <1>10, Reports, NothingPending DEF HInv, StepAllocatorEvent, Receive, Cont, Go, Polling, Busy, ReportFits, StatusHonest, TargetOK, SourceOpen
  <2> QED
    BY <2>1, <2>2, <2>3, <2>4 DEF HInv
<1>11. ASSUME StepInstruction PROVE HInv'
  <2>1. ReportFits'
    BY <1>0, <1>11, Reports, NothingPending DEF HInv, StepInstruction, Receive, CanStep, StepTraps, StepSignalled, StepExits, Polling, Busy, ReportFits, TargetOK, PausedHeld, SourceOpen
  <2>2. PausedHeld'
    BY <1>0, <1>11, Reports, NothingPending DEF HInv, StepInstruction, Receive, CanStep, StepTraps, StepSignalled, StepExits, Polling, Busy, ReportFits, PausedHeld, TargetOK, SourceOpen
  <2>3. HeldIffPaused'
    BY <1>0, <1>11, <2>2, Reports, NothingPending DEF HInv, StepInstruction, Receive, CanStep, StepTraps, StepSignalled, StepExits, Polling, Busy, ReportFits, PausedHeld, HeldIffPaused, TargetOK, SourceOpen
  <2>4. StatusHonest'
    BY <1>0, <1>11, Reports, NothingPending DEF HInv, StepInstruction, Receive, CanStep, StepTraps, StepSignalled, StepExits, Polling, Busy, ReportFits, StatusHonest, TargetOK, SourceOpen
  <2> QED
    BY <2>1, <2>2, <2>3, <2>4 DEF HInv
<1>12. ASSUME NEW a \in Addr, StepInstructionOverCall(a) PROVE HInv'
  <2>1. ReportFits'
    BY <1>0, <1>12, Reports DEF HInv, StepInstructionOverCall, Receive, CanStep, Cont, Go, Polling, Busy, ReportFits, TargetOK
  <2>2. PausedHeld'
    BY <1>0, <1>12, Reports, NothingPending DEF HInv, StepInstructionOverCall, Receive, CanStep, Cont, Go, Polling, Busy, ReportFits, PausedHeld, TargetOK, SourceOpen
  <2>3. HeldIffPaused'
    BY <1>0, <1>12, <2>2, Reports, NothingPending DEF HInv, StepInstructionOverCall, Receive, CanStep, Cont, Go, Polling, Busy, ReportFits, PausedHeld, HeldIffPaused, TargetOK, SourceOpen
  <2>4. StatusHonest'
    BY <1>0, <1>12, Reports, NothingPending DEF HInv, StepInstructionOverCall, Receive, CanStep, Cont, Go, Polling, Busy, ReportFits, StatusHonest, TargetOK, SourceOpen
  <2> QED
    BY <2>1, <2>2, <2>3, <2>4 DEF HInv
<1>13. ASSUME NEW a \in Addr, ToggleUserBreakpoint(a) PROVE HInv'
  <2>1. ReportFits'
    BY <1>0, <1>13, Reports DEF HInv, ToggleUserBreakpoint, Receive, Polling, Busy, ReportFits, TargetOK
  <2>2. PausedHeld'
    BY <1>0, <1>13, Reports, NothingPending DEF HInv, ToggleUserBreakpoint, Receive, Polling, Busy, ReportFits, PausedHeld, TargetOK, SourceOpen
  <2>3. HeldIffPaused'
    BY <1>0, <1>13, <2>2, Reports, NothingPending DEF HInv, ToggleUserBreakpoint, Receive, Polling, Busy, ReportFits, PausedHeld, HeldIffPaused, TargetOK, SourceOpen
  <2>4. StatusHonest'
    BY <1>0, <1>13, Reports, NothingPending DEF HInv, ToggleUserBreakpoint, Receive, Polling, Busy, ReportFits, StatusHonest, TargetOK, SourceOpen
  <2> QED
    BY <2>1, <2>2, <2>3, <2>4 DEF HInv
<1>14. ASSUME NEW kind \in {"Into", "Over"}, StartSourceStep(kind) PROVE HInv'
  <2>1. ReportFits'
    BY <1>0, <1>14, Reports DEF HInv, StartSourceStep, Receive, CanStep, Polling, Busy, ReportFits, TargetOK
  <2>2. PausedHeld'
    BY <1>0, <1>14, Reports, NothingPending DEF HInv, StartSourceStep, Receive, CanStep, Polling, Busy, ReportFits, PausedHeld, TargetOK, SourceOpen
  <2>3. HeldIffPaused'
    BY <1>0, <1>14, <2>2, Reports, NothingPending DEF HInv, StartSourceStep, Receive, CanStep, Polling, Busy, ReportFits, PausedHeld, HeldIffPaused, TargetOK, SourceOpen
  <2>4. StatusHonest'
    <3>1. id \in 0 .. MaxCommands
      BY <1>0, <1>14, NewId DEF StartSourceStep, Constants
    <3>2. source' # NoSource
      BY <1>14, <3>1, SourceValue, NothingPending DEF StartSourceStep
    <3> QED
      BY <3>2 DEF StatusHonest, Polling
  <2> QED
    BY <2>1, <2>2, <2>3, <2>4 DEF HInv
<1>15. ASSUME NEW a \in Addr, NextiHit(a) PROVE HInv'
  <2>1. ReportFits'
    BY <1>0, <1>15, Reports DEF HInv, NextiHit, Trapped, Waiting, Polling, IsNextiHit, PauseNow, Busy, ReportFits, TargetOK
  <2>2. PausedHeld'
    BY <1>0, <1>15, Reports, NothingPending DEF HInv, NextiHit, Trapped, Waiting, Polling, IsNextiHit, PauseNow, Busy, ReportFits, PausedHeld, TargetOK, SourceOpen
  <2>3. HeldIffPaused'
    BY <1>0, <1>15, <2>2, Reports, NothingPending DEF HInv, NextiHit, Trapped, Waiting, Polling, IsNextiHit, PauseNow, Busy, ReportFits, PausedHeld, HeldIffPaused, TargetOK, SourceOpen
  <2>4. StatusHonest'
    BY <1>0, <1>15, Reports, NothingPending DEF HInv, NextiHit, Trapped, Waiting, Polling, IsNextiHit, PauseNow, Busy, ReportFits, StatusHonest, TargetOK, SourceOpen
  <2> QED
    BY <2>1, <2>2, <2>3, <2>4 DEF HInv
<1>16. ASSUME NEW a \in Addr, UserHit(a) PROVE HInv'
  <2>1. ReportFits'
    BY <1>0, <1>16, Reports DEF HInv, UserHit, Trapped, Waiting, Polling, Reaped, PauseNow, Busy, ReportFits, TargetOK
  <2>2. PausedHeld'
    BY <1>0, <1>16, Reports, NothingPending DEF HInv, UserHit, Trapped, Waiting, Polling, Reaped, PauseNow, Busy, ReportFits, PausedHeld, TargetOK, SourceOpen
  <2>3. HeldIffPaused'
    BY <1>0, <1>16, <2>2, Reports, NothingPending DEF HInv, UserHit, Trapped, Waiting, Polling, Reaped, PauseNow, Busy, ReportFits, PausedHeld, HeldIffPaused, TargetOK, SourceOpen
  <2>4. StatusHonest'
    BY <1>0, <1>16, Reports, NothingPending DEF HInv, UserHit, Trapped, Waiting, Polling, Reaped, PauseNow, Busy, ReportFits, StatusHonest, TargetOK, SourceOpen
  <2> QED
    BY <2>1, <2>2, <2>3, <2>4 DEF HInv
<1>17. ASSUME NEW a \in Addr, ManagedHit(a) PROVE HInv'
  <2>1. ReportFits'
    BY <1>0, <1>17, Reports DEF HInv, ManagedHit, Trapped, Waiting, Polling, Reaped, PauseAfterEvent, PauseNow, Busy, ReportFits, TargetOK
  <2>2. PausedHeld'
    BY <1>0, <1>17, Reports, NothingPending DEF HInv, ManagedHit, Trapped, Waiting, Polling, Reaped, PauseAfterEvent, PauseNow, Busy, ReportFits, PausedHeld, TargetOK, SourceOpen
  <2>3. HeldIffPaused'
    BY <1>0, <1>17, <2>2, Reports, NothingPending DEF HInv, ManagedHit, Trapped, Waiting, Polling, Reaped, PauseAfterEvent, PauseNow, Busy, ReportFits, PausedHeld, HeldIffPaused, TargetOK, SourceOpen
  <2>4. StatusHonest'
    BY <1>0, <1>17, Reports, NothingPending DEF HInv, ManagedHit, Trapped, Waiting, Polling, Reaped, PauseAfterEvent, PauseNow, Busy, ReportFits, StatusHonest, TargetOK, SourceOpen
  <2> QED
    BY <2>1, <2>2, <2>3, <2>4 DEF HInv
<1>18. ASSUME NEW a \in Addr, FailedHit(a) PROVE HInv'
  <2>1. ReportFits'
    BY <1>0, <1>18, Reports DEF HInv, FailedHit, Fail, StepLost, Polling, Busy, ReportFits, TargetOK
  <2>2. PausedHeld'
    BY <1>0, <1>18, Reports, NothingPending DEF HInv, FailedHit, Fail, StepLost, Polling, Busy, ReportFits, PausedHeld, TargetOK, SourceOpen
  <2>3. HeldIffPaused'
    BY <1>0, <1>18, <2>2, Reports, NothingPending DEF HInv, FailedHit, Fail, StepLost, Polling, Busy, ReportFits, PausedHeld, HeldIffPaused, TargetOK, SourceOpen, First, Signals
  <2>4. StatusHonest'
    BY <1>0, <1>18, Reports, NothingPending DEF HInv, FailedHit, Fail, StepLost, Polling, Busy, ReportFits, StatusHonest, TargetOK, SourceOpen, First, Signals
  <2> QED
    BY <2>1, <2>2, <2>3, <2>4 DEF HInv
<1>19. ASSUME PauseStop PROVE HInv'
  <2>1. ReportFits'
    BY <1>0, <1>19, Reports DEF HInv, PauseStop, Waiting, Polling, Reaped, PauseNow, Busy, ReportFits, TargetOK
  <2>2. PausedHeld'
    BY <1>0, <1>19, Reports, NothingPending DEF HInv, PauseStop, Waiting, Polling, Reaped, PauseNow, Busy, ReportFits, PausedHeld, TargetOK, SourceOpen, Signals
  <2>3. HeldIffPaused'
    BY <1>0, <1>19, <2>2, Reports, NothingPending DEF HInv, PauseStop, Waiting, Polling, Reaped, PauseNow, Busy, ReportFits, PausedHeld, HeldIffPaused, TargetOK, SourceOpen
  <2>4. StatusHonest'
    BY <1>0, <1>19, Reports, NothingPending DEF HInv, PauseStop, Waiting, Polling, Reaped, PauseNow, Busy, ReportFits, StatusHonest, TargetOK, SourceOpen
  <2> QED
    BY <2>1, <2>2, <2>3, <2>4 DEF HInv
<1>20. ASSUME SignalStop PROVE HInv'
  <2>1. ReportFits'
    BY <1>0, <1>20, Reports DEF HInv, SignalStop, Waiting, Polling, Reaped, ContWith, Busy, ReportFits, TargetOK
  <2>2. PausedHeld'
    BY <1>0, <1>20, Reports, NothingPending DEF HInv, SignalStop, Waiting, Polling, Reaped, ContWith, Busy, ReportFits, PausedHeld, TargetOK, SourceOpen
  <2>3. HeldIffPaused'
    BY <1>0, <1>20, <2>2, Reports, NothingPending DEF HInv, SignalStop, Waiting, Polling, Reaped, ContWith, Busy, ReportFits, PausedHeld, HeldIffPaused, TargetOK, SourceOpen
  <2>4. StatusHonest'
    BY <1>0, <1>20, Reports, NothingPending DEF HInv, SignalStop, Waiting, Polling, Reaped, ContWith, Busy, ReportFits, StatusHonest, TargetOK, SourceOpen
  <2> QED
    BY <2>1, <2>2, <2>3, <2>4 DEF HInv
<1>21. ASSUME ReapExit PROVE HInv'
  <2>1. ReportFits'
    BY <1>0, <1>21, Reports DEF HInv, ReapExit, Waiting, Polling, Busy, ReportFits, TargetOK
  <2>2. PausedHeld'
    BY <1>0, <1>21, Reports, NothingPending DEF HInv, ReapExit, Waiting, Polling, Busy, ReportFits, PausedHeld, TargetOK, SourceOpen
  <2>3. HeldIffPaused'
    BY <1>0, <1>21, <2>2, Reports, NothingPending DEF HInv, ReapExit, Waiting, Polling, Busy, ReportFits, PausedHeld, HeldIffPaused, TargetOK, SourceOpen
  <2>4. StatusHonest'
    BY <1>0, <1>21, Reports, NothingPending DEF HInv, ReapExit, Waiting, Polling, Busy, ReportFits, StatusHonest, TargetOK, SourceOpen
  <2> QED
    BY <2>1, <2>2, <2>3, <2>4 DEF HInv
<1>22. ASSUME NoChild PROVE HInv'
  <2>1. ReportFits'
    BY <1>0, <1>22, Reports DEF HInv, NoChild, Fail, Polling, Busy, ReportFits, TargetOK
  <2>2. PausedHeld'
    BY <1>0, <1>22, Reports, NothingPending DEF HInv, NoChild, Fail, Polling, Busy, ReportFits, PausedHeld, TargetOK, SourceOpen
  <2>3. HeldIffPaused'
    BY <1>0, <1>22, <2>2, Reports, NothingPending DEF HInv, NoChild, Fail, Polling, Busy, ReportFits, PausedHeld, HeldIffPaused, TargetOK, SourceOpen
  <2>4. StatusHonest'
    BY <1>0, <1>22, Reports, NothingPending DEF HInv, NoChild, Fail, Polling, Busy, ReportFits, StatusHonest, TargetOK, SourceOpen
  <2> QED
    BY <2>1, <2>2, <2>3, <2>4 DEF HInv
<1>23. ASSUME AfterHit PROVE HInv'
  <2>1. ReportFits'
    BY <1>0, <1>23, Reports DEF HInv, AfterHit, Polling, Cont, Busy, ReportFits, TargetOK
  <2>2. PausedHeld'
    BY <1>0, <1>23, Reports, NothingPending DEF HInv, AfterHit, Polling, Cont, Busy, ReportFits, PausedHeld, TargetOK, SourceOpen
  <2>3. HeldIffPaused'
    BY <1>0, <1>23, <2>2, Reports, NothingPending DEF HInv, AfterHit, Polling, Cont, Busy, ReportFits, PausedHeld, HeldIffPaused, TargetOK, SourceOpen
  <2>4. StatusHonest'
    BY <1>0, <1>23, Reports, NothingPending DEF HInv, AfterHit, Polling, Cont, Busy, ReportFits, StatusHonest, TargetOK, SourceOpen
  <2> QED
    BY <2>1, <2>2, <2>3, <2>4 DEF HInv
<1>24. ASSUME SourceInstruction PROVE HInv'
  <2>1. ReportFits'
    BY <1>0, <1>24, Reports, NothingPending DEF HInv, SourceInstruction, InSource, SourceReturn, SourceGoesOn, StepTraps, StepSignalled, StepExits, Polling, Busy, ReportFits, TargetOK, PausedHeld, SourceOpen
  <2>2. PausedHeld'
    BY <1>0, <1>24, Reports, NothingPending DEF HInv, SourceInstruction, InSource, SourceReturn, SourceGoesOn, StepTraps, StepSignalled, StepExits, Polling, Busy, ReportFits, PausedHeld, TargetOK, SourceOpen
  <2>3. HeldIffPaused'
    BY <1>0, <1>24, <2>2, Reports, NothingPending DEF HInv, SourceInstruction, InSource, SourceReturn, SourceGoesOn, StepTraps, StepSignalled, StepExits, Polling, Busy, ReportFits, PausedHeld, HeldIffPaused, TargetOK, SourceOpen
  <2>4. StatusHonest'
    BY <1>0, <1>24, Reports, NothingPending DEF HInv, SourceInstruction, InSource, SourceReturn, SourceGoesOn, StepTraps, StepSignalled, StepExits, Polling, Busy, ReportFits, StatusHonest, TargetOK, SourceOpen
  <2> QED
    BY <2>1, <2>2, <2>3, <2>4 DEF HInv
<1>25. ASSUME SourceCallReturns PROVE HInv'
  <2>1. ReportFits'
    BY <1>0, <1>25, Reports DEF HInv, SourceCallReturns, InSource, SourceReturn, SourceGoesOn, Polling, Busy, ReportFits, TargetOK
  <2>2. PausedHeld'
    BY <1>0, <1>25, Reports, NothingPending DEF HInv, SourceCallReturns, InSource, SourceReturn, SourceGoesOn, Polling, Busy, ReportFits, PausedHeld, TargetOK, SourceOpen
  <2>3. HeldIffPaused'
    BY <1>0, <1>25, <2>2, Reports, NothingPending DEF HInv, SourceCallReturns, InSource, SourceReturn, SourceGoesOn, Polling, Busy, ReportFits, PausedHeld, HeldIffPaused, TargetOK, SourceOpen
  <2>4. StatusHonest'
    <3>1. \A b \in Addr :
            /\ [source EXCEPT !.phase = "call", !.addr = b] # NoSource
            /\ [source EXCEPT !.phase = "step", !.addr = Elsewhere] # NoSource
      BY <1>0, SourceMoves, NothingPending DEF WaitsOK
    <3> QED
      BY <3>1, <1>0, <1>25, Reports, NothingPending DEF HInv, SourceCallReturns, InSource, SourceReturn, SourceGoesOn, Polling, Busy, ReportFits, StatusHonest, TargetOK, SourceOpen
  <2> QED
    BY <2>1, <2>2, <2>3, <2>4 DEF HInv
<1>26. ASSUME SourceCallSignalled PROVE HInv'
  <2>1. ReportFits'
    BY <1>0, <1>26, Reports DEF HInv, SourceCallSignalled, InSource, SourceReturn, Reaped, Polling, Busy, ReportFits, TargetOK
  <2>2. PausedHeld'
    BY <1>0, <1>26, Reports, NothingPending DEF HInv, SourceCallSignalled, InSource, SourceReturn, Reaped, Polling, Busy, ReportFits, PausedHeld, TargetOK, SourceOpen
  <2>3. HeldIffPaused'
    BY <1>0, <1>26, <2>2, Reports, NothingPending DEF HInv, SourceCallSignalled, InSource, SourceReturn, Reaped, Polling, Busy, ReportFits, PausedHeld, HeldIffPaused, TargetOK, SourceOpen
  <2>4. StatusHonest'
    BY <1>0, <1>26, Reports, NothingPending DEF HInv, SourceCallSignalled, InSource, SourceReturn, Reaped, Polling, Busy, ReportFits, StatusHonest, TargetOK, SourceOpen
  <2> QED
    BY <2>1, <2>2, <2>3, <2>4 DEF HInv
<1>27. ASSUME SourceCallExits PROVE HInv'
  <2>1. ReportFits'
    BY <1>0, <1>27, Reports DEF HInv, SourceCallExits, InSource, SourceReturn, Polling, Busy, ReportFits, TargetOK
  <2>2. PausedHeld'
    BY <1>0, <1>27, Reports, NothingPending DEF HInv, SourceCallExits, InSource, SourceReturn, Polling, Busy, ReportFits, PausedHeld, TargetOK, SourceOpen
  <2>3. HeldIffPaused'
    BY <1>0, <1>27, <2>2, Reports, NothingPending DEF HInv, SourceCallExits, InSource, SourceReturn, Polling, Busy, ReportFits, PausedHeld, HeldIffPaused, TargetOK, SourceOpen
  <2>4. StatusHonest'
    BY <1>0, <1>27, Reports, NothingPending DEF HInv, SourceCallExits, InSource, SourceReturn, Polling, Busy, ReportFits, StatusHonest, TargetOK, SourceOpen
  <2> QED
    BY <2>1, <2>2, <2>3, <2>4 DEF HInv
<1>28. ASSUME NEW a \in Addr, SourceCall(a) PROVE HInv'
  <2>1. ReportFits'
    BY <1>0, <1>28, Reports DEF HInv, SourceCall, InSource, SourceGoesOn, Cont, Polling, Busy, ReportFits, TargetOK
  <2>2. PausedHeld'
    BY <1>0, <1>28, Reports, NothingPending DEF HInv, SourceCall, InSource, SourceGoesOn, Cont, Polling, Busy, ReportFits, PausedHeld, TargetOK, SourceOpen
  <2>3. HeldIffPaused'
    BY <1>0, <1>28, <2>2, Reports, NothingPending DEF HInv, SourceCall, InSource, SourceGoesOn, Cont, Polling, Busy, ReportFits, PausedHeld, HeldIffPaused, TargetOK, SourceOpen
  <2>4. StatusHonest'
    <3>1. \A b \in Addr :
            /\ [source EXCEPT !.phase = "call", !.addr = b] # NoSource
            /\ [source EXCEPT !.phase = "step", !.addr = Elsewhere] # NoSource
      BY <1>0, SourceMoves, NothingPending DEF WaitsOK
    <3> QED
      BY <3>1, <1>0, <1>28, Reports, NothingPending DEF HInv, SourceCall, InSource, SourceGoesOn, Cont, Polling, Busy, ReportFits, StatusHonest, TargetOK, SourceOpen
  <2> QED
    BY <2>1, <2>2, <2>3, <2>4 DEF HInv
<1>29. ASSUME NEW a \in Addr, SourceCallHit(a) PROVE HInv'
  <2>1. ReportFits'
    BY <1>0, <1>29, Reports DEF HInv, SourceCallHit, InSource, SourceReturn, SourceGoesOn, Cont, Reaped, Polling, Busy, ReportFits, TargetOK
  <2>2. PausedHeld'
    BY <1>0, <1>29, Reports, NothingPending DEF HInv, SourceCallHit, InSource, SourceReturn, SourceGoesOn, Cont, Reaped, Polling, Busy, ReportFits, PausedHeld, TargetOK, SourceOpen
  <2>3. HeldIffPaused'
    BY <1>0, <1>29, <2>2, Reports, NothingPending DEF HInv, SourceCallHit, InSource, SourceReturn, SourceGoesOn, Cont, Reaped, Polling, Busy, ReportFits, PausedHeld, HeldIffPaused, TargetOK, SourceOpen
  <2>4. StatusHonest'
    BY <1>0, <1>29, Reports, NothingPending DEF HInv, SourceCallHit, InSource, SourceReturn, SourceGoesOn, Cont, Reaped, Polling, Busy, ReportFits, StatusHonest, TargetOK, SourceOpen
  <2> QED
    BY <2>1, <2>2, <2>3, <2>4 DEF HInv
<1>30. ASSUME NEW a \in Addr, SourceFails(a) PROVE HInv'
  <2>1. ReportFits'
    BY <1>0, <1>30, Reports DEF HInv, SourceFails, Fail, StepLost, Polling, Busy, ReportFits, TargetOK
  <2>2. PausedHeld'
    BY <1>0, <1>30, Reports, NothingPending DEF HInv, SourceFails, Fail, StepLost, Polling, Busy, ReportFits, PausedHeld, TargetOK, SourceOpen
  <2>3. HeldIffPaused'
    BY <1>0, <1>30, <2>2, Reports, NothingPending DEF HInv, SourceFails, Fail, StepLost, Polling, Busy, ReportFits, PausedHeld, HeldIffPaused, TargetOK, SourceOpen, First, Signals
  <2>4. StatusHonest'
    BY <1>0, <1>30, Reports, NothingPending DEF HInv, SourceFails, Fail, StepLost, Polling, Busy, ReportFits, StatusHonest, TargetOK, SourceOpen, First, Signals
  <2> QED
    BY <2>1, <2>2, <2>3, <2>4 DEF HInv
<1>31. ASSUME GraceElapsed PROVE HInv'
  <2>1. ReportFits'
    BY <1>0, <1>31, Reports DEF HInv, GraceElapsed, Waiting, Polling, Busy, ReportFits, TargetOK
  <2>2. PausedHeld'
    BY <1>0, <1>31, Reports, NothingPending DEF HInv, GraceElapsed, Waiting, Polling, Busy, ReportFits, PausedHeld, TargetOK, SourceOpen
  <2>3. HeldIffPaused'
    BY <1>0, <1>31, <2>2, Reports, NothingPending DEF HInv, GraceElapsed, Waiting, Polling, Busy, ReportFits, PausedHeld, HeldIffPaused, TargetOK, SourceOpen
  <2>4. StatusHonest'
    BY <1>0, <1>31, Reports, NothingPending DEF HInv, GraceElapsed, Waiting, Polling, Busy, ReportFits, StatusHonest, TargetOK, SourceOpen
  <2> QED
    BY <2>1, <2>2, <2>3, <2>4 DEF HInv
<1>32. CASE UNCHANGED vars
  BY <1>32 DEF vars, HInv, ReportFits, PausedHeld, HeldIffPaused, StatusHonest, Polling, Busy
<1> QED
  BY <1>1, <1>2, <1>3, <1>4, <1>5, <1>6, <1>7, <1>8, <1>9, <1>10, <1>11, <1>12, <1>13, <1>14, <1>15, <1>16, <1>17, <1>18, <1>19, <1>20, <1>21, <1>22, <1>23, <1>24, <1>25, <1>26, <1>27, <1>28, <1>29, <1>30, <1>31, <1>32
  DEF Next, Target, Command, Worker, Reap, SourceStepping

-----------------------------------------------------------------------------
(* Who is answered *)

\* The numbers of commands are numbers.
LEMMA IdTypes ==
  ASSUME Constants, WaitsOK, CommandsOK
  PROVE  /\ pending_pause \in Nat /\ pending_step \in Nat /\ sent \in Nat
         /\ pending_nexti.id \in Nat /\ source.id \in Nat
BY DEF Constants, WaitsOK, CommandsOK, NextiPending, SourceSteps

\* Giving a nexti up leaves the others to be answered.
LEMMA NextiIds ==
  ASSUME CancelNexti
  PROVE  pending_nexti'.id = 0
BY NothingPending DEF CancelNexti

\* Nothing new is under way, and of what is nothing but x was answered.
LEMMA KeepIds ==
  ASSUME Constants, TypeOK, AInv, NEW x, sent' \in {sent, sent + 1},
         pending_pause' \in {0, pending_pause}, pending_step' \in {0, pending_step},
         pending_nexti'.id \in {0, pending_nexti.id}, source'.id \in {0, source.id},
         x \notin {pending_pause', pending_step', pending_nexti'.id, source'.id} \ {0},
         open \ {x} \subseteq open'
  PROVE  AInv'
<1>1. /\ pending_pause \in Nat /\ pending_step \in Nat /\ sent \in Nat
      /\ pending_nexti.id \in Nat /\ source.id \in Nat
  BY IdTypes, TypeParts
<1>2. IdsDiffer'
  BY <1>1 DEF AInv, IdsDiffer
<1>3. PendingOpen'
  BY <1>1 DEF AInv, PendingOpen
<1> QED
  BY <1>2, <1>3 DEF AInv

\* Nobody is answered, and no new command is left to be.
LEMMA SameIds ==
  ASSUME Constants, TypeOK, AInv, sent' \in {sent, sent + 1}, UNCHANGED <<pending, open>>,
         source' = source \/ source'.id = source.id
  PROVE  AInv'
<1>1. 0 \notin {pending_pause', pending_step', pending_nexti'.id, source'.id} \ {0}
  OBVIOUS
<1> QED
  BY <1>1, KeepIds

\* A command is answered at most once, by whichever stop serves it.
LEMMA AnswerStep ==
  ASSUME Constants, TypeOK, SourceOpen, AInv, [Next]_vars
  PROVE  AInv'
<1>0. /\ TargetOK /\ ClaimsOK /\ LoopOK /\ FlagsOK /\ WaitsOK /\ CommandsOK
      /\ pending_pause \in Nat /\ pending_step \in Nat /\ sent \in Nat
      /\ pending_nexti.id \in Nat /\ source.id \in Nat
  BY TypeParts, IdTypes
<1>1. ASSUME NEW a \in Addr, HitBreakpoint(a) PROVE AInv'
  BY <1>1, SameIds DEF HitBreakpoint
<1>2. ASSUME ReceiveSignal PROVE AInv'
  BY <1>2, SameIds DEF ReceiveSignal
<1>3. ASSUME DequeueSignal PROVE AInv'
  BY <1>3, SameIds DEF DequeueSignal
<1>4. ASSUME ExitProcess PROVE AInv'
  BY <1>4, SameIds DEF ExitProcess
<1>5. ASSUME NEW v \in Verbs, Refuse(v) PROVE AInv'
  BY <1>5, SameIds DEF Refuse, Receive, id
<1>6. ASSUME StopTarget PROVE AInv'
  <2>1. /\ sent' = sent + 1 /\ pending_pause' = 0 /\ pending_step' = 0
        /\ pending_nexti'.id = 0 /\ source' = source /\ open \ {0} \subseteq open'
    BY <1>6, NothingPending, NextiIds DEF StopTarget, Receive, id
  <2>2. 0 \notin {pending_pause', pending_step', pending_nexti'.id, source'.id} \ {0}
    BY <1>0, <2>1 DEF AInv, IdsDiffer
  <2> QED
    BY <2>1, <2>2, KeepIds
<1>7. ASSUME PauseTarget PROVE AInv'
  <2>1. id \in 1 .. MaxCommands /\ id > sent /\ sent' = id
    BY <1>0, <1>7, NewId DEF PauseTarget
  <2>2. id \in Nat
    BY <2>1 DEF Constants
  <2>3. IdsDiffer'
    BY <1>0, <1>7, <2>1, <2>2 DEF PauseTarget, AInv, IdsDiffer
  <2>4. PendingOpen'
    BY <1>0, <1>7, <2>1, <2>2 DEF PauseTarget, AInv, PendingOpen
  <2> QED
    BY <2>3, <2>4 DEF AInv
<1>8. ASSUME Resume PROVE AInv'
  BY <1>8, SameIds DEF Resume, Receive, id
<1>9. ASSUME Continue PROVE AInv'
  <2>1. /\ sent' = sent + 1 /\ pending_pause' = pending_pause /\ pending_step' = pending_step
        /\ pending_nexti'.id = 0 /\ source' = source /\ open \ {0} \subseteq open'
    BY <1>9, NothingPending, NextiIds DEF Continue, Receive, id
  <2>2. 0 \notin {pending_pause', pending_step', pending_nexti'.id, source'.id} \ {0}
    BY <1>0, <2>1 DEF AInv, IdsDiffer
  <2> QED
    BY <1>0, <2>1, <2>2, KeepIds
<1>10. ASSUME StepAllocatorEvent PROVE AInv'
  <2>1. id \in 1 .. MaxCommands /\ id > sent /\ sent' = id
    BY <1>0, <1>10, NewId DEF StepAllocatorEvent
  <2>2. id \in Nat
    BY <2>1 DEF Constants
  <2>3. IdsDiffer'
    BY <1>0, <1>10, <2>1, <2>2 DEF StepAllocatorEvent, AInv, IdsDiffer
  <2>4. PendingOpen'
    BY <1>0, <1>10, <2>1, <2>2 DEF StepAllocatorEvent, AInv, PendingOpen
  <2> QED
    BY <2>3, <2>4 DEF AInv
<1>11. ASSUME StepInstruction PROVE AInv'
  BY <1>11, SameIds DEF StepInstruction, Receive, id
<1>12. ASSUME NEW a \in Addr, StepInstructionOverCall(a) PROVE AInv'
  <2>1. id \in 1 .. MaxCommands /\ id > sent /\ sent' = id
    BY <1>0, <1>12, NewId DEF StepInstructionOverCall
  <2>2. id \in Nat
    BY <2>1 DEF Constants
  <2>3. pending_nexti'.id = id
    BY <1>12, <2>1, NextiValue DEF StepInstructionOverCall, Constants
  <2>4. IdsDiffer'
    BY <1>0, <1>12, <2>1, <2>2, <2>3 DEF StepInstructionOverCall, AInv, IdsDiffer
  <2>5. PendingOpen'
    BY <1>0, <1>12, <2>1, <2>2, <2>3 DEF StepInstructionOverCall, AInv, PendingOpen
  <2> QED
    BY <2>4, <2>5 DEF AInv
<1>13. ASSUME NEW a \in Addr, ToggleUserBreakpoint(a) PROVE AInv'
  BY <1>13, SameIds DEF ToggleUserBreakpoint, Receive, id
<1>14. ASSUME NEW kind \in {"Into", "Over"}, StartSourceStep(kind) PROVE AInv'
  <2>1. id \in 1 .. MaxCommands /\ id > sent /\ sent' = id
    BY <1>0, <1>14, NewId DEF StartSourceStep
  <2>2. id \in Nat
    BY <2>1 DEF Constants
  <2>3. source'.id = id
    BY <1>14, <2>1, SourceValue DEF StartSourceStep, Constants
  <2>4. IdsDiffer'
    BY <1>0, <1>14, <2>1, <2>2, <2>3 DEF StartSourceStep, AInv, IdsDiffer
  <2>5. PendingOpen'
    BY <1>0, <1>14, <2>1, <2>2, <2>3 DEF StartSourceStep, AInv, PendingOpen
  <2> QED
    BY <2>4, <2>5 DEF AInv
<1>15. ASSUME NEW a \in Addr, NextiHit(a) PROVE AInv'
  <2>1. /\ sent' = sent /\ pending_pause' = pending_pause /\ pending_step' = pending_step
        /\ pending_nexti'.id = 0 /\ source' = source /\ open \ {pending_nexti.id} \subseteq open'
    BY <1>15, NothingPending DEF NextiHit
  <2>2. pending_nexti.id \notin {pending_pause', pending_step', pending_nexti'.id, source'.id} \ {0}
    BY <1>0, <2>1 DEF AInv, IdsDiffer
  <2> QED
    BY <2>1, <2>2, KeepIds
<1>16. ASSUME NEW a \in Addr, UserHit(a) PROVE AInv'
  <2>1. /\ sent' = sent /\ pending_pause' = pending_pause /\ pending_step' = 0
        /\ pending_nexti' = pending_nexti /\ source' = source /\ open' = open
    BY <1>16, NothingPending DEF UserHit
  <2>2. 0 \notin {pending_pause', pending_step', pending_nexti'.id, source'.id} \ {0}
    BY <1>0, <2>1 DEF AInv, IdsDiffer
  <2> QED
    BY <2>1, <2>2, KeepIds
<1>17. ASSUME NEW a \in Addr, ManagedHit(a) PROVE AInv'
  <2>1. CASE UNCHANGED <<mode, pending_step, pending_nexti, overs, open>>
    <3>1. /\ sent' = sent /\ pending_pause' = pending_pause /\ pending_step' = pending_step
        /\ pending_nexti' = pending_nexti /\ source' = source /\ open' = open
      BY <1>17, <2>1, NothingPending, NextiIds DEF ManagedHit, PauseAfterEvent
    <3>2. 0 \notin {pending_pause', pending_step', pending_nexti'.id, source'.id} \ {0}
      BY <1>0, <3>1 DEF AInv, IdsDiffer
    <3> QED
      BY <3>1, <3>2, KeepIds
  <2>2. CASE PauseAfterEvent("Pause")
    <3>1. /\ sent' = sent /\ pending_pause' = pending_pause /\ pending_step' = 0
        /\ pending_nexti'.id = 0 /\ source' = source /\ open \ {pending_nexti.id} \subseteq open'
      BY <1>17, <2>2, NothingPending, NextiIds DEF ManagedHit, PauseAfterEvent
    <3>2. pending_nexti.id \notin {pending_pause', pending_step', pending_nexti'.id, source'.id} \ {0}
      BY <1>0, <3>1 DEF AInv, IdsDiffer
    <3> QED
      BY <3>1, <3>2, KeepIds
  <2>3. CASE PauseAfterEvent("Continue")
    <3>1. /\ sent' = sent /\ pending_pause' = pending_pause /\ pending_step' = 0
        /\ pending_nexti' = pending_nexti /\ source' = source /\ open \ {pending_step} \subseteq open'
      BY <1>17, <2>3, NothingPending, NextiIds DEF ManagedHit, PauseAfterEvent
    <3>2. pending_step \notin {pending_pause', pending_step', pending_nexti'.id, source'.id} \ {0}
      BY <1>0, <3>1 DEF AInv, IdsDiffer
    <3> QED
      BY <3>1, <3>2, KeepIds
  <2> QED
    BY <1>17, <2>1, <2>2, <2>3 DEF ManagedHit, PauseAfterEvent
<1>18. ASSUME NEW a \in Addr, FailedHit(a) PROVE AInv'
  BY <1>18, SameIds DEF FailedHit, Fail, StepLost
<1>19. ASSUME PauseStop PROVE AInv'
  <2>1. /\ sent' = sent /\ pending_pause' = 0 /\ pending_step' = pending_step
        /\ pending_nexti' = pending_nexti /\ source' = source /\ open \ {pending_pause} \subseteq open'
    BY <1>19, NothingPending DEF PauseStop
  <2>2. pending_pause \notin {pending_pause', pending_step', pending_nexti'.id, source'.id} \ {0}
    BY <1>0, <2>1 DEF AInv, IdsDiffer
  <2> QED
    BY <2>1, <2>2, KeepIds
<1>20. ASSUME SignalStop PROVE AInv'
  <2>1. CASE pending_nexti = NoNexti
    <3>1. /\ sent' = sent /\ pending_pause' = pending_pause /\ pending_step' = pending_step
        /\ pending_nexti' = pending_nexti /\ source' = source /\ open' = open
      BY <1>20, <2>1, NothingPending, NextiIds DEF SignalStop
    <3>2. 0 \notin {pending_pause', pending_step', pending_nexti'.id, source'.id} \ {0}
      BY <1>0, <3>1 DEF AInv, IdsDiffer
    <3> QED
      BY <3>1, <3>2, KeepIds
  <2>2. CASE pending_nexti # NoNexti
    <3>1. /\ sent' = sent /\ pending_pause' = pending_pause /\ pending_step' = pending_step
        /\ pending_nexti'.id = 0 /\ source' = source /\ open \ {pending_nexti.id} \subseteq open'
      BY <1>20, <2>2, NothingPending, NextiIds DEF SignalStop
    <3>2. pending_nexti.id \notin {pending_pause', pending_step', pending_nexti'.id, source'.id} \ {0}
      BY <1>0, <3>1 DEF AInv, IdsDiffer
    <3> QED
      BY <3>1, <3>2, KeepIds
  <2> QED
    BY <1>20, <2>1, <2>2 DEF SignalStop
<1>21. ASSUME ReapExit PROVE AInv'
  BY <1>21, SameIds DEF ReapExit
<1>22. ASSUME NoChild PROVE AInv'
  BY <1>22, SameIds DEF NoChild, Fail
<1>23. ASSUME AfterHit PROVE AInv'
  BY <1>23, SameIds DEF AfterHit
<1>24. ASSUME SourceInstruction PROVE AInv'
  <2>1. CASE SourceGoesOn /\ UNCHANGED source
    <3>1. /\ sent' = sent /\ pending_pause' = pending_pause /\ pending_step' = pending_step
        /\ pending_nexti' = pending_nexti /\ source'.id = source.id /\ open \ {0} \subseteq open'
      BY <2>1 DEF SourceGoesOn, pending
    <3>2. 0 \notin {pending_pause', pending_step', pending_nexti'.id, source'.id} \ {0}
      BY <1>0, <3>1 DEF AInv, IdsDiffer
    <3> QED
      BY <3>1, <3>2, KeepIds
  <2>2. CASE SourceReturn("Paused")
    <3>1. /\ sent' = sent /\ pending_pause' = pending_pause /\ pending_step' = pending_step
        /\ pending_nexti' = pending_nexti /\ source'.id = 0 /\ open \ {source.id} \subseteq open'
      BY <1>24, <2>2, NothingPending DEF SourceInstruction, SourceReturn, SourceGoesOn
    <3>2. source.id \notin {pending_pause', pending_step', pending_nexti'.id, source'.id} \ {0}
      BY <1>0, <3>1 DEF AInv, IdsDiffer
    <3> QED
      BY <3>1, <3>2, KeepIds
  <2> QED
    BY <1>24, <2>1, <2>2 DEF SourceInstruction
<1>25. ASSUME SourceCallReturns PROVE AInv'
  <2>1. CASE SourceGoesOn /\ source' = [source EXCEPT !.phase = "step", !.addr = Elsewhere]
    <3>1. /\ sent' = sent /\ pending_pause' = pending_pause /\ pending_step' = pending_step
        /\ pending_nexti' = pending_nexti /\ source'.id = source.id /\ open \ {0} \subseteq open'
      BY <1>0, <1>25, <2>1, CallOpen, SourceMoves DEF SourceCallReturns, SourceGoesOn, WaitsOK, pending
    <3>2. 0 \notin {pending_pause', pending_step', pending_nexti'.id, source'.id} \ {0}
      BY <1>0, <3>1 DEF AInv, IdsDiffer
    <3> QED
      BY <3>1, <3>2, KeepIds
  <2>2. CASE SourceReturn("Paused")
    <3>1. /\ sent' = sent /\ pending_pause' = pending_pause /\ pending_step' = pending_step
        /\ pending_nexti' = pending_nexti /\ source'.id = 0 /\ open \ {source.id} \subseteq open'
      BY <1>25, <2>2, NothingPending DEF SourceCallReturns, SourceReturn, SourceGoesOn
    <3>2. source.id \notin {pending_pause', pending_step', pending_nexti'.id, source'.id} \ {0}
      BY <1>0, <3>1 DEF AInv, IdsDiffer
    <3> QED
      BY <3>1, <3>2, KeepIds
  <2> QED
    BY <1>25, <2>1, <2>2 DEF SourceCallReturns
<1>26. ASSUME SourceCallSignalled PROVE AInv'
  <2>1. /\ sent' = sent /\ pending_pause' = pending_pause /\ pending_step' = pending_step
        /\ pending_nexti' = pending_nexti /\ source'.id = 0 /\ open \ {source.id} \subseteq open'
    BY <1>26, NothingPending DEF SourceCallSignalled, SourceReturn
  <2>2. source.id \notin {pending_pause', pending_step', pending_nexti'.id, source'.id} \ {0}
    BY <1>0, <2>1 DEF AInv, IdsDiffer
  <2> QED
    BY <2>1, <2>2, KeepIds
<1>27. ASSUME SourceCallExits PROVE AInv'
  <2>1. /\ sent' = sent /\ pending_pause' = pending_pause /\ pending_step' = pending_step
        /\ pending_nexti' = pending_nexti /\ source'.id = 0 /\ open \ {source.id} \subseteq open'
    BY <1>27, NothingPending DEF SourceCallExits, SourceReturn
  <2>2. source.id \notin {pending_pause', pending_step', pending_nexti'.id, source'.id} \ {0}
    BY <1>0, <2>1 DEF AInv, IdsDiffer
  <2> QED
    BY <2>1, <2>2, KeepIds
<1>28. ASSUME NEW a \in Addr, SourceCall(a) PROVE AInv'
  <2>1. source'.id = source.id
    BY <1>0, <1>28, SourceMoves DEF SourceCall, WaitsOK
  <2> QED
    BY <1>28, <2>1, SameIds DEF SourceCall, SourceGoesOn
<1>29. ASSUME NEW a \in Addr, SourceCallHit(a) PROVE AInv'
  <2>1. CASE SourceGoesOn /\ UNCHANGED source
    <3>1. /\ sent' = sent /\ pending_pause' = pending_pause /\ pending_step' = pending_step
        /\ pending_nexti' = pending_nexti /\ source'.id = source.id /\ open \ {0} \subseteq open'
      BY <2>1 DEF SourceGoesOn, pending
    <3>2. 0 \notin {pending_pause', pending_step', pending_nexti'.id, source'.id} \ {0}
      BY <1>0, <3>1 DEF AInv, IdsDiffer
    <3> QED
      BY <3>1, <3>2, KeepIds
  <2>2. CASE SourceReturn("Paused")
    <3>1. /\ sent' = sent /\ pending_pause' = pending_pause /\ pending_step' = pending_step
        /\ pending_nexti' = pending_nexti /\ source'.id = 0 /\ open \ {source.id} \subseteq open'
      BY <1>29, <2>2, NothingPending DEF SourceCallHit, SourceReturn, SourceGoesOn
    <3>2. source.id \notin {pending_pause', pending_step', pending_nexti'.id, source'.id} \ {0}
      BY <1>0, <3>1 DEF AInv, IdsDiffer
    <3> QED
      BY <3>1, <3>2, KeepIds
  <2> QED
    BY <1>29, <2>1, <2>2 DEF SourceCallHit
<1>30. ASSUME NEW a \in Addr, SourceFails(a) PROVE AInv'
  BY <1>30, SameIds DEF SourceFails, Fail, StepLost
<1>31. ASSUME GraceElapsed PROVE AInv'
  BY <1>31, SameIds DEF GraceElapsed
<1>32. CASE UNCHANGED vars
  BY <1>0, <1>32, SameIds DEF vars
<1> QED
  BY <1>1, <1>2, <1>3, <1>4, <1>5, <1>6, <1>7, <1>8, <1>9, <1>10, <1>11, <1>12, <1>13, <1>14, <1>15, <1>16, <1>17, <1>18, <1>19, <1>20, <1>21, <1>22, <1>23, <1>24, <1>25, <1>26, <1>27, <1>28, <1>29, <1>30, <1>31, <1>32
  DEF Next, Target, Command, Worker, Reap, SourceStepping

-----------------------------------------------------------------------------
(* The theorems *)

\* A trace that begins runs, waits for nothing and owes no answer.
LEMMA InitAll ==
  ASSUME Constants, Init
  PROVE  TInv /\ HInv /\ AInv
<1>1. TypeOK
  <2>1. TargetOK /\ LoopOK /\ FlagsOK
    BY DEF Init, TargetOK, LoopOK, FlagsOK, Statuses
  <2>2. ClaimsOK
    BY DEF Init, ClaimsOK
  <2>3. WaitsOK /\ CommandsOK
    BY NothingPending DEF Init, WaitsOK, CommandsOK, Constants
  <2> QED
    BY <2>1, <2>2, <2>3, TypeParts
<1>2. SourceOpen /\ NextiOpen
  BY DEF Init, SourceOpen, NextiOpen
<1>3. ReportFits /\ PausedHeld /\ HeldIffPaused
  BY Reports DEF Init, ReportFits, PausedHeld, HeldIffPaused
<1>4. StatusHonest
  BY DEF Init, StatusHonest
<1>5. IdsDiffer /\ PendingOpen
  BY NothingPending DEF Init, IdsDiffer, PendingOpen
<1> QED
  BY <1>1, <1>2, <1>3, <1>4, <1>5 DEF TInv, HInv, AInv

\* The three invariants are inductive together.
LEMMA StepAll ==
  ASSUME Constants, TInv, HInv, AInv, [Next]_vars
  PROVE  TInv' /\ HInv' /\ AInv'
<1>1. TypeOK' /\ SourceOpen' /\ NextiOpen'
  BY TypeStep, OpenStep DEF TInv
<1>2. HInv'
  BY <1>1, HeldStep DEF TInv
<1>3. AInv'
  BY AnswerStep DEF TInv
<1> QED
  BY <1>1, <1>2, <1>3 DEF TInv

\* The worker keeps its types, its claims, its grip on the process and its debts
\* to the interface, whatever the kernel reports and the user types.
THEOREM WorkerKeeps == ASSUME Constants PROVE Spec => [](TInv /\ HInv /\ AInv)
<1>1. Init => TInv /\ HInv /\ AInv
  BY InitAll
<1>2. TInv /\ HInv /\ AInv /\ [Next]_vars => TInv' /\ HInv' /\ AInv'
  BY StepAll
<1> QED
  BY <1>1, <1>2, PTL DEF Spec

\* The run's TypeOK for every instance: no counter of step-overs falls below zero, and no
\* command is answered that was not sent.
COROLLARY WorkerTyped == ASSUME Constants PROVE Spec => []TypeOK
<1>1. TInv => TypeOK
  BY DEF TInv
<1> QED
  BY <1>1, WorkerKeeps, PTL

\* The run's HeldIffPaused for every instance: the loop polls on while the process stands still
\* only if it is paused, and a paused process does not run (lib.rs:1478-1810).
THEOREM HeldKnown == ASSUME Constants PROVE Spec => []HeldIffPaused
<1>1. HInv => HeldIffPaused
  BY DEF HInv
<1> QED
  BY <1>1, WorkerKeeps, PTL

\* The run's StatusHonest for every instance: the status that goes with every answer tells whether
\* the worker holds the process, for every order of hits, signals and commands.
THEOREM StatusTrue == ASSUME Constants PROVE Spec => []StatusHonest
<1>1. HInv => StatusHonest
  BY DEF HInv
<1> QED
  BY <1>1, WorkerKeeps, PTL

\* The run's NextiTrapped for every instance: nobody takes the breakpoint a nexti waits for, not
\* even a source step that stepped over a call to the same return address.
THEOREM NextiKeepsTrap == ASSUME Constants PROVE Spec => []NextiTrapped
<1>1. TInv => NextiTrapped
  BY NothingPending DEF TInv, NextiOpen, NextiTrapped
<1> QED
  BY <1>1, WorkerKeeps, PTL

\* The run's PendingOpen for every instance: no command is answered twice, although a pause, a
\* step to an allocator event and a nexti may all be pending at once.
THEOREM AnsweredOnce == ASSUME Constants PROVE Spec => []PendingOpen
<1>1. AInv => PendingOpen
  BY DEF AInv
<1> QED
  BY <1>1, WorkerKeeps, PTL

-----------------------------------------------------------------------------
(* The loop of TraceWorker implements LiveWorker: it keeps what the        *)
(* terminal interface is promised (lib.rs:1478-3150), whatever the process *)
(* does.  First the records of LiveWorker and their moves, one lemma per   *)
(* kind of move; then PInv, what a held process shows; then one step per   *)
(* action.                                                                 *)

\* A worker of LiveWorker.
Owed == {"Pause", "StepAllocatorEvent", "StepInstructionOver"}
Views ==
  [status : Statuses, held : BOOLEAN, pending : SUBSET Owed, stopping : BOOLEAN,
   stepping : {"none", "SourceStep", "SourceStepOver"}, lost : BOOLEAN, over : BOOLEAN]

\* The source step the worker is busy with; the process gone behind its back.
Underway ==
  CASE source = NoSource     -> "none"
    [] source.kind = "Over"  -> "SourceStepOver"
    [] OTHER                 -> "SourceStep"
Lost == Busy /\ tgt = "gone" /\ report = NoReport

\* The worker may turn from w into v.
May(w, v) == \E o \in W!Steps(w) : v = o.worker

\* Workers with the same fields are the same.
LEMMA SameView ==
  ASSUME NEW v \in Views, NEW w \in Views, v.status = w.status, v.held <=> w.held, v.pending = w.pending,
         v.stopping <=> w.stopping, v.stepping = w.stepping, v.lost <=> w.lost, v.over <=> w.over
  PROVE  v = w
<1>1. v.held = w.held /\ v.stopping = w.stopping /\ v.lost = w.lost /\ v.over = w.over
  BY DEF Views
<1> QED
  BY <1>1 DEF Views

\* What a step makes of a worker.
LEMMA OutIs ==
  ASSUME NEW w, NEW said, NEW cause
  PROVE  W!Out(w, said, cause).worker = w
BY DEF W!Out

\* A worker that takes hold of the process.
LEMMA HoldingIs ==
  ASSUME NEW w \in Views, NEW gone
  PROVE  LET v == W!Holding(w, gone)
         IN  /\ v \in Views /\ v.status = "Paused" /\ v.held /\ v.pending = w.pending \ gone
             /\ v.stopping = w.stopping /\ v.stepping = w.stepping /\ v.lost = w.lost
             /\ v.over = w.over
<1> DEFINE v == W!Holding(w, gone)
<1>1. v \in Views
  BY DEF W!Holding, Views, Statuses
<1>2. v.status = "Paused" /\ v.pending = w.pending \ gone
  BY DEF W!Holding, Views
<1>3. v.held
  BY DEF W!Holding, Views
<1>4. v.stopping = w.stopping /\ v.stepping = w.stepping /\ v.lost = w.lost /\ v.over = w.over
  BY DEF W!Holding, Views
<1> QED
  BY <1>1, <1>2, <1>3, <1>4

\* A worker that lets the process go.
LEMMA GoingIs ==
  ASSUME NEW w \in Views, NEW status \in Statuses
  PROVE  LET v == W!Going(w, status)
         IN  /\ v \in Views /\ v.status = status /\ ~v.held /\ v.pending = w.pending
             /\ v.stopping = w.stopping /\ v.stepping = w.stepping /\ v.lost = w.lost
             /\ v.over = w.over
BY DEF W!Going, Views

\* A worker whose trace has ended.
LEMMA EndedIs ==
  ASSUME NEW w \in Views
  PROVE  LET v == W!Ended(w)
         IN  /\ v \in Views /\ v.status = "Exited" /\ ~v.held /\ v.pending = w.pending
             /\ v.stopping = w.stopping /\ v.stepping = w.stepping /\ ~v.lost /\ v.over
<1> DEFINE v == W!Ended(w)
<1>1. v \in Views
  BY DEF W!Ended, Views, Statuses
<1>2. v.status = "Exited" /\ v.pending = w.pending /\ v.stepping = w.stepping
      /\ v.stopping = w.stopping
  BY DEF W!Ended, Views
<1>3. ~v.held /\ ~v.lost
  BY DEF W!Ended, Views
<1>4. v.over
  BY DEF W!Ended, Views
<1> QED
  BY <1>1, <1>2, <1>3, <1>4

\* The worker the loop shows, field by field.
LEMMA PromisedIs ==
  ASSUME TypeOK
  PROVE  /\ Promised \in Views /\ Promised.status = target_status /\ (Promised.held <=> paused)
         /\ Promised.pending = Pending /\ (Promised.stopping <=> stop_requested)
         /\ Promised.stepping = Underway /\ (Underway = "none" <=> source = NoSource)
         /\ (Promised.lost <=> Lost) /\ (Promised.over <=> ~Busy)
<1>1. target_status \in Statuses /\ paused \in BOOLEAN /\ stop_requested \in BOOLEAN
  BY DEF TypeOK
<1>2. Pending \subseteq Owed
  BY DEF Pending, Owed
<1>3. Promised \in Views
  BY <1>1, <1>2 DEF Promised, Views
<1>4. /\ Promised.status = target_status /\ (Promised.held <=> paused)
      /\ Promised.pending = Pending /\ (Promised.stopping <=> stop_requested)
  BY <1>1 DEF Promised
<1>5. Promised.stepping = Underway
  BY DEF Promised, Underway
<1>6. Underway = "none" <=> source = NoSource
  BY DEF Underway, NoSource, Source
<1>7. Promised.lost <=> Lost
  BY DEF Promised, Lost
<1>8. Promised.over <=> ~Busy
  BY DEF Promised
<1> QED
  BY <1>3, <1>4, <1>5, <1>6, <1>7, <1>8

\* The same after a step.
LEMMA PromisedThen ==
  ASSUME TypeOK'
  PROVE  /\ Promised' \in Views /\ Promised'.status = target_status' /\ (Promised'.held <=> paused')
         /\ Promised'.pending = Pending' /\ (Promised'.stopping <=> stop_requested')
         /\ Promised'.stepping = Underway' /\ (Underway' = "none" <=> source' = NoSource)
         /\ (Promised'.lost <=> Lost') /\ (Promised'.over <=> ~Busy')
<1>1. target_status' \in Statuses /\ paused' \in BOOLEAN /\ stop_requested' \in BOOLEAN
  BY DEF TypeOK
<1>2. Pending' \subseteq Owed
  BY DEF Pending, Owed
<1>3. Promised' \in Views
  BY <1>1, <1>2 DEF Promised, Views
<1>4. /\ Promised'.status = target_status' /\ (Promised'.held <=> paused')
      /\ Promised'.pending = Pending' /\ (Promised'.stopping <=> stop_requested')
  BY <1>1 DEF Promised
<1>5. Promised'.stepping = Underway'
  BY DEF Promised, Underway
<1>6. Underway' = "none" <=> source' = NoSource
  BY DEF Underway, NoSource, Source
<1>7. Promised'.lost <=> Lost'
  BY DEF Promised, Lost
<1>8. Promised'.over <=> ~Busy'
  BY DEF Promised
<1> QED
  BY <1>3, <1>4, <1>5, <1>6, <1>7, <1>8

-----------------------------------------------------------------------------
(* The moves of a worker *)

\* It waits for a process that is there; it turns from w into v.
Free(w) == ~w.over /\ ~w.held /\ w.stepping = "none" /\ ~w.lost
Becomes(w, v, status, held, owed) ==
  /\ v.status = status /\ (v.held <=> held) /\ v.pending = owed
  /\ (v.stopping <=> w.stopping) /\ v.stepping = w.stepping
  /\ (v.lost <=> w.lost) /\ (v.over <=> w.over)

\* A worker is its fields.
LEMMA BecomesOne ==
  ASSUME NEW w, NEW v \in Views, NEW u \in Views, NEW status, NEW held, NEW owed,
         Becomes(w, v, status, held, owed), Becomes(w, u, status, held, owed)
  PROVE  v = u
BY SameView DEF Becomes

\* What a worker does of its own accord is a move.
LEMMA FromOwn ==
  ASSUME NEW w, NEW o \in W!Own(w, <<>>, <<>>, W!Match("none"))
  PROVE  May(w, o.worker)
BY DEF W!Steps, May

\* What a worker answers is a move.
LEMMA FromAnswer ==
  ASSUME NEW w, ~w.over, w.stepping = "none", NEW verb \in W!Controls, NEW o \in W!Answer(w, verb)
  PROVE  May(w, o.worker)
BY DEF W!Steps, May

\* A hit, a pause, a break condition or a nexti that came back takes hold.
LEMMA MayHold ==
  ASSUME NEW w \in Views, NEW v \in Views, Free(w), NEW gone,
         Becomes(w, v, "Paused", TRUE, w.pending \ gone),
         \/ gone \in {{"Pause"}, {"StepAllocatorEvent"}, {"StepAllocatorEvent", "StepInstructionOver"}}
         \/ gone = {"StepInstructionOver"} /\ "StepInstructionOver" \in w.pending
  PROVE  May(w, v)
<1> DEFINE match == W!Match("none")
           u == W!Holding(w, gone)
<1>1. v = u
  <2>1. u \in Views /\ Becomes(w, u, "Paused", TRUE, w.pending \ gone)
    BY HoldingIs DEF Becomes
  <2> QED
    BY <2>1, BecomesOne
<1>2. ASSUME gone = {"Pause"} PROVE \E o \in W!Own(w, <<>>, <<>>, match) : o.worker = u
  <2> DEFINE o == W!Out(u, <<W!Say("Pause", "Completed", "Paused", "other")>>, "Pause")
  <2>1. o \in W!PauseOutcomes(w)
    BY <1>2 DEF W!PauseOutcomes
  <2>2. o \in W!Own(w, <<>>, <<>>, match)
    BY <2>1 DEF W!Own, Free
  <2> QED
    BY <2>2, OutIs
<1>3. ASSUME gone = {"StepAllocatorEvent"}
      PROVE \E o \in W!Own(w, <<>>, <<>>, match) : o.worker = u
  <2> DEFINE o == W!Out(u, <<>> \o W!HitSaid(<<>>) \o W!HitReported, "breakpoint")
  <2>1. o \in W!HitOutcomes(w, <<>>, <<>>, match)
    BY <1>3 DEF W!HitOutcomes, W!Before
  <2>2. o \in W!Own(w, <<>>, <<>>, match)
    BY <2>1 DEF W!Own, Free
  <2> QED
    BY <2>2, OutIs
<1>4. ASSUME gone = {"StepAllocatorEvent", "StepInstructionOver"}
      PROVE \E o \in W!Own(w, <<>>, <<>>, match) : o.worker = u
  <2> DEFINE said == <<>> \o <<match>> \o
                       (IF "StepInstructionOver" \in w.pending
                        THEN <<W!Say("StepInstructionOver", "Failed", "Paused", "other")>> ELSE <<>>)
             o == W!Out(u, said, "condition")
  <2>1. o \in W!EventOutcomes(w, <<>>, match)
    BY <1>4 DEF W!EventOutcomes
  <2>2. o \in W!Own(w, <<>>, <<>>, match)
    BY <2>1 DEF W!Own, Free
  <2> QED
    BY <2>2, OutIs
<1>5. ASSUME gone = {"StepInstructionOver"}, "StepInstructionOver" \in w.pending
      PROVE \E o \in W!Own(w, <<>>, <<>>, match) : o.worker = u
  <2> DEFINE o == W!Out(u, <<W!Say("StepInstructionOver", "Failed", "Paused", "signal")>>, "signal")
  <2>1. o \in W!NextiOutcomes(w)
    BY <1>5 DEF W!NextiOutcomes
  <2>2. o \in W!Own(w, <<>>, <<>>, match)
    BY <2>1 DEF W!Own, Free
  <2> QED
    BY <2>2, OutIs
<1> HIDE DEF u, match
<1>6. \E o \in W!Own(w, <<>>, <<>>, W!Match("none")) : o.worker = u
  BY <1>2, <1>3, <1>4, <1>5 DEF match
<1> QED
  BY <1>1, <1>6, FromOwn

\* The trace is over, with the process or with an error.
EndedFrom(w, v) ==
  /\ v.status = "Exited" /\ ~v.held /\ v.pending = w.pending
  /\ (v.stopping <=> w.stopping) /\ v.stepping = w.stepping /\ ~v.lost /\ v.over
FailedFrom(w, v) ==
  /\ v.status = w.status /\ (v.held <=> w.held) /\ v.pending = w.pending
  /\ (v.stopping <=> w.stopping) /\ v.stepping = w.stepping /\ ~v.lost /\ v.over

\* A worker whose trace failed.
LEMMA FailsIs ==
  ASSUME NEW w \in Views
  PROVE  LET v == W!Fails(w).worker IN v \in Views /\ FailedFrom(w, v)
<1> DEFINE v == [w EXCEPT !.over = TRUE, !.lost = FALSE]
<1>1. v \in Views
  BY DEF Views
<1>2. v.status = w.status /\ v.held = w.held /\ v.pending = w.pending
      /\ v.stopping = w.stopping /\ v.stepping = w.stepping
  BY DEF Views
<1>3. ~v.lost
  BY DEF Views
<1>4. v.over
  BY DEF Views
<1>5. W!Fails(w).worker = v
  BY OutIs DEF W!Fails
<1> HIDE DEF v
<1> QED
  BY <1>1, <1>2, <1>3, <1>4, <1>5 DEF FailedFrom

\* The trace may fail.
LEMMA MayFail ==
  ASSUME NEW w \in Views, NEW v \in Views, ~w.over, ~w.held \/ w.stepping # "none", FailedFrom(w, v)
  PROVE  May(w, v)
<1>1. v = W!Fails(w).worker
  BY FailsIs, SameView DEF FailedFrom
<1>2. W!Fails(w) \in W!Own(w, <<>>, <<>>, W!Match("none"))
  BY DEF W!Own, W!SourceOutcomes
<1> QED
  BY <1>1, <1>2, FromOwn

\* The process may exit.
LEMMA MayEnd ==
  ASSUME NEW w \in Views, NEW v \in Views, Free(w), EndedFrom(w, v)
  PROVE  May(w, v)
<1>1. v = W!Ended(w)
  <2>1. W!Ended(w) \in Views /\ EndedFrom(w, W!Ended(w))
    BY EndedIs DEF EndedFrom
  <2> QED
    BY <2>1, SameView DEF EndedFrom
<1> DEFINE o == W!Out(W!Ended(w), <<W!Say("none", "Completed", "Exited", "other"), W!End>>, "none")
<1>2. o \in W!ExitOutcomes(w)
  BY DEF W!ExitOutcomes
<1>3. o \in W!Own(w, <<>>, <<>>, W!Match("none"))
  BY <1>2 DEF W!Own, Free
<1> QED
  BY <1>1, <1>3, FromOwn, OutIs

\* The grace period is over.
LEMMA MayKill ==
  ASSUME NEW w \in Views, NEW v \in Views, Free(w), w.stopping,
         v.status = "Stopping", ~v.held, v.pending = w.pending, ~v.stopping,
         v.stepping = w.stepping, ~v.lost, ~v.over
  PROVE  May(w, v)
<1> DEFINE u == [w EXCEPT !.status = "Stopping", !.stopping = FALSE]
<1>1. u \in Views
  BY DEF Views, Statuses
<1>2. u.status = "Stopping" /\ u.held = w.held /\ u.pending = w.pending
      /\ u.stepping = w.stepping /\ u.lost = w.lost /\ u.over = w.over
  BY DEF Views
<1>3. ~u.stopping
  BY DEF Views
<1> HIDE DEF u
<1>4. v = u
  BY <1>1, <1>2, <1>3, SameView DEF Free
<1> DEFINE o == W!Out(u, <<W!Say("none", "Completed", "Stopping", "other")>>, "none")
<1>5. o \in W!GraceOutcomes(w)
  BY DEF W!GraceOutcomes, u
<1>6. o \in W!Own(w, <<>>, <<>>, W!Match("none"))
  BY <1>5 DEF W!Own, Free
<1> QED
  BY <1>4, <1>6, FromOwn, OutIs

\* A source step comes back, with the process or without it.
LEMMA MayReturn ==
  ASSUME NEW w \in Views, NEW v \in Views, ~w.over, w.stepping # "none",
         v.held, v.pending = w.pending, v.stopping <=> w.stopping, v.stepping = "none", ~v.over,
         \/ v.status = "Paused" /\ (v.lost <=> w.lost)
         \/ v.status \in {"Paused", "Exited"} /\ v.lost
  PROVE  May(w, v)
<1> DEFINE h == W!Holding(w, {})
           back == [h EXCEPT !.stepping = "none"]
           match == W!Match("none")
<1>1. /\ h \in Views /\ h.status = "Paused" /\ h.held /\ h.pending = w.pending
      /\ h.stopping = w.stopping /\ h.stepping = w.stepping /\ h.lost = w.lost /\ h.over = w.over
  <2>1. w.pending \ {} = w.pending
    OBVIOUS
  <2>2. /\ h \in Views /\ h.status = "Paused" /\ h.held /\ h.pending = w.pending \ {}
        /\ h.stopping = w.stopping /\ h.stepping = w.stepping /\ h.lost = w.lost /\ h.over = w.over
    BY ZenonT(60), HoldingIs
  <2> HIDE DEF h
  <2> QED
    BY <2>1, <2>2
<1> HIDE DEF h
<1>2. /\ back \in Views /\ back.status = "Paused" /\ back.pending = w.pending
      /\ back.stopping = w.stopping /\ back.stepping = "none" /\ back.lost = w.lost
      /\ back.over = w.over
  BY <1>1 DEF Views
<1>3. back.held
  BY <1>1 DEF Views
<1>4. ASSUME NEW o \in W!SourceOutcomes(w, <<>>, <<>>, match), o.worker = v PROVE May(w, v)
  <2>1. o \in W!Own(w, <<>>, <<>>, match)
    BY <1>4 DEF W!Own
  <2> QED
    BY <1>4, <2>1, FromOwn
<1>5. CASE v.status = "Paused" /\ (v.lost <=> w.lost)
  <2> DEFINE o == W!Out(back, <<W!Say(w.stepping, "Completed", "Paused", "other")>>, "unexplained")
  <2>1. o \in W!SourceOutcomes(w, <<>>, <<>>, match)
    BY DEF W!SourceOutcomes, h
  <2> HIDE DEF back
  <2>2. back = v
    BY <1>2, <1>3, <1>5, SameView
  <2> QED
    BY <1>4, <2>1, <2>2, OutIs
<1>6. CASE v.status = "Paused" /\ v.lost
  <2> DEFINE u == [back EXCEPT !.lost = TRUE]
             o == W!Out(u, <<W!Say(w.stepping, "Completed", "Exited", "other")>>, "unexplained")
  <2>1. o \in W!SourceOutcomes(w, <<>>, <<>>, match)
    BY DEF W!SourceOutcomes, h
  <2> HIDE DEF back
  <2>2. /\ u \in Views /\ u.status = "Paused" /\ u.pending = w.pending /\ u.held = back.held
        /\ u.stopping = w.stopping /\ u.stepping = "none" /\ u.over = w.over
    BY <1>2 DEF Views
  <2>3. u.lost
    BY <1>2 DEF Views
  <2> HIDE DEF u
  <2>4. u = v
    BY <1>3, <1>6, <2>2, <2>3, SameView
  <2> QED
    BY <1>4, <2>1, <2>4, OutIs
<1>7. CASE v.status = "Exited" /\ v.lost
  <2> DEFINE u == [back EXCEPT !.lost = TRUE, !.status = "Exited"]
             o == W!Out(u, <<W!Say(w.stepping, "Completed", "Exited", "other")>>, "unexplained")
  <2>1. o \in W!SourceOutcomes(w, <<>>, <<>>, match)
    BY DEF W!SourceOutcomes, h
  <2> HIDE DEF back
  <2>2. /\ u \in Views /\ u.status = "Exited" /\ u.pending = w.pending /\ u.held = back.held
        /\ u.stopping = w.stopping /\ u.stepping = "none" /\ u.over = w.over
    BY <1>2 DEF Views, Statuses
  <2>3. u.lost
    BY <1>2 DEF Views
  <2> HIDE DEF u
  <2>4. u = v
    BY <1>3, <1>7, <2>2, <2>3, SameView
  <2> QED
    BY <1>4, <2>1, <2>4, OutIs
<1> QED
  BY <1>5, <1>6, <1>7

-----------------------------------------------------------------------------
(* The answers to commands *)

\* It listens.
Asked(w) == ~w.over /\ w.stepping = "none"

\* A stop lets the process go and drops what is pending.
LEMMA MayStop ==
  ASSUME NEW w \in Views, NEW v \in Views, Asked(w), w.status # "Exited",
         v.status = IF w.stopping THEN w.status ELSE "Stopping",
         ~v.held, v.pending = {}, v.stopping, v.stepping = w.stepping, v.lost <=> w.lost, ~v.over
  PROVE  May(w, v)
<1> DEFINE free  == [w EXCEPT !.held = FALSE, !.pending = {}, !.stopping = TRUE]
           heard == W!Say("Stop", "Accepted", w.status, "other")
<1>1. /\ free \in Views /\ free.pending = {} /\ free.status = w.status
      /\ free.stepping = w.stepping /\ free.lost = w.lost /\ free.over = w.over
  BY DEF Views
<1>2. ~free.held
  BY DEF Views
<1>3. free.stopping
  BY DEF Views
<1>4. "Stop" \in W!Controls /\ W!Valid(w.status, "Stop")
  BY DEF W!Controls, W!Valid
<1>5. W!Answer(w, "Stop") = W!StopAnswer(w)
  BY <1>4 DEF W!Answer
<1>6. CASE w.stopping
  <2> DEFINE o == W!Out(free, <<heard>>, "none")
  <2>1. o \in W!Answer(w, "Stop")
    BY <1>5, <1>6 DEF W!StopAnswer
  <2> HIDE DEF free
  <2>2. v = free
    BY <1>1, <1>2, <1>3, <1>6, SameView DEF Asked
  <2> QED
    BY <1>4, <2>1, <2>2, FromAnswer, OutIs DEF Asked
<1>7. CASE ~w.stopping
  <2> DEFINE u == [free EXCEPT !.status = "Stopping"]
             o == W!Out(u, <<heard, W!Say("Stop", "Completed", "Stopping", "other")>>, "none")
  <2>1. o \in W!Answer(w, "Stop")
    BY <1>5, <1>7 DEF W!StopAnswer
  <2> HIDE DEF free
  <2>2. /\ u \in Views /\ u.pending = {} /\ u.status = "Stopping" /\ u.held = free.held
        /\ u.stopping = free.stopping /\ u.stepping = w.stepping /\ u.lost = w.lost
        /\ u.over = w.over
    BY <1>1 DEF Views, Statuses
  <2> HIDE DEF u
  <2>3. v = u
    BY <1>2, <1>3, <1>7, <2>2, SameView DEF Asked
  <2> QED
    BY <1>4, <2>1, <2>3, FromAnswer, OutIs DEF Asked
<1> QED
  BY <1>6, <1>7

\* A pause is noted.
LEMMA MayAskPause ==
  ASSUME NEW w \in Views, NEW v \in Views, Asked(w), W!Valid(w.status, "Pause"),
         Becomes(w, v, w.status, w.held, w.pending \cup {"Pause"})
  PROVE  May(w, v)
<1> DEFINE u == [w EXCEPT !.pending = @ \cup {"Pause"}]
           o == W!Answered(u, "Pause", "Accepted")
<1>1. u \in Views /\ Becomes(w, u, w.status, w.held, w.pending \cup {"Pause"})
  BY DEF Views, Owed, Becomes
<1>2. "Pause" \in W!Controls
  BY DEF W!Controls
<1>3. o \in W!Answer(w, "Pause")
  BY DEF W!Answer, W!PauseAnswer
<1>4. o.worker = u
  BY OutIs DEF W!Answered
<1> HIDE DEF u
<1>5. v = u
  BY <1>1, BecomesOne
<1> QED
  BY <1>2, <1>3, <1>4, <1>5, FromAnswer DEF Asked

\* A held process is let go: nothing, or a nexti, is given up for it.
LEMMA MayGo ==
  ASSUME NEW w \in Views, NEW v \in Views, Asked(w), w.held, ~w.lost,
         NEW verb \in {"Resume", "Continue"}, W!Valid(w.status, verb),
         Becomes(w, v, "Running", FALSE,
                 IF verb = "Resume" THEN w.pending ELSE w.pending \ {"StepInstructionOver"})
  PROVE  May(w, v)
<1> DEFINE calm == [w EXCEPT !.pending = @ \ {"StepInstructionOver"}]
           base == IF verb = "Resume" THEN w ELSE calm
           u    == W!Going(base, "Running")
           o    == W!Out(u, <<W!Say(verb, "Accepted", w.status, "other"),
                              W!Say(verb, "Completed", "Running", "other")>>, "none")
<1>1. /\ calm \in Views /\ calm.pending = w.pending \ {"StepInstructionOver"}
      /\ calm.status = w.status /\ calm.stopping = w.stopping /\ calm.stepping = w.stepping
      /\ calm.lost = w.lost /\ calm.over = w.over /\ calm.held = w.held
  BY DEF Views
<1>2. o \in W!LetGo(base, verb)
  BY <1>1 DEF W!LetGo
<1>3. o \in W!Answer(w, verb) /\ verb \in W!Controls
  BY <1>2 DEF W!Answer, W!ResumeAnswer, W!ContinueAnswer, W!Controls
<1> HIDE DEF calm
<1>4. base \in Views
  BY <1>1
<1>5. "Running" \in Statuses
  BY DEF Statuses
<1> HIDE DEF u
<1>6. u \in Views /\ u.status = "Running" /\ ~u.held /\ u.pending = base.pending
      /\ u.stopping = base.stopping /\ u.stepping = base.stepping /\ u.lost = base.lost
      /\ u.over = base.over
  BY <1>4, <1>5, GoingIs DEF u
<1>7. Becomes(w, u, "Running", FALSE,
              IF verb = "Resume" THEN w.pending ELSE w.pending \ {"StepInstructionOver"})
  BY <1>1, <1>6 DEF Becomes
<1>8. v = u
  BY <1>6, <1>7, BecomesOne
<1> QED
  BY <1>3, <1>8, FromAnswer, OutIs DEF Asked

\* A continue that finds the process running.
LEMMA MayRunOn ==
  ASSUME NEW w \in Views, NEW v \in Views, Asked(w), ~w.held, W!Valid(w.status, "Continue"),
         Becomes(w, v, "Running", FALSE, w.pending \ {"StepInstructionOver"})
  PROVE  May(w, v)
<1> DEFINE calm == [w EXCEPT !.pending = @ \ {"StepInstructionOver"}]
           u    == [calm EXCEPT !.status = "Running"]
           o    == W!Out(u, <<W!Say("Continue", "Accepted", w.status, "other"),
                              W!Say("Continue", "Completed", "Running", "other")>>, "none")
<1>1. o \in W!Answer(w, "Continue") /\ "Continue" \in W!Controls
  BY DEF W!Answer, W!ContinueAnswer, W!Controls
<1>2. /\ calm \in Views /\ calm.pending = w.pending \ {"StepInstructionOver"}
      /\ calm.stopping = w.stopping /\ calm.stepping = w.stepping
      /\ calm.lost = w.lost /\ calm.over = w.over /\ calm.held = w.held
  BY DEF Views
<1> HIDE DEF calm
<1>3. u \in Views /\ Becomes(w, u, "Running", FALSE, w.pending \ {"StepInstructionOver"})
  BY <1>2 DEF Views, Statuses, Becomes
<1> HIDE DEF u
<1>4. v = u
  BY <1>3, BecomesOne
<1> QED
  BY <1>1, <1>4, FromAnswer, OutIs DEF Asked

\* A continue of a process that is gone: its nexti is given up.
LEMMA MayDrop ==
  ASSUME NEW w \in Views, NEW v \in Views, Asked(w), w.held, w.lost, w.status = "Paused",
         Becomes(w, v, "Paused", TRUE, w.pending \ {"StepInstructionOver"})
  PROVE  May(w, v)
<1> DEFINE calm == [w EXCEPT !.pending = @ \ {"StepInstructionOver"}]
           u    == [calm EXCEPT !.status = "Paused"]
           o    == W!Out(u, <<W!Say("Continue", "Accepted", calm.status, "other"),
                              W!GoneFails(calm, "Continue")>>, "none")
<1>1. /\ calm \in Views /\ calm.pending = w.pending \ {"StepInstructionOver"}
      /\ calm.stopping = w.stopping /\ calm.stepping = w.stepping
      /\ calm.lost = w.lost /\ calm.over = w.over /\ calm.held = w.held
  BY DEF Views
<1>2. o \in W!LetGo(calm, "Continue")
  BY <1>1 DEF W!LetGo
<1>3. o \in W!Answer(w, "Continue") /\ "Continue" \in W!Controls
  BY <1>2 DEF W!Answer, W!ContinueAnswer, W!Controls, W!Valid
<1> HIDE DEF calm
<1>4. u \in Views /\ Becomes(w, u, "Paused", TRUE, w.pending \ {"StepInstructionOver"})
  BY <1>1 DEF Views, Statuses, Becomes
<1> HIDE DEF u
<1>5. v = u
  BY <1>4, BecomesOne
<1> QED
  BY <1>3, <1>5, FromAnswer, OutIs DEF Asked

\* A step to the next allocator event, or over a call, begins.
LEMMA MayStart ==
  ASSUME NEW w \in Views, NEW v \in Views, Asked(w), w.held, ~w.lost, w.status = "Paused",
         NEW verb \in {"StepAllocatorEvent", "StepInstructionOver"},
         Becomes(w, v, W!StatusOf(verb), FALSE, w.pending \cup {verb})
  PROVE  May(w, v)
<1> DEFINE u == [W!Going(w, W!StatusOf(verb)) EXCEPT !.pending = @ \cup {verb}]
           o == W!Answered(u, verb, "Accepted")
<1>1. o = W!Started(w, verb)
  BY DEF W!Started
<1>2. o \in W!Answer(w, verb) /\ verb \in W!Controls
  BY <1>1 DEF W!Answer, W!StepEventAnswer, W!StepAnswer, W!Valid, W!Controls, W!StepVerbs,
              W!SourceSteps
<1>3. W!StatusOf(verb) \in Statuses
  BY DEF W!StatusOf, Statuses, Stepping
<1> DEFINE g == W!Going(w, W!StatusOf(verb))
<1>4. /\ g \in Views /\ g.status = W!StatusOf(verb) /\ ~g.held /\ g.pending = w.pending
      /\ g.stopping = w.stopping /\ g.stepping = w.stepping /\ g.lost = w.lost /\ g.over = w.over
  BY <1>3, GoingIs
<1> HIDE DEF g
<1>5. u = [g EXCEPT !.pending = @ \cup {verb}]
  BY DEF g
<1>6. o.worker = u
  BY OutIs DEF W!Answered
<1> HIDE DEF u
<1>7. u \in Views /\ Becomes(w, u, W!StatusOf(verb), FALSE, w.pending \cup {verb})
  BY <1>4, <1>5 DEF Views, Owed, Becomes
<1>8. v = u
  BY <1>7, BecomesOne
<1> QED
  BY <1>2, <1>6, <1>8, FromAnswer DEF Asked

\* The instruction stepped is the last one.
LEMMA MayStepOut ==
  ASSUME NEW w \in Views, NEW v \in Views, Asked(w), w.held, ~w.lost, w.status = "Paused",
         EndedFrom(w, v)
  PROVE  May(w, v)
<1>1. v = W!Ended(w)
  <2>1. W!Ended(w) \in Views /\ EndedFrom(w, W!Ended(w))
    BY EndedIs DEF EndedFrom
  <2> QED
    BY <2>1, SameView DEF EndedFrom
<1> DEFINE heard == W!Say("StepInstruction", "Accepted", W!StatusOf("StepInstruction"), "other")
           o == W!Out(W!Ended(w),
                      <<heard, W!Say("StepInstruction", "Completed", "Exited", "other"), W!End>>,
                      "none")
<1>2. o \in W!OneStep(w, "StepInstruction")
  BY DEF W!OneStep
<1>3. o \in W!StepAnswer(w, "StepInstruction")
  BY <1>2 DEF W!StepAnswer, W!SourceSteps
<1>4. o \in W!Answer(w, "StepInstruction") /\ "StepInstruction" \in W!Controls
  BY <1>3 DEF W!Answer, W!Valid, W!Controls, W!StepVerbs
<1> QED
  BY <1>1, <1>4, FromAnswer, OutIs DEF Asked

\* A source step begins.
LEMMA MayStepSource ==
  ASSUME NEW w \in Views, NEW v \in Views, Asked(w), w.held, ~w.lost, w.status = "Paused",
         NEW verb \in W!SourceSteps,
         v.status = W!StatusOf(verb), v.held, v.pending = w.pending, v.stopping <=> w.stopping,
         v.stepping = verb, ~v.lost, ~v.over
  PROVE  May(w, v)
<1> DEFINE u == [w EXCEPT !.status = W!StatusOf(verb), !.stepping = verb]
           o == W!Answered(u, verb, "Accepted")
<1>1. o \in W!StepAnswer(w, verb)
  BY DEF W!StepAnswer, W!SourceSteps
<1>2. o \in W!Answer(w, verb) /\ verb \in W!Controls
  BY <1>1 DEF W!Answer, W!Valid, W!Controls, W!StepVerbs, W!SourceSteps
<1>3. o.worker = u
  BY OutIs DEF W!Answered
<1>4. W!StatusOf(verb) \in Statuses /\ verb \in {"SourceStep", "SourceStepOver"}
  BY DEF W!StatusOf, W!SourceSteps, Statuses, Stepping
<1>5. /\ u \in Views /\ u.status = W!StatusOf(verb) /\ u.held = w.held /\ u.pending = w.pending
      /\ u.stopping = w.stopping /\ u.stepping = verb /\ u.lost = w.lost /\ u.over = w.over
  BY <1>4 DEF Views
<1> HIDE DEF u
<1>6. v = u
  BY <1>5, SameView DEF Asked
<1> QED
  BY <1>2, <1>3, <1>6, FromAnswer DEF Asked

-----------------------------------------------------------------------------
(* What a held process looks like *)

\* A pause shows as one, or as the exit a source step took for a pause
\* (lib.rs:2933-3093), and its stop was reaped.
PInv ==
  /\ paused /\ source = NoSource => target_status \in {"Paused", "Exited"}
  /\ paused /\ source.phase # "call" => report = NoReport

\* It looks the same while nothing of it changes.
LEMMA SameHeld ==
  ASSUME PInv, paused' = paused, target_status' = target_status, source' = source,
         report' = report
  PROVE  PInv'
BY DEF PInv

\* A process that is not held may look like anything.
LEMMA NotHeld ==
  ASSUME paused' = FALSE
  PROVE  PInv'
BY DEF PInv

\* A pause leaves nothing to reap.
LEMMA NowHeld ==
  ASSUME target_status' \in {"Paused", "Exited"}, report' = NoReport
  PROVE  PInv'
BY DEF PInv

\* A step from a held process to a held one shows as a pause, or as a source step.
LEMMA HeldLooks ==
  ASSUME Constants, TypeOK, SourceOpen, HInv, PInv, [Next]_vars
  PROVE  PInv'
<1>0. PausedHeld /\ ReportFits /\ NoSource.phase = "none" /\ NoReport # Exit
  BY NothingPending, Reports DEF HInv
<1>1. ASSUME NEW a \in Addr, HitBreakpoint(a) PROVE PInv'
  BY <1>0, <1>1 DEF PInv, PausedHeld, HitBreakpoint, Stop
<1>2. ASSUME ReceiveSignal PROVE PInv'
  BY <1>2, SameHeld DEF ReceiveSignal
<1>3. ASSUME DequeueSignal PROVE PInv'
  BY <1>0, <1>3 DEF PInv, PausedHeld, DequeueSignal, Stop
<1>4. ASSUME ExitProcess PROVE PInv'
  BY <1>0, <1>4 DEF PInv, PausedHeld, ExitProcess
<1>5. ASSUME NEW v \in Verbs, Refuse(v) PROVE PInv'
  BY <1>5, SameHeld DEF Refuse
<1>6. ASSUME StopTarget PROVE PInv'
  BY <1>6, NotHeld DEF StopTarget
<1>7. ASSUME PauseTarget PROVE PInv'
  BY <1>7, SameHeld DEF PauseTarget
<1>8. ASSUME Resume PROVE PInv'
  BY <1>8, SameHeld, NotHeld DEF Resume, Go
<1>9. ASSUME Continue PROVE PInv'
  <2>1. CASE ~paused
    BY <1>9, <2>1 DEF Continue, PInv
  <2>2. CASE paused
    BY <1>9, <2>2, SameHeld, NotHeld DEF Continue, Go
  <2> QED
    BY <2>1, <2>2
<1>10. ASSUME StepAllocatorEvent PROVE PInv'
  BY <1>10, SameHeld, NotHeld DEF StepAllocatorEvent, Go
<1>11. ASSUME StepInstruction PROVE PInv'
  BY <1>11, SameHeld, NotHeld DEF StepInstruction, StepTraps, StepSignalled
<1>12. ASSUME NEW a \in Addr, StepInstructionOverCall(a) PROVE PInv'
  BY <1>12, NotHeld DEF StepInstructionOverCall, Go
<1>13. ASSUME NEW a \in Addr, ToggleUserBreakpoint(a) PROVE PInv'
  BY <1>13, SameHeld DEF ToggleUserBreakpoint
<1>14. ASSUME NEW kind \in {"Into", "Over"}, StartSourceStep(kind) PROVE PInv'
  <2>1. report' = report /\ paused' = paused /\ source'.phase = "step" /\ source.phase = "none"
    BY <1>14, NothingPending DEF StartSourceStep, Source, Receive, Polling
  <2>2. source' # NoSource
    BY <2>1, <1>0
  <2> QED
    BY <2>1, <2>2 DEF PInv
<1>15. ASSUME NEW a \in Addr, NextiHit(a) PROVE PInv'
  BY <1>15, NowHeld DEF NextiHit, PauseNow
<1>16. ASSUME NEW a \in Addr, UserHit(a) PROVE PInv'
  BY <1>16, NowHeld DEF UserHit, PauseNow, Reaped
<1>17. ASSUME NEW a \in Addr, ManagedHit(a) PROVE PInv'
  <2>1. report' = NoReport /\ source' = source /\ ~paused
    BY <1>17 DEF ManagedHit, Reaped, Trapped, Waiting
  <2>2. \/ paused' = TRUE /\ target_status' = "Paused"
        \/ paused' = paused
    BY <1>17 DEF ManagedHit, PauseAfterEvent, PauseNow
  <2> QED
    BY <2>1, <2>2, NowHeld, NotHeld DEF PInv
<1>18. ASSUME NEW a \in Addr, FailedHit(a) PROVE PInv'
  BY <1>18, SameHeld DEF FailedHit, Fail, StepLost
<1>19. ASSUME PauseStop PROVE PInv'
  BY <1>19, NowHeld DEF PauseStop, Reaped, PauseNow
<1>20. ASSUME SignalStop PROVE PInv'
  <2>1. CASE pending_nexti # NoNexti
    BY <1>20, <2>1, NowHeld DEF SignalStop, Reaped
  <2>2. CASE pending_nexti = NoNexti
    BY <1>20, <2>2 DEF SignalStop, Waiting, PInv
  <2> QED
    BY <2>1, <2>2
<1>21. ASSUME ReapExit PROVE PInv'
  BY <1>21 DEF ReapExit, Waiting, PInv
<1>22. ASSUME NoChild PROVE PInv'
  BY <1>22, SameHeld DEF NoChild, Fail
<1>23. ASSUME AfterHit PROVE PInv'
  BY <1>23, SameHeld DEF AfterHit, Cont, PInv
<1>24. ASSUME SourceInstruction PROVE PInv'
  <2>1. report' = report /\ source.phase = "step"
    BY <1>24 DEF SourceInstruction, StepTraps, StepSignalled, StepExits, InSource
  <2>2. CASE SourceGoesOn /\ UNCHANGED source
    BY <2>1, <2>2, SameHeld DEF SourceGoesOn
  <2>3. CASE SourceReturn("Paused")
    <3>1. paused
      BY <2>1, <1>0 DEF SourceOpen
    <3> QED
      BY <2>1, <2>3, <3>1, NowHeld DEF PInv, SourceReturn
  <2> QED
    BY <1>24, <2>2, <2>3 DEF SourceInstruction
<1>25. ASSUME SourceCallReturns PROVE PInv'
  <2>1. report' = NoReport /\ source.phase = "call"
    BY <1>25 DEF SourceCallReturns, InSource
  <2>2. ASSUME source' = [source EXCEPT !.phase = "step", !.addr = Elsewhere]
        PROVE  source' # NoSource
    <3>1. source \in SourceSteps /\ source.addr \in Addr
      BY <1>25, CallOpen DEF TypeOK, SourceCallReturns
    <3> QED
      BY <3>1, <2>2, <1>0, SourceMoves
  <2> QED
    BY <1>25, <2>1, <2>2, NowHeld DEF SourceCallReturns, SourceReturn, PInv
<1>26. ASSUME SourceCallSignalled PROVE PInv'
  BY <1>26, NowHeld DEF SourceCallSignalled, SourceReturn, Reaped
<1>27. ASSUME SourceCallExits PROVE PInv'
  BY <1>27, NowHeld DEF SourceCallExits, SourceReturn
<1>28. ASSUME NEW a \in Addr, SourceCall(a) PROVE PInv'
  <2>1. source \in SourceSteps
    BY DEF TypeOK
  <2>2. source'.phase = "call"
    BY <1>28, <2>1, SourceMoves DEF SourceCall
  <2> QED
    BY <2>2, <1>0 DEF PInv
<1>29. ASSUME NEW a \in Addr, SourceCallHit(a) PROVE PInv'
  <2>1. CASE SourceGoesOn /\ UNCHANGED source
    BY <1>0, <1>29, <2>1 DEF SourceCallHit, InSource, PInv
  <2>2. CASE SourceReturn("Paused") /\ Reaped
    BY <2>2, NowHeld DEF SourceReturn, Reaped
  <2> QED
    BY <1>29, <2>1, <2>2 DEF SourceCallHit
<1>30. ASSUME NEW a \in Addr, SourceFails(a) PROVE PInv'
  BY <1>30, SameHeld DEF SourceFails, Fail, StepLost
<1>31. ASSUME GraceElapsed PROVE PInv'
  BY <1>31, <1>0 DEF GraceElapsed, Waiting, PInv
<1>32. CASE UNCHANGED vars
  BY <1>32, SameHeld DEF vars
<1> QED
  BY <1>1, <1>2, <1>3, <1>4, <1>5, <1>6, <1>7, <1>8, <1>9, <1>10, <1>11, <1>12, <1>13, <1>14, <1>15, <1>16,
     <1>17, <1>18, <1>19, <1>20, <1>21, <1>22, <1>23, <1>24, <1>25, <1>26, <1>27, <1>28, <1>29, <1>30, <1>31, <1>32
  DEF Next, Target, Command, Worker, Reap, SourceStepping

-----------------------------------------------------------------------------
(* Steps of the loop as moves of the worker *)

\* Nothing the interface is told about changes.
LEMMA Unseen ==
  ASSUME TypeOK, TypeOK', Lost' <=> Lost,
         UNCHANGED <<target_status, paused, pending, stop_requested, source>>, Busy' <=> Busy
  PROVE  Promised' = Promised
<1>1. Pending' = Pending
  BY DEF Pending
<1>2. Underway' = Underway
  BY DEF Underway
<1> QED
  BY <1>1, <1>2, PromisedIs, PromisedThen, SameView

\* A worker that polls listens to commands.
LEMMA AskedIs ==
  ASSUME TypeOK, Polling
  PROVE  Asked(Promised)
BY PromisedIs DEF Asked, Polling

\* A worker that waits for the process acts of its own accord.
LEMMA FreeIs ==
  ASSUME TypeOK, Waiting, ~Lost
  PROVE  Free(Promised)
BY PromisedIs DEF Free, Waiting, Polling

\* A process that reports a stop is there.
LEMMA StopThere ==
  ASSUME HInv, \/ \E a \in Addr : report = Trap(a)
               \/ \E s \in Signals : report = Sig(s)
  PROVE  tgt # "gone" /\ report # NoReport /\ ~Lost
BY Reports DEF HInv, ReportFits, Lost

\* The loop pauses the process it waited for.
LEMMA HoldsNow ==
  ASSUME TypeOK, TypeOK', Waiting, ~Lost, ~Lost', NEW gone,
         paused' = TRUE, target_status' = "Paused", Pending' = Pending \ gone,
         UNCHANGED <<stop_requested, source, failure>>, at' # "ended",
         \/ gone \in {{"Pause"}, {"StepAllocatorEvent"}, {"StepAllocatorEvent", "StepInstructionOver"}}
         \/ gone = {"StepInstructionOver"} /\ pending_nexti # NoNexti
  PROVE  May(Promised, Promised')
<1>1. Promised \in Views /\ Promised' \in Views /\ Free(Promised)
  BY FreeIs, PromisedIs, PromisedThen
<1>2. Busy /\ Busy' /\ Underway' = Underway
  BY DEF Waiting, Polling, Busy, Underway
<1>3. Becomes(Promised, Promised', "Paused", TRUE, Promised.pending \ gone)
  BY <1>2, PromisedIs, PromisedThen DEF Becomes
<1>4. pending_nexti # NoNexti => "StepInstructionOver" \in Promised.pending
  BY PromisedIs DEF Pending
<1> QED
  BY <1>1, <1>3, <1>4, MayHold

\* The trace ends with an error.
LEMMA FailsNow ==
  ASSUME TypeOK, TypeOK', Busy, ~paused \/ source # NoSource, failure' # "none",
         UNCHANGED <<target_status, paused, pending, stop_requested, source>>
  PROVE  May(Promised, Promised')
<1>1. ~Busy' /\ ~Lost' /\ Underway' = Underway
  BY DEF Busy, Lost, Underway
<1>2. Pending' = Pending
  BY DEF Pending
<1>3. FailedFrom(Promised, Promised')
  BY <1>1, <1>2, PromisedIs, PromisedThen DEF FailedFrom
<1> QED
  BY <1>3, PromisedIs, PromisedThen, MayFail

\* A source step comes back.
LEMMA ReturnsNow ==
  ASSUME TypeOK, TypeOK', Busy, source # NoSource, NEW result, SourceReturn(result),
         \/ result = "Paused" /\ (Lost' <=> Lost)
         \/ result \in {"Paused", "Exited"} /\ Lost'
  PROVE  May(Promised, Promised')
<1>1. Busy' /\ source' = NoSource /\ paused' = TRUE /\ target_status' = result
      /\ stop_requested' = stop_requested
  BY DEF Busy, SourceReturn
<1>2. Pending' = Pending
  BY DEF Pending, SourceReturn
<1>3. /\ Promised'.held /\ Promised'.pending = Promised.pending /\ Promised'.stepping = "none"
      /\ (Promised'.stopping <=> Promised.stopping) /\ ~Promised'.over
      /\ Promised'.status = result /\ (Promised'.lost <=> Lost')
  BY <1>1, <1>2, PromisedIs, PromisedThen
<1>4. Promised \in Views /\ Promised' \in Views /\ ~Promised.over /\ Promised.stepping # "none"
      /\ (Promised.lost <=> Lost)
  BY PromisedIs, PromisedThen
<1> QED
  BY <1>3, <1>4, MayReturn

\* A source step goes on.
LEMMA StepsOn ==
  ASSUME TypeOK, TypeOK', source # NoSource, source' # NoSource, source'.kind = source.kind,
         SourceGoesOn, Lost' <=> Lost
  PROVE  Promised' = Promised
<1>1. Pending' = Pending
  BY DEF Pending, SourceGoesOn
<1>2. Underway' = Underway
  BY DEF Underway
<1>3. Busy' <=> Busy
  BY DEF Busy, SourceGoesOn
<1>4. target_status' = target_status /\ paused' = paused /\ stop_requested' = stop_requested
  BY DEF SourceGoesOn
<1> QED
  BY <1>1, <1>2, <1>3, <1>4, PromisedIs, PromisedThen, SameView

\* The statuses of a command under way are those the commands name.
LEMMA StatusesUnderway ==
  /\ Stepping \subseteq W!Underway
  /\ W!StatusOf("StepAllocatorEvent") = "SteppingToNextAllocatorEvent"
  /\ W!StatusOf("StepInstructionOver") = "SteppingInstructionOver"
  /\ W!StatusOf("SourceStep") = "SourceStepping"
  /\ W!StatusOf("SourceStepOver") = "SourceSteppingOver"
<1>1. /\ W!StatusOf("StepAllocatorEvent") = "SteppingToNextAllocatorEvent"
      /\ W!StatusOf("StepInstruction") = "SteppingInstruction"
      /\ W!StatusOf("StepInstructionOver") = "SteppingInstructionOver"
      /\ W!StatusOf("SourceStep") = "SourceStepping"
      /\ W!StatusOf("SourceStepOver") = "SourceSteppingOver"
  BY DEF W!StatusOf
<1>2. {"StepAllocatorEvent", "StepInstruction", "StepInstructionOver", "SourceStep", "SourceStepOver"}
      = {"StepAllocatorEvent"} \cup W!StepVerbs
  BY DEF W!StepVerbs, W!SourceSteps
<1> QED
  BY <1>1, <1>2 DEF Stepping, W!Underway

\* A step of the loop, seen from the interface.
Kept == May(Promised, Promised') \/ Promised' = Promised

\* Every step of the loop, the process or the kernel is a move of the worker, or
\* shows nothing.
LEMMA PromiseStep ==
  ASSUME Constants, TypeOK, TypeOK', SourceOpen, NextiOpen, HInv, PInv, [Next]_vars
  PROVE  Kept
<1>0. PausedHeld /\ ReportFits /\ NoReport # Exit /\ NoSource.phase = "none"
  BY NothingPending, Reports DEF HInv
<1>u. ASSUME Promised' = Promised PROVE Kept
  BY <1>u DEF Kept
<1>m. ASSUME May(Promised, Promised') PROVE Kept
  BY <1>m DEF Kept
<1>1. ASSUME NEW a \in Addr, HitBreakpoint(a) PROVE Kept
  BY <1>1, <1>u, Unseen DEF HitBreakpoint, Stop, Lost, Busy
<1>2. ASSUME ReceiveSignal PROVE Kept
  BY <1>2, <1>u, Unseen DEF ReceiveSignal, Lost, Busy
<1>3. ASSUME DequeueSignal PROVE Kept
  BY <1>3, <1>u, Unseen DEF DequeueSignal, Stop, Lost, Busy
<1>4. ASSUME ExitProcess PROVE Kept
  BY <1>4, <1>0, <1>u, Unseen DEF ExitProcess, Lost, Busy
<1>5. ASSUME NEW v \in Verbs, Refuse(v) PROVE Kept
  BY <1>5, <1>u, Unseen DEF Refuse, Lost, Busy
<1>6. ASSUME StopTarget PROVE Kept
  <2>1. Polling /\ target_status # "Exited"
    BY <1>6 DEF StopTarget, Receive, Allowed
  <2>2. Busy /\ Busy' /\ source' = source
    BY <1>6, <2>1 DEF StopTarget, Polling, Busy
  <2>3. Lost' <=> Lost
    BY <1>6, <2>2 DEF StopTarget, Cont, Lost
  <2>4. pending_pause' = 0 /\ pending_step' = 0 /\ pending_nexti' = NoNexti /\ stop_requested' = TRUE
        /\ paused' = FALSE /\ target_status' = IF stop_requested THEN target_status ELSE "Stopping"
    BY <1>6 DEF StopTarget, CancelNexti
  <2>5. Pending' = {}
    BY <2>4 DEF Pending
  <2>6. Underway' = Underway
    BY <2>2 DEF Underway
  <2>7. /\ Promised \in Views /\ Promised' \in Views /\ Asked(Promised)
        /\ Promised.status # "Exited" /\ (Promised'.stepping = Promised.stepping)
        /\ Promised'.status = IF Promised.stopping THEN Promised.status ELSE "Stopping"
        /\ ~Promised'.held /\ Promised'.pending = {} /\ Promised'.stopping
        /\ (Promised'.lost <=> Promised.lost) /\ ~Promised'.over
    BY <2>1, <2>2, <2>3, <2>4, <2>5, <2>6, AskedIs, PromisedIs, PromisedThen
  <2> QED
    BY <2>7, <1>m, MayStop
<1>7. ASSUME PauseTarget PROVE Kept
  <2>1. Polling /\ target_status \in {"Running"} \cup Stepping
    BY <1>7 DEF PauseTarget, Receive, Allowed
  <2>2. /\ UNCHANGED <<source, tgt, report, paused, target_status, stop_requested, pending_step,
                       pending_nexti>>
        /\ pending_pause' = id
    BY <1>7 DEF PauseTarget
  <2>3. Busy' /\ Busy /\ Underway' = Underway /\ (Lost' <=> Lost)
    BY <1>7, <2>1, <2>2 DEF PauseTarget, Polling, Busy, Underway, Lost
  <2>4. Pending' = Pending \cup {"Pause"}
    BY <1>7, <2>2, TypeParts, NewId DEF PauseTarget, Pending
  <2>5. W!Valid(target_status, "Pause")
    BY <2>1, StatusesUnderway DEF W!Valid
  <2>6. Becomes(Promised, Promised', Promised.status, Promised.held, Promised.pending \cup {"Pause"})
    BY <2>2, <2>3, <2>4, PromisedIs, PromisedThen DEF Becomes
  <2> QED
    BY <2>1, <2>5, <2>6, <1>m, AskedIs, PromisedIs, PromisedThen, MayAskPause
<1>8. ASSUME Resume PROVE Kept
  <2>1. Polling /\ target_status = "Paused" /\ Busy
    BY <1>8 DEF Resume, Receive, Allowed, Polling
  <2>2. UNCHANGED <<source, pending, stop_requested, at, failure>>
    BY <1>8 DEF Resume
  <2>3. CASE paused /\ tgt = "stopped"
    <3>1. paused' = FALSE /\ target_status' = "Running" /\ tgt' = "running"
      BY <1>8, <2>3 DEF Resume, Cont, Go
    <3>2. ~Lost /\ ~Lost' /\ Busy' /\ Underway' = Underway /\ Pending' = Pending
      BY <2>1, <2>2, <2>3, <3>1 DEF Lost, Busy, Underway, Pending
    <3>3. Becomes(Promised, Promised', "Running", FALSE, Promised.pending)
      BY <2>1, <2>2, <3>1, <3>2, PromisedIs, PromisedThen DEF Becomes
    <3>4. W!Valid(target_status, "Resume")
      BY <2>1 DEF W!Valid
    <3> QED
      BY <2>1, <2>3, <3>2, <3>3, <3>4, <1>m, AskedIs, PromisedIs, PromisedThen, MayGo
  <2>4. CASE ~(paused /\ tgt = "stopped")
    BY <1>8, <2>2, <2>4, <1>u, Unseen DEF Resume, Lost, Busy
  <2> QED
    BY <2>3, <2>4
<1>9. ASSUME Continue PROVE Kept
  <2>1. Polling /\ target_status \in {"Paused", "SteppingToNextAllocatorEvent"} /\ Busy
        /\ W!Valid(target_status, "Continue")
    BY <1>9 DEF Continue, Receive, Allowed, Polling, W!Valid
  <2>2. /\ UNCHANGED <<source, pending_pause, pending_step, stop_requested, at, failure>>
        /\ pending_nexti' = NoNexti
    BY <1>9 DEF Continue, CancelNexti
  <2>3. Busy' /\ Underway' = Underway /\ Pending' = Pending \ {"StepInstructionOver"}
    BY <2>1, <2>2 DEF Busy, Underway, Pending
  <2>4. Promised \in Views /\ Promised' \in Views /\ Asked(Promised)
    BY <2>1, AskedIs, PromisedIs, PromisedThen
  <2>5. CASE ~paused
    <3>1. paused' = FALSE /\ target_status' = "Running" /\ (Lost' <=> Lost)
      BY <1>9, <2>1, <2>3, <2>5 DEF Continue, Lost
    <3>2. Becomes(Promised, Promised', "Running", FALSE, Promised.pending \ {"StepInstructionOver"})
      BY <2>1, <2>2, <2>3, <3>1, PromisedIs, PromisedThen DEF Becomes
    <3> QED
      BY <2>1, <2>4, <2>5, <3>2, <1>m, PromisedIs, MayRunOn
  <2>6. CASE paused /\ tgt = "stopped"
    <3>1. paused' = FALSE /\ target_status' = "Running" /\ ~Lost /\ ~Lost'
      BY <1>9, <2>6 DEF Continue, Cont, Go, Lost
    <3>2. Becomes(Promised, Promised', "Running", FALSE, Promised.pending \ {"StepInstructionOver"})
      BY <2>1, <2>2, <2>3, <3>1, PromisedIs, PromisedThen DEF Becomes
    <3>3. "Continue" \in {"Resume", "Continue"} /\ "Continue" # "Resume"
      OBVIOUS
    <3>4. Promised.held /\ ~Promised.lost /\ W!Valid(Promised.status, "Continue")
      BY <2>1, <2>6, <3>1, PromisedIs
    <3> QED
      BY <2>4, <3>2, <3>3, <3>4, <1>m, MayGo
  <2>7. CASE paused /\ tgt # "stopped"
    <3>1. source = NoSource
      BY <2>1 DEF Polling
    <3>2. tgt = "gone" /\ report = NoReport /\ target_status = "Paused"
      BY <1>0, <2>1, <2>7, <3>1 DEF PausedHeld, PInv
    <3>3. UNCHANGED <<tgt, report, paused, target_status>>
      BY <1>9, <2>7 DEF Continue
    <3>4. Lost /\ Lost'
      BY <2>1, <2>3, <3>2, <3>3 DEF Lost
    <3>5. Becomes(Promised, Promised', "Paused", TRUE, Promised.pending \ {"StepInstructionOver"})
      BY <2>1, <2>2, <2>3, <2>7, <3>2, <3>3, <3>4, PromisedIs, PromisedThen DEF Becomes
    <3> QED
      BY <2>4, <2>7, <3>2, <3>4, <3>5, <1>m, PromisedIs, MayDrop
  <2> QED
    BY <2>5, <2>6, <2>7 DEF TypeOK
<1>10. ASSUME StepAllocatorEvent PROVE Kept
  <2>1. Polling /\ target_status = "Paused" /\ Busy
    BY <1>10 DEF StepAllocatorEvent, Receive, Allowed, Polling
  <2>2. UNCHANGED <<source, pending_pause, pending_nexti, stop_requested, at, failure>>
    BY <1>10 DEF StepAllocatorEvent
  <2>3. CASE paused /\ tgt = "stopped"
    <3>1. /\ paused' = FALSE /\ target_status' = "SteppingToNextAllocatorEvent"
          /\ tgt' = "running" /\ pending_step' = id
      BY <1>10, <2>3 DEF StepAllocatorEvent, Cont, Go
    <3>2. ~Lost /\ ~Lost' /\ Busy' /\ Underway' = Underway
      BY <2>1, <2>2, <2>3, <3>1 DEF Lost, Busy, Underway
    <3>3. Pending' = Pending \cup {"StepAllocatorEvent"}
      BY <1>10, <2>2, <3>1, TypeParts, NewId DEF StepAllocatorEvent, Pending
    <3>4. Becomes(Promised, Promised', W!StatusOf("StepAllocatorEvent"), FALSE,
                  Promised.pending \cup {"StepAllocatorEvent"})
      BY <2>1, <2>2, <3>1, <3>2, <3>3, PromisedIs, PromisedThen, StatusesUnderway DEF Becomes
    <3> QED
      BY <2>1, <2>3, <3>2, <3>4, <1>m, AskedIs, PromisedIs, PromisedThen, MayStart
  <2>4. CASE ~(paused /\ tgt = "stopped")
    BY <1>10, <2>2, <2>4, <1>u, Unseen DEF StepAllocatorEvent, Lost, Busy
  <2> QED
    BY <2>3, <2>4
<1>11. ASSUME StepInstruction PROVE Kept
  <2>1. /\ Polling /\ Busy /\ paused /\ target_status = "Paused" /\ tgt = "stopped" /\ ~Lost
        /\ UNCHANGED <<pending, source, failure, stop_requested>>
    BY <1>11 DEF StepInstruction, StepTraps, StepSignalled, StepExits, Receive, CanStep, Polling,
                 Lost
  <2>2. CASE UNCHANGED <<tgt, report, at, mode>>
    BY <2>1, <2>2, <1>u, Unseen DEF Lost, Busy
  <2>3. CASE at' = "ended" /\ paused' = FALSE /\ target_status' = "Exited"
    <3>1. ~Busy' /\ ~Lost' /\ Underway' = Underway /\ Pending' = Pending
      BY <2>1, <2>3 DEF Busy, Lost, Underway, Pending
    <3>2. EndedFrom(Promised, Promised')
      BY <2>1, <2>3, <3>1, PromisedIs, PromisedThen DEF EndedFrom
    <3> QED
      BY <2>1, <3>2, <1>m, AskedIs, PromisedIs, PromisedThen, MayStepOut
  <2> QED
    BY <1>11, <2>2, <2>3 DEF StepInstruction, StepTraps, StepSignalled
<1>12. ASSUME NEW a \in Addr, StepInstructionOverCall(a) PROVE Kept
  <2>1. Polling /\ Busy /\ paused /\ target_status = "Paused" /\ tgt = "stopped" /\ ~Lost
    BY <1>12 DEF StepInstructionOverCall, Receive, CanStep, Polling, Cont, Lost
  <2>2. /\ UNCHANGED <<source, pending_pause, pending_step, stop_requested, at, failure>>
        /\ paused' = FALSE /\ target_status' = "SteppingInstructionOver" /\ tgt' = "running"
    BY <1>12 DEF StepInstructionOverCall, Cont, Go
  <2>3. pending_nexti' # NoNexti
    BY <1>12, TypeParts, NewId, NextiValue, NothingPending DEF StepInstructionOverCall
  <2>4. ~Lost' /\ Busy' /\ Underway' = Underway /\ Pending' = Pending \cup {"StepInstructionOver"}
    BY <2>1, <2>2, <2>3 DEF Lost, Busy, Underway, Pending
  <2>5. Becomes(Promised, Promised', W!StatusOf("StepInstructionOver"), FALSE,
                Promised.pending \cup {"StepInstructionOver"})
    BY <2>1, <2>2, <2>4, PromisedIs, PromisedThen, StatusesUnderway DEF Becomes
  <2> QED
    BY <2>1, <2>5, <1>m, AskedIs, PromisedIs, PromisedThen, MayStart
<1>13. ASSUME NEW a \in Addr, ToggleUserBreakpoint(a) PROVE Kept
  BY <1>13, <1>u, Unseen DEF ToggleUserBreakpoint, Lost, Busy
<1>14. ASSUME NEW kind \in {"Into", "Over"}, StartSourceStep(kind) PROVE Kept
  <2> DEFINE verb == IF kind = "Over" THEN "SourceStepOver" ELSE "SourceStep"
  <2>1. Polling /\ Busy /\ paused /\ target_status = "Paused" /\ tgt = "stopped" /\ ~Lost
    BY <1>14 DEF StartSourceStep, Receive, CanStep, Polling, Lost
  <2>2. /\ UNCHANGED <<tgt, report, pending, stop_requested, at, failure, paused>>
        /\ target_status' = W!StatusOf(verb)
    BY <1>14, StatusesUnderway DEF StartSourceStep
  <2>3. Underway' = verb
    <3>1. source'.phase = "step" /\ source'.kind = kind
      BY <1>14 DEF StartSourceStep, Source
    <3> QED
      BY <3>1, <1>0 DEF Underway
  <2>4. ~Lost' /\ Busy' /\ Pending' = Pending
    BY <2>1, <2>2 DEF Lost, Busy, Pending
  <2>5. verb \in W!SourceSteps
    BY DEF W!SourceSteps
  <2> HIDE DEF verb
  <2>6. /\ Promised'.status = W!StatusOf(verb) /\ Promised'.held
        /\ Promised'.pending = Promised.pending /\ (Promised'.stopping <=> Promised.stopping)
        /\ Promised'.stepping = verb /\ ~Promised'.lost /\ ~Promised'.over
    BY <2>1, <2>2, <2>3, <2>4, PromisedIs, PromisedThen
  <2> QED
    BY <2>1, <2>5, <2>6, <1>m, AskedIs, PromisedIs, PromisedThen, MayStepSource
<1>15. ASSUME NEW a \in Addr, NextiHit(a) PROVE Kept
  <2>1. Waiting /\ tgt # "gone" /\ ~Lost
    BY <1>15, StopThere DEF NextiHit, Trapped
  <2>2. /\ tgt' = tgt /\ paused' = TRUE /\ target_status' = "Paused" /\ pending_nexti # NoNexti
        /\ pending_nexti' = NoNexti /\ at' # "ended"
        /\ UNCHANGED <<pending_pause, pending_step, stop_requested, source, failure>>
    BY <1>15, <2>1, NothingPending DEF NextiHit, PauseNow, IsNextiHit, Waiting
  <2>3. ~Lost' /\ Pending' = Pending \ {"StepInstructionOver"}
    BY <2>1, <2>2 DEF Lost, Pending
  <2> QED
    BY <2>1, <2>2, <2>3, <1>m, HoldsNow
<1>16. ASSUME NEW a \in Addr, UserHit(a) PROVE Kept
  <2>1. Waiting /\ tgt # "gone" /\ ~Lost
    BY <1>16, StopThere DEF UserHit, Trapped
  <2>2. /\ tgt' = tgt /\ paused' = TRUE /\ target_status' = "Paused" /\ pending_step' = 0
        /\ at' # "ended"
        /\ UNCHANGED <<pending_pause, pending_nexti, stop_requested, source, failure>>
    BY <1>16, <2>1 DEF UserHit, PauseNow, Waiting
  <2>3. ~Lost' /\ Pending' = Pending \ {"StepAllocatorEvent"}
    BY <2>1, <2>2 DEF Lost, Pending
  <2> QED
    BY <2>1, <2>2, <2>3, <1>m, HoldsNow
<1>17. ASSUME NEW a \in Addr, ManagedHit(a) PROVE Kept
  <2>1. Waiting /\ tgt # "gone" /\ ~Lost
    BY <1>17, StopThere DEF ManagedHit, Trapped
  <2>2. /\ tgt' = tgt /\ at' # "ended"
        /\ UNCHANGED <<pending_pause, stop_requested, source, failure>>
    BY <1>17 DEF ManagedHit
  <2>3. ~Lost'
    BY <2>1, <2>2 DEF Lost
  <2>4. CASE UNCHANGED <<mode, pending_step, pending_nexti>>
    <3>1. Busy /\ Busy'
      BY <2>1, <2>2 DEF Waiting, Polling, Busy
    <3> QED
      BY <2>1, <2>2, <2>3, <2>4, <3>1, <1>u, Unseen
  <2>5. CASE PauseAfterEvent("Pause")
    <3>1. paused' = TRUE /\ target_status' = "Paused" /\ pending_step' = 0 /\ pending_nexti' = NoNexti
      BY <2>5 DEF PauseAfterEvent, PauseNow, CancelNexti
    <3>2. Pending' = Pending \ {"StepAllocatorEvent", "StepInstructionOver"}
      BY <2>2, <3>1 DEF Pending
    <3> QED
      BY <2>1, <2>2, <2>3, <3>1, <3>2, <1>m, HoldsNow
  <2>6. CASE PauseAfterEvent("Continue")
    <3>1. /\ paused' = TRUE /\ target_status' = "Paused" /\ pending_step' = 0
          /\ pending_nexti' = pending_nexti
      BY <2>6 DEF PauseAfterEvent, PauseNow
    <3>2. Pending' = Pending \ {"StepAllocatorEvent"}
      BY <2>2, <3>1 DEF Pending
    <3> QED
      BY <2>1, <2>2, <2>3, <3>1, <3>2, <1>m, HoldsNow
  <2> QED
    BY <1>17, <2>4, <2>5, <2>6 DEF ManagedHit
<1>18. ASSUME NEW a \in Addr, FailedHit(a) PROVE Kept
  <2>1. Busy /\ ~paused
    BY <1>18 DEF FailedHit, Trapped, Waiting, Polling
  <2>2. failure' # "none"
    BY <1>18 DEF FailedHit, StepLost, Fail, Signals
  <2>3. UNCHANGED <<target_status, paused, pending, stop_requested, source>>
    BY <1>18 DEF FailedHit, StepLost, Fail
  <2> QED
    BY <2>1, <2>2, <2>3, <1>m, FailsNow
<1>19. ASSUME PauseStop PROVE Kept
  <2>0. "STOP" \in Signals
    BY DEF Signals
  <2>1. Waiting /\ tgt # "gone" /\ ~Lost
    BY <1>19, <2>0, StopThere DEF PauseStop
  <2>2. /\ tgt' = tgt /\ paused' = TRUE /\ target_status' = "Paused" /\ pending_pause' = 0
        /\ at' # "ended"
        /\ UNCHANGED <<pending_step, pending_nexti, stop_requested, source, failure>>
    BY <1>19, <2>1 DEF PauseStop, PauseNow, Waiting
  <2>3. ~Lost' /\ Pending' = Pending \ {"Pause"}
    BY <2>1, <2>2 DEF Lost, Pending
  <2> QED
    BY <2>1, <2>2, <2>3, <1>m, HoldsNow
<1>20. ASSUME SignalStop PROVE Kept
  <2>1. Waiting /\ tgt # "gone" /\ ~Lost
    BY <1>20, StopThere DEF SignalStop
  <2>2. UNCHANGED <<at, failure, pending_pause, pending_step, source, stop_requested>>
    BY <1>20 DEF SignalStop
  <2>3. CASE pending_nexti # NoNexti
    <3>1. tgt' = tgt /\ paused' = TRUE /\ target_status' = "Paused" /\ pending_nexti' = NoNexti
      BY <1>20, <2>3 DEF SignalStop, CancelNexti
    <3>2. ~Lost' /\ Pending' = Pending \ {"StepInstructionOver"} /\ at' # "ended"
      BY <2>1, <2>2, <3>1 DEF Lost, Pending, Waiting
    <3> QED
      BY <2>1, <2>2, <2>3, <3>1, <3>2, <1>m, HoldsNow
  <2>4. CASE pending_nexti = NoNexti
    <3>1. /\ UNCHANGED <<paused, target_status, pending_nexti>>
          /\ tgt' = "running" \/ report' = Exit
      BY <1>20, <2>4 DEF SignalStop, ContWith
    <3>2. ~Lost' /\ (Busy' <=> Busy)
      BY <1>0, <2>2, <3>1 DEF Lost, Busy
    <3> QED
      BY <2>1, <2>2, <3>1, <3>2, <1>u, Unseen
  <2> QED
    BY <2>3, <2>4
<1>21. ASSUME ReapExit PROVE Kept
  <2>1. /\ Waiting /\ ~Lost /\ ~paused
        /\ UNCHANGED <<paused, pending, source, stop_requested>>
        /\ at' = "ended" /\ target_status' = "Exited"
    BY <1>0, <1>21 DEF ReapExit, Waiting, Lost
  <2>2. ~Busy' /\ ~Lost' /\ Underway' = Underway /\ Pending' = Pending
    BY <2>1 DEF Busy, Lost, Underway, Pending
  <2>3. EndedFrom(Promised, Promised')
    BY <2>1, <2>2, PromisedIs, PromisedThen DEF EndedFrom
  <2> QED
    BY <2>1, <2>3, <1>m, FreeIs, PromisedIs, PromisedThen, MayEnd
<1>22. ASSUME NoChild PROVE Kept
  BY <1>22, <1>m, FailsNow DEF NoChild, Fail, Waiting, Polling
<1>23. ASSUME AfterHit PROVE Kept
  <2>1. /\ Polling /\ Busy /\ at = "afterHit"
        /\ UNCHANGED <<target_status, paused, pending, stop_requested, source>>
    BY <1>23 DEF AfterHit, Polling
  <2>2. CASE at' = "loop" /\ UNCHANGED <<tgt, report, failure>>
    BY <2>1, <2>2, <1>u, Unseen DEF Lost, Busy
  <2>3. CASE at' = "loop" /\ Cont /\ UNCHANGED failure
    BY <2>1, <2>3, <1>u, Unseen DEF Lost, Busy, Cont
  <2>4. CASE ~paused /\ failure' = "cont"
    BY <2>1, <2>4, <1>m, FailsNow
  <2> QED
    BY <1>23, <2>2, <2>3, <2>4 DEF AfterHit
<1>24. ASSUME SourceInstruction PROVE Kept
  <2>1. Busy /\ source.phase = "step" /\ source # NoSource
    BY <1>24, <1>0 DEF SourceInstruction, InSource
  <2>2. CASE StepTraps /\ SourceGoesOn /\ UNCHANGED source
    <3>1. Lost' <=> Lost
      BY <2>2 DEF StepTraps, SourceGoesOn, Lost, Busy
    <3> QED
      BY <2>1, <2>2, <3>1, <1>u, StepsOn
  <2>3. CASE (StepTraps \/ StepSignalled) /\ SourceReturn("Paused")
    <3>1. Lost' <=> Lost
      BY <2>3 DEF StepTraps, StepSignalled, SourceReturn, Lost, Busy
    <3> QED
      BY <2>1, <2>3, <3>1, <1>m, ReturnsNow
  <2>4. CASE StepExits /\ SourceReturn("Paused")
    <3>1. report = NoReport
      BY <2>1 DEF SourceOpen, PInv
    <3>2. Lost'
      BY <2>1, <2>4, <3>1 DEF StepExits, SourceReturn, Lost, Busy
    <3> QED
      BY <2>1, <2>4, <3>2, <1>m, ReturnsNow
  <2> QED
    BY <1>24, <2>2, <2>3, <2>4 DEF SourceInstruction
<1>25. ASSUME SourceCallReturns PROVE Kept
  <2>1. /\ Busy /\ source.phase = "call" /\ source # NoSource /\ source.addr \in Addr
        /\ tgt' = tgt /\ report = Trap(source.addr)
    BY <1>25, <1>0, CallOpen DEF SourceCallReturns, InSource
  <2>2. tgt # "gone" /\ ~Lost /\ ~Lost'
    BY <2>1, StopThere DEF Lost
  <2>3. CASE SourceGoesOn /\ source' = [source EXCEPT !.phase = "step", !.addr = Elsewhere]
    <3>1. source \in SourceSteps
      BY DEF TypeOK
    <3>2. source'.phase = "step" /\ source'.kind = source.kind
      BY <2>3, <3>1 DEF SourceSteps
    <3> QED
      BY <1>0, <2>1, <2>2, <2>3, <3>2, <1>u, StepsOn
  <2>4. CASE SourceReturn("Paused")
    BY <2>1, <2>2, <2>4, <1>m, ReturnsNow
  <2> QED
    BY <1>25, <2>3, <2>4 DEF SourceCallReturns
<1>26. ASSUME SourceCallSignalled PROVE Kept
  <2>1. Busy /\ source # NoSource /\ tgt' = tgt /\ SourceReturn("Paused")
    BY <1>26, <1>0 DEF SourceCallSignalled, InSource
  <2>2. tgt # "gone" /\ ~Lost /\ ~Lost'
    BY <1>26, <1>0, <2>1, Reports DEF SourceCallSignalled, ReportFits, Lost
  <2> QED
    BY <2>1, <2>2, <1>m, ReturnsNow
<1>27. ASSUME SourceCallExits PROVE Kept
  <2>1. Busy /\ source # NoSource /\ SourceReturn("Exited")
    BY <1>27, <1>0 DEF SourceCallExits, InSource
  <2>2. Lost'
    BY <1>27, <1>0, <2>1 DEF SourceCallExits, ReportFits, SourceReturn, Lost, Busy
  <2> QED
    BY <2>1, <2>2, <1>m, ReturnsNow
<1>28. ASSUME NEW a \in Addr, SourceCall(a) PROVE Kept
  <2>1. source # NoSource /\ SourceGoesOn /\ source \in SourceSteps
    BY <1>28, <1>0 DEF SourceCall, InSource, TypeOK
  <2>2. source'.phase = "call" /\ source'.kind = source.kind
    BY <1>28, <2>1 DEF SourceCall, SourceSteps
  <2>3. ~Lost /\ ~Lost'
    BY <1>28 DEF SourceCall, Cont, Lost
  <2> QED
    BY <1>0, <2>1, <2>2, <2>3, <1>u, StepsOn
<1>29. ASSUME NEW a \in Addr, SourceCallHit(a) PROVE Kept
  <2>1. Busy /\ source # NoSource /\ tgt # "gone" /\ ~Lost
    BY <1>29, <1>0, StopThere DEF SourceCallHit, InSource
  <2>2. CASE SourceReturn("Paused") /\ UNCHANGED tgt
    <3>1. ~Lost'
      BY <2>1, <2>2 DEF Lost
    <3> QED
      BY <2>1, <2>2, <3>1, <1>m, ReturnsNow
  <2>3. CASE SourceGoesOn /\ UNCHANGED source /\ Cont
    <3>1. ~Lost'
      BY <2>3 DEF Cont, Lost
    <3> QED
      BY <2>1, <2>3, <3>1, <1>u, StepsOn
  <2> QED
    BY <1>29, <2>2, <2>3 DEF SourceCallHit
<1>30. ASSUME NEW a \in Addr, SourceFails(a) PROVE Kept
  <2>1. Busy /\ source # NoSource
    BY <1>30, <1>0 DEF SourceFails, InSource
  <2>2. failure' # "none"
    BY <1>30 DEF SourceFails, StepLost, Fail, Signals
  <2>3. UNCHANGED <<target_status, paused, pending, stop_requested, source>>
    BY <1>30 DEF SourceFails, StepLost, Fail
  <2> QED
    BY <2>1, <2>2, <2>3, <1>m, FailsNow
<1>31. ASSUME GraceElapsed PROVE Kept
  <2>1. /\ Waiting /\ ~Lost /\ ~Lost' /\ stop_requested /\ target_status' = "Stopping"
        /\ stop_requested' = FALSE /\ paused' = FALSE
        /\ UNCHANGED <<at, failure, pending, source>>
    BY <1>0, <1>31 DEF GraceElapsed, Waiting, Lost
  <2>2. Busy' /\ Underway' = Underway /\ Pending' = Pending
    BY <2>1 DEF Waiting, Polling, Busy, Underway, Pending
  <2>3. /\ Promised.stopping /\ Promised'.status = "Stopping" /\ ~Promised'.held
        /\ Promised'.pending = Promised.pending /\ ~Promised'.stopping
        /\ Promised'.stepping = Promised.stepping /\ ~Promised'.lost /\ ~Promised'.over
    BY <2>1, <2>2, PromisedIs, PromisedThen
  <2> QED
    BY <2>1, <2>3, <1>m, FreeIs, PromisedIs, PromisedThen, MayKill
<1>32. CASE UNCHANGED vars
  BY <1>32, <1>u, Unseen DEF vars, Lost, Busy
<1>33. CASE Target
  BY <1>1, <1>2, <1>3, <1>4, <1>33 DEF Target
<1>34. CASE Command
  BY <1>5, <1>6, <1>7, <1>8, <1>9, <1>10, <1>11, <1>12, <1>13, <1>14, <1>34 DEF Command
<1>35. CASE Reap
  BY <1>15, <1>16, <1>17, <1>18, <1>19, <1>20, <1>21, <1>22, <1>35 DEF Reap
<1>36. CASE SourceStepping
  BY <1>24, <1>25, <1>26, <1>27, <1>28, <1>29, <1>30, <1>36 DEF SourceStepping
<1> QED
  BY <1>23, <1>31, <1>32, <1>33, <1>34, <1>35, <1>36 DEF Next, Worker

\* At launch the worker is the one the interface expects, and nothing is held.
LEMMA PromiseInit ==
  ASSUME Init
  PROVE  W!Init /\ PInv
BY DEF Init, W!Init, W!Launched, Promised, Pending, Busy, NoSource, Source, PInv

\* The loop keeps what the interface is promised (lib.rs:1478-1810, 1831-2806,
\* 2815-3150): whatever the process, its signals and the kernel do, the status, the
\* hold on the process, the commands it still owes an answer and the end of the
\* trace change as LiveWorker says.
THEOREM PromiseKept == ASSUME Constants PROVE Spec => KeepsPromise
<1>1. Spec => [](TInv /\ HInv)
  BY WorkerKeeps, PTL
<1>2. Init => W!Init /\ PInv
  BY PromiseInit
<1>3. TInv /\ HInv /\ PInv /\ [Next]_vars => PInv'
  BY Constants, HeldLooks DEF TInv
<1>4. TInv /\ TInv' /\ HInv /\ PInv /\ [Next]_vars => [W!Next]_Promised
  BY Constants, PromiseStep DEF TInv, Kept, W!Next, May
<1> QED
  BY <1>1, <1>2, <1>3, <1>4, PTL DEF Spec, KeepsPromise, W!Spec
=============================================================================
