-------------------------- MODULE BreakpointManager --------------------------
(***************************************************************************)
(* The breakpoint table of the ptrace worker                               *)
(* (crates/heapify-debugger/src/breakpoint.rs): one physical INT3 per      *)
(* address, shared by any number of owners - allocator tracing, a nexti in *)
(* flight, persistent user breakpoints - together with the registry of     *)
(* user breakpoints the live session lists.                                *)
(*                                                                         *)
(* An access to the traced process's memory (PTRACE_PEEKDATA / POKEDATA)   *)
(* may fail; `ok' in the operations below says whether the accesses of     *)
(* that call succeed.  Addresses are far enough apart that no two patched  *)
(* bytes share a word: the code patches the low byte of the word it just   *)
(* read, so words add nothing.                                             *)
(***************************************************************************)
EXTENDS Naturals, Sequences, FiniteSets

CONSTANTS
  Addr, NoAddr,  \* code addresses breakpoints are placed at; none of them
  Byte, INT3,    \* the byte values that can stand there; INT3 is 0xcc
  Text,          \* the program's own byte at each address
  EntryKinds,    \* BreakpointKind: MallocEntry, FreeEntry, ...
  ReturnKinds,   \* BreakpointKind: MallocReturn, FreeReturn, ...
  ReturnOf,      \* the kind of return breakpoint an entry plants
  Commands,      \* LiveCommandId of instruction step-overs
  MaxId,         \* bound: user breakpoint ids handed out
  MaxEvent,      \* bound: allocator event ids handed out
  MaxHits,       \* bound: hit_count of one user breakpoint
  MaxOwners      \* bound: owners of one address

ASSUME Constants ==
  /\ NoAddr \notin Addr
  /\ INT3 \in Byte
  /\ Text \in [Addr -> Byte]
  /\ EntryKinds \cap ReturnKinds = {}
  /\ ReturnOf \in [EntryKinds -> ReturnKinds]
  /\ MaxId \in Nat /\ MaxEvent \in Nat /\ MaxHits \in Nat /\ MaxOwners \in Nat

VARIABLES
  mem,           \* the byte in the traced process
  breakpoints,   \* HashMap<u64, ManagedBreakpoint>
  users,         \* BTreeMap<UserBreakpointId, UserBreakpoint>
  next_id,       \* next_user_breakpoint_id
  event_id,      \* TraceHeapState.next_event_id: last id handed out
  hit,           \* the hit being stepped over, or NoHit
  aborted,       \* an error left the worker's hit handling: the trace is over
  unsynced,      \* history: ids whose add or enable failed to reach memory
  stuck,         \* history: addresses whose last owner left but INT3 could not
  retired        \* history: allocator events reported

mgrVars  == <<mem, breakpoints>>
history  == <<unsynced, stuck, retired>>
vars     == <<mem, breakpoints, users, next_id, event_id, hit, aborted, history>>

-----------------------------------------------------------------------------
(* BreakpointOwner *)

Allocator(kind, e) == [tag |-> "Allocator", kind |-> kind, id |-> e]
StepOver(c)        == [tag |-> "UserInstructionStepOver", kind |-> "none", id |-> c]
UserPersistent(i)  == [tag |-> "UserPersistent", kind |-> "none", id |-> i]

UserIds         == 1 .. MaxId
EntryOwners     == {Allocator(k, 0) : k \in EntryKinds}
ReturnOwners    == {Allocator(k, e) : k \in ReturnKinds, e \in 1 .. MaxEvent}
AllocatorOwners == EntryOwners \cup ReturnOwners
StepOverOwners  == {StepOver(c) : c \in Commands}
UserOwners      == {UserPersistent(i) : i \in UserIds}
Owner           == AllocatorOwners \cup StepOverOwners \cup UserOwners

Managed == DOMAIN breakpoints

OwnersAt(a) == IF a \in Managed THEN breakpoints[a].owners ELSE <<>>

Holds(a, o) == \E i \in DOMAIN OwnersAt(a) : OwnersAt(a)[i] = o

\* The first owner that satisfies a predicate, as Iterator::position and
\* find_map pick it: i is its index.
IsFirst(s, i, S) == /\ i \in DOMAIN s
                    /\ s[i] \in S
                    /\ \A j \in DOMAIN s : s[j] \in S => i <= j

\* Vec::remove
Without(s, i) == [j \in 1 .. (Len(s) - 1) |-> IF j < i THEN s[j] ELSE s[j + 1]]

Put(f, k, v) == [x \in (DOMAIN f) \cup {k} |-> IF x = k THEN v ELSE f[x]]
Drop(f, k)   == [x \in (DOMAIN f) \ {k} |-> f[x]]

NoOwner == [tag |-> "none", kind |-> "none", id |-> 0]
NoHit   == [addr |-> NoAddr, owner |-> NoOwner, ids |-> {}]

-----------------------------------------------------------------------------
(* Breakpoint::enable and Breakpoint::disable on the managed address a,    *)
(* together with the owner list the caller leaves there.                   *)

\* Mutant: re-arming reads the byte again, even where INT3 already stands.
EnableRereads(a, owners, ok) ==
  LET b   == breakpoints[a]
  IN  /\ breakpoints' = [breakpoints EXCEPT ![a] =
           [original_byte |-> IF ok THEN mem[a] ELSE b.original_byte,
            enabled       |-> b.enabled \/ ok,
            owners        |-> owners]]
      /\ mem' = IF ok THEN [mem EXCEPT ![a] = INT3] ELSE mem

\* Mutant: the owners are recorded, nothing is armed again.
EnableOnlyRecords(a, owners, ok) ==
  /\ breakpoints' = [breakpoints EXCEPT ![a] = [@ EXCEPT !.owners = owners]]
  /\ UNCHANGED mem

Enable(a, owners, ok) ==
  LET b   == breakpoints[a]
      arm == ~b.enabled /\ ok
  IN  /\ breakpoints' = [breakpoints EXCEPT ![a] =
           [original_byte |-> IF arm THEN mem[a] ELSE b.original_byte,
            enabled       |-> b.enabled \/ ok,
            owners        |-> owners]]
      /\ mem' = IF arm THEN [mem EXCEPT ![a] = INT3] ELSE mem

Disable(a, owners, ok) ==
  LET b    == breakpoints[a]
      lift == b.enabled /\ ok
  IN  /\ breakpoints' = [breakpoints EXCEPT ![a] =
           [original_byte |-> b.original_byte,
            enabled       |-> b.enabled /\ ~ok,
            owners        |-> owners]]
      /\ mem' = IF lift THEN [mem EXCEPT ![a] = b.original_byte] ELSE mem

-----------------------------------------------------------------------------
(* BreakpointManager::add_owner *)

\* Mutant: any user breakpoint at the address counts as the same one.
IsAnyUserOwner(a, o) == o \in UserOwners /\ \E p \in UserOwners : Holds(a, p)

IsDuplicateUserPersistentOwner(a, o) == o \in UserOwners /\ Holds(a, o)

AddOwner(a, o, ok) ==
  \/ /\ a \in Managed
     /\ IsDuplicateUserPersistentOwner(a, o)
     /\ UNCHANGED mgrVars
  \/ /\ a \in Managed
     /\ ~IsDuplicateUserPersistentOwner(a, o)
     /\ Enable(a, Append(breakpoints[a].owners, o), ok)
  \/ /\ a \notin Managed
     /\ ok
     /\ breakpoints' = Put(breakpoints, a, [original_byte |-> mem[a],
                                            enabled |-> TRUE, owners |-> <<o>>])
     /\ mem' = [mem EXCEPT ![a] = INT3]
  \/ /\ a \notin Managed
     /\ ~ok
     /\ UNCHANGED mgrVars

AddOwnerFails(a, o, ok) ==
  /\ ~ok
  /\ a \in Managed => /\ ~IsDuplicateUserPersistentOwner(a, o)
                      /\ ~breakpoints[a].enabled

(* BreakpointManager::remove_owner_at: the first owner in S leaves; the    *)
(* last one takes the physical breakpoint with it, unless memory cannot be *)
(* restored.                                                               *)

\* Mutant: the list is emptied but the physical breakpoint stays.
RemoveOwnerKeepsTrap(a, S, ok) ==
  \/ /\ ~\E i \in DOMAIN OwnersAt(a) : OwnersAt(a)[i] \in S
     /\ UNCHANGED mgrVars
  \/ \E i \in DOMAIN OwnersAt(a) :
       /\ IsFirst(OwnersAt(a), i, S)
       /\ breakpoints' = [breakpoints EXCEPT ![a].owners = Without(@, i)]
       /\ UNCHANGED mem

\* Mutant: the physical breakpoint goes with the first owner that leaves.
RemoveOwnerTakesTrap(a, S, ok) ==
  \/ /\ ~\E i \in DOMAIN OwnersAt(a) : OwnersAt(a)[i] \in S
     /\ UNCHANGED mgrVars
  \/ \E i \in DOMAIN OwnersAt(a) :
       /\ IsFirst(OwnersAt(a), i, S)
       /\ breakpoints' = Drop(breakpoints, a)
       /\ mem' = IF breakpoints[a].enabled
                 THEN [mem EXCEPT ![a] = breakpoints[a].original_byte] ELSE mem

RemoveOwner(a, S, ok) ==
  \/ /\ ~\E i \in DOMAIN OwnersAt(a) : OwnersAt(a)[i] \in S
     /\ UNCHANGED mgrVars
  \/ \E i \in DOMAIN OwnersAt(a) :
       /\ IsFirst(OwnersAt(a), i, S)
       /\ LET b    == breakpoints[a]
              rest == Without(b.owners, i)
          IN  \/ /\ rest # <<>>
                 /\ breakpoints' = [breakpoints EXCEPT ![a] =
                      [original_byte |-> b.original_byte,
                       enabled |-> b.enabled, owners |-> rest]]
                 /\ UNCHANGED mem
              \/ /\ rest = <<>>
                 /\ b.enabled /\ ~ok
                 /\ Disable(a, rest, ok)
              \/ /\ rest = <<>>
                 /\ ~(b.enabled /\ ~ok)
                 /\ breakpoints' = Drop(breakpoints, a)
                 /\ mem' = IF b.enabled
                           THEN [mem EXCEPT ![a] = b.original_byte] ELSE mem

RemoveOwnerFails(a, S, ok) ==
  /\ ~ok
  /\ a \in Managed
  /\ breakpoints[a].enabled
  /\ Len(OwnersAt(a)) = 1 /\ OwnersAt(a)[1] \in S

-----------------------------------------------------------------------------
Init ==
  /\ mem = Text
  /\ breakpoints = [a \in {} |-> 0]
  /\ users = [i \in {} |-> 0]
  /\ next_id = 0
  /\ event_id = 0
  /\ hit = NoHit
  /\ aborted = FALSE
  /\ unsynced = {} /\ stuck = {} /\ retired = {}

\* The worker is not in the middle of stepping over a breakpoint.
Idle == ~aborted /\ hit = NoHit

\* An address whose release failed keeps its entry; a later owner re-uses it.
StuckAfterAdd(a, o, ok) ==
  stuck' = IF AddOwnerFails(a, o, ok) THEN stuck ELSE stuck \ {a}
StuckAfterRemove(a, S, ok) ==
  stuck' = IF RemoveOwnerFails(a, S, ok) THEN stuck \cup {a} ELSE stuck

(* set_breakpoint for the allocator entry points when the trace starts; a  *)
(* failure there ends the launch.                                          *)
SetEntryBreakpoint(a, k, ok) ==
  /\ Idle
  /\ next_id = 0 /\ event_id = 0
  /\ \A x \in Managed, o \in Owner :
        Holds(x, o) => o \in EntryOwners \ {Allocator(k, 0)}
  /\ Len(OwnersAt(a)) < MaxOwners
  /\ AddOwner(a, Allocator(k, 0), ok)
  /\ aborted' = AddOwnerFails(a, Allocator(k, 0), ok)
  /\ StuckAfterAdd(a, Allocator(k, 0), ok)
  /\ UNCHANGED <<users, next_id, event_id, hit, unsynced, retired>>

(* set_user_step_over_breakpoint: a failure is reported, the trace goes on. *)
SetUserStepOverBreakpoint(a, c, ok) ==
  /\ Idle
  /\ \A x \in Managed : ~Holds(x, StepOver(c))
  /\ Len(OwnersAt(a)) < MaxOwners
  /\ AddOwner(a, StepOver(c), ok)
  /\ StuckAfterAdd(a, StepOver(c), ok)
  /\ UNCHANGED <<users, next_id, event_id, hit, aborted, unsynced, retired>>

(* remove_user_step_over_breakpoint: its callers give up on an error. *)
RemoveUserStepOverBreakpoint(a, ok) ==
  /\ Idle
  /\ a \in Managed
  /\ RemoveOwner(a, StepOverOwners, ok)
  /\ aborted' = RemoveOwnerFails(a, StepOverOwners, ok)
  /\ StuckAfterRemove(a, StepOverOwners, ok)
  /\ UNCHANGED <<users, next_id, event_id, hit, unsynced, retired>>

-----------------------------------------------------------------------------
(* Management of persistent user breakpoints, commanded while paused.      *)

UnsyncedAfterAdd(id, ok) ==
  unsynced' = IF AddOwnerFails(users'[id].addr, UserPersistent(id), ok)
              THEN unsynced \cup {id} ELSE unsynced

AddUserBreakpoint(a, ok) ==
  LET id == IF next_id > 1 THEN next_id ELSE 1
  IN  /\ Idle
      /\ id <= MaxId
      /\ Len(OwnersAt(a)) < MaxOwners
      /\ next_id' = id + 1
      /\ users' = Put(users, id, [addr |-> a, enabled |-> TRUE, hits |-> 0])
      /\ AddOwner(a, UserPersistent(id), ok)
      /\ StuckAfterAdd(a, UserPersistent(id), ok)
      /\ UnsyncedAfterAdd(id, ok)
      /\ UNCHANGED <<event_id, hit, aborted, retired>>

EnableUserBreakpoint(id, ok) ==
  LET a == users[id].addr
  IN  /\ Idle
      /\ id \in DOMAIN users
      /\ users' = [users EXCEPT ![id].enabled = TRUE]
      /\ \/ /\ users[id].enabled
            /\ UNCHANGED <<mgrVars, unsynced, stuck>>
         \/ /\ ~users[id].enabled
            /\ Len(OwnersAt(a)) < MaxOwners
            /\ AddOwner(a, UserPersistent(id), ok)
            /\ StuckAfterAdd(a, UserPersistent(id), ok)
            /\ UnsyncedAfterAdd(id, ok)
      /\ UNCHANGED <<next_id, event_id, hit, aborted, retired>>

DisableUserBreakpoint(id, ok) ==
  LET a == users[id].addr
      S == {UserPersistent(id)}
  IN  /\ Idle
      /\ id \in DOMAIN users
      /\ users' = [users EXCEPT ![id].enabled = FALSE]
      /\ unsynced' = unsynced \ {id}
      /\ \/ /\ users[id].enabled
            /\ RemoveOwner(a, S, ok)
            /\ StuckAfterRemove(a, S, ok)
         \/ /\ ~users[id].enabled
            /\ UNCHANGED <<mgrVars, stuck>>
      /\ UNCHANGED <<next_id, event_id, hit, aborted, retired>>

\* Mutant: deleting forgets the breakpoint but not its claim.
DeleteOnlyRegistry(id, ok) ==
  /\ Idle
  /\ id \in DOMAIN users
  /\ users' = Drop(users, id)
  /\ unsynced' = unsynced \ {id}
  /\ UNCHANGED <<mem, breakpoints, next_id, event_id, hit, aborted, stuck, retired>>

DeleteUserBreakpoint(id, ok) ==
  LET a == users[id].addr
      S == {UserPersistent(id)}
  IN  /\ Idle
      /\ id \in DOMAIN users
      /\ users' = Drop(users, id)
      /\ unsynced' = unsynced \ {id}
      /\ \/ /\ users[id].enabled
            /\ RemoveOwner(a, S, ok)
            /\ StuckAfterRemove(a, S, ok)
         \/ /\ ~users[id].enabled
            /\ UNCHANGED <<mgrVars, stuck>>
      /\ UNCHANGED <<next_id, event_id, hit, aborted, retired>>

-----------------------------------------------------------------------------
(* The program runs into the INT3 at a.  The worker rewinds RIP, restores  *)
(* the byte, single-steps the original instruction and re-arms:            *)
(* handle_managed_breakpoint_hit when an allocator owner is there,         *)
(* handle_persistent_user_breakpoint_step_over otherwise.  The owner it    *)
(* serves and the user breakpoints it will credit are read before the      *)
(* step; `hit' carries them across it.                                     *)

PersistentUserOwnersAt(a) == {i \in UserIds : Holds(a, UserPersistent(i))}

\* Mutants: the newest owner is served instead of the oldest; any owner is; the
\* step is made without lifting the breakpoint.
BeginHitServing(a, i, lift, ok) ==
  /\ Idle
  /\ a \in Managed /\ breakpoints[a].enabled
  /\ OwnersAt(a)[i] \in EntryOwners => event_id < MaxEvent
  /\ hit' = [addr |-> a, owner |-> OwnersAt(a)[i], ids |-> PersistentUserOwnersAt(a)]
  /\ IF lift THEN Disable(a, breakpoints[a].owners, ok) ELSE UNCHANGED mgrVars
  /\ aborted' = ~ok
  /\ UNCHANGED <<users, next_id, event_id, history>>

BeginHitNewest(a, ok) ==
  \E i \in DOMAIN OwnersAt(a) :
    /\ OwnersAt(a)[i] \in AllocatorOwners
    /\ \A j \in DOMAIN OwnersAt(a) : OwnersAt(a)[j] \in AllocatorOwners => j <= i
    /\ BeginHitServing(a, i, TRUE, ok)

BeginHitAnyOwner(a, ok) == 1 \in DOMAIN OwnersAt(a) /\ BeginHitServing(a, 1, TRUE, ok)

BeginHitUnlifted(a, ok) ==
  \E i \in DOMAIN OwnersAt(a) : /\ IsFirst(OwnersAt(a), i, AllocatorOwners)
                               /\ BeginHitServing(a, i, FALSE, ok)

BeginHit(a, ok) ==
  /\ Idle
  /\ a \in Managed
  /\ breakpoints[a].enabled
  /\ \/ \E i \in DOMAIN OwnersAt(a) :
          /\ IsFirst(OwnersAt(a), i, AllocatorOwners)
          /\ OwnersAt(a)[i] \in EntryOwners => event_id < MaxEvent
          /\ hit' = [addr |-> a, owner |-> OwnersAt(a)[i],
                     ids |-> PersistentUserOwnersAt(a)]
     \/ /\ ~\E o \in AllocatorOwners : Holds(a, o)
        /\ PersistentUserOwnersAt(a) # {}
        /\ hit' = [addr |-> a, owner |-> NoOwner, ids |-> PersistentUserOwnersAt(a)]
  /\ Disable(a, breakpoints[a].owners, ok)
  /\ aborted' = ~ok
  /\ UNCHANGED <<users, next_id, event_id, history>>

\* A trap at an address without an allocator or a user owner, and not the one
\* a nexti waits for, ends the trace: "missing allocator breakpoint owner".
UnownedHit(a) ==
  /\ Idle
  /\ a \in Managed
  /\ breakpoints[a].enabled
  /\ \A o \in AllocatorOwners \cup UserOwners : ~Holds(a, o)
  /\ aborted' = TRUE
  /\ UNCHANGED <<mem, breakpoints, users, next_id, event_id, hit, history>>

\* An entry hit takes an event id and, when the return address can be read
\* off the stack, plants the return breakpoint before the step.
PlantReturn(r, ok) ==
  /\ ~aborted /\ hit # NoHit
  /\ hit.owner \in EntryOwners
  /\ r # hit.addr
  /\ Len(OwnersAt(r)) < MaxOwners
  /\ LET o == Allocator(ReturnOf[hit.owner.kind], event_id + 1)
     IN  /\ AddOwner(r, o, ok)
         /\ aborted' = AddOwnerFails(r, o, ok)
         /\ StuckAfterAdd(r, o, ok)
  /\ event_id' = event_id + 1
  /\ hit' = [hit EXCEPT !.owner = NoOwner]
  /\ UNCHANGED <<users, next_id, unsynced, retired>>

\* capture_caller_addr could not read the stack: the id is spent, the call
\* will never be reported.
MissReturn ==
  /\ ~aborted /\ hit # NoHit
  /\ hit.owner \in EntryOwners
  /\ event_id' = event_id + 1
  /\ hit' = [hit EXCEPT !.owner = NoOwner]
  /\ UNCHANGED <<mem, breakpoints, users, next_id, aborted, history>>

\* breakpoint_kind_matches compares the discriminant of the kind only.
SameKind(o) == {x \in AllocatorOwners : x.kind = o.kind}

\* Mutant: every breakpoint listed at the address is credited.
RecordHitsListed(ids) ==
  users' = [i \in DOMAIN users |->
              IF users[i].addr = hit.addr
              THEN [users[i] EXCEPT !.hits = @ + 1] ELSE users[i]]

\* record_user_breakpoint_hits: only ids still registered and enabled.
RecordHits(ids) ==
  users' = [i \in DOMAIN users |->
              IF i \in ids /\ users[i].enabled
              THEN [users[i] EXCEPT !.hits = @ + 1] ELSE users[i]]

\* The step is done: a return owner that was served leaves, whatever is left
\* is armed again, and the user breakpoints passed are credited.
EndHit(ok) ==
  LET a == hit.addr
  IN  /\ ~aborted /\ hit # NoHit
      /\ hit.owner \notin EntryOwners
      /\ \A i \in hit.ids \cap DOMAIN users : users[i].hits < MaxHits
      /\ \/ /\ hit.owner \notin ReturnOwners
            /\ Enable(a, breakpoints[a].owners, ok)
            /\ aborted' = ~ok
            /\ UNCHANGED retired
         \/ /\ hit.owner \in ReturnOwners
            /\ \E i \in DOMAIN OwnersAt(a) :
                 /\ IsFirst(OwnersAt(a), i, SameKind(hit.owner))
                 /\ LET rest == Without(OwnersAt(a), i)
                    IN  \/ /\ rest # <<>>
                           /\ Enable(a, rest, ok)
                           /\ aborted' = ~ok
                        \/ /\ rest = <<>>
                           /\ breakpoints' = Drop(breakpoints, a)
                           /\ UNCHANGED <<mem, aborted>>
            /\ retired' = retired \cup {hit.owner.id}
      /\ IF aborted' THEN UNCHANGED users ELSE RecordHits(hit.ids)
      /\ hit' = IF aborted' THEN hit ELSE NoHit
      /\ UNCHANGED <<next_id, event_id, unsynced, stuck>>

Next ==
  \/ \E a \in Addr, ok \in BOOLEAN :
       \/ \E k \in EntryKinds : SetEntryBreakpoint(a, k, ok)
       \/ \E c \in Commands : SetUserStepOverBreakpoint(a, c, ok)
       \/ RemoveUserStepOverBreakpoint(a, ok)
       \/ AddUserBreakpoint(a, ok)
       \/ BeginHit(a, ok)
       \/ PlantReturn(a, ok)
  \/ \E a \in Addr : UnownedHit(a)
  \/ \E id \in UserIds, ok \in BOOLEAN :
       \/ EnableUserBreakpoint(id, ok)
       \/ DisableUserBreakpoint(id, ok)
       \/ DeleteUserBreakpoint(id, ok)
  \/ \E ok \in BOOLEAN : EndHit(ok)
  \/ MissReturn

Spec == Init /\ [][Next]_vars

-----------------------------------------------------------------------------
(* Properties *)

Breakpoint == [original_byte : Byte, enabled : BOOLEAN, owners : Seq(Owner)]
User       == [addr : Addr, enabled : BOOLEAN, hits : Nat]

TableOK ==
  /\ mem \in [Addr -> Byte]
  /\ breakpoints \in [Managed -> Breakpoint]
  /\ Managed \subseteq Addr

\* The table, the registry, the hit in progress and the histories have their
\* types (breakpoint.rs:79-218).
TypeOK ==
  /\ TableOK
  /\ users \in [DOMAIN users -> User] /\ DOMAIN users \subseteq UserIds
  /\ next_id \in 0 .. MaxId + 1
  /\ event_id \in 0 .. MaxEvent
  /\ hit \in [addr : Addr \cup {NoAddr}, owner : AllocatorOwners \cup {NoOwner},
              ids : SUBSET UserIds]
  /\ aborted \in BOOLEAN
  /\ unsynced \subseteq UserIds /\ stuck \subseteq Addr /\ retired \subseteq 1 .. MaxEvent

\* A hit being stepped over is of a managed address, and an entry hit can
\* still take the event id it is owed.
HitOpen ==
  /\ hit # NoHit => hit.addr \in Managed
  /\ hit.owner \in EntryOwners => event_id < MaxEvent

\* The debugger never loses a byte of the program: where it has armed a
\* breakpoint it holds the program's own byte, everywhere else memory is the
\* program's, whatever owners share the address and whichever writes failed.
ProgramText ==
  \A a \in Addr :
    IF a \in Managed /\ breakpoints[a].enabled
    THEN mem[a] = INT3 /\ breakpoints[a].original_byte = Text[a]
    ELSE mem[a] = Text[a]

\* Between hits every managed breakpoint is armed (all_breakpoints_rearmed):
\* the only one ever lifted is the one being stepped over.
Rearmed ==
  \A a \in Managed : ~breakpoints[a].enabled => aborted \/ hit.addr = a

Once(s, o) == \A j, k \in DOMAIN s : s[j] = o /\ s[k] = o => j = k

\* A breakpoint no owner claims is physically gone, unless restoring its byte
\* failed and the address was never claimed again.
NoIdleTrap == \A a \in Managed : breakpoints[a].owners = <<>> => a \in stuck

\* A user breakpoint claims an address only while the registry lists it,
\* enabled, at that address ...
OwnersRegistered ==
  \A a \in Managed, i \in UserIds :
    Holds(a, UserPersistent(i)) =>
      i \in DOMAIN users /\ users[i].enabled /\ users[i].addr = a

\* ... and one listed as enabled does claim it, exactly once, unless the write
\* that should have armed it failed.
EnabledArmed ==
  \A i \in DOMAIN users :
    users[i].enabled /\ i \notin unsynced =>
      /\ Holds(users[i].addr, UserPersistent(i))
      /\ Once(OwnersAt(users[i].addr), UserPersistent(i))

\* The return breakpoint that leaves after a hit is the one whose event was
\* reported, however many outstanding calls share the return address: no
\* event is ever reported by two hits.
ReportedOnce ==
  \A a \in Managed, k \in ReturnKinds, e \in retired : ~Holds(a, Allocator(k, e))

\* A hit credits every user breakpoint that stood at the address, and only
\* those: the ids read before the step are still right after it.
HitsCredited ==
  [][hit # NoHit /\ hit' = NoHit =>
       \A i \in DOMAIN users :
         users'[i].hits - users[i].hits =
           (IF Holds(hit.addr, UserPersistent(i)) THEN 1 ELSE 0)]_vars

\* While a hit is stepped over its breakpoint is lifted.
HitLifted == hit # NoHit /\ ~aborted => ~breakpoints[hit.addr].enabled

\* The strengthening under which the text and the arming are inductive: an
\* entry may be dropped without a write only because it is already lifted, and
\* the arming exempts exactly the hit in progress.
IInv == TypeOK /\ HitOpen /\ HitLifted /\ ProgramText /\ Rearmed

\* The strengthening for the owners: no claim is made twice, ids are not
\* handed out again, a return owner belongs to one outstanding call, and what
\* the hit in progress read before the step is still so.
ClaimedOnce == \A a \in Addr, o \in Owner : Once(OwnersAt(a), o)

IdsFresh == \A i \in DOMAIN users : i < next_id

ReturnsPending ==
  /\ retired \subseteq 1 .. event_id
  /\ \A a \in Addr, k \in ReturnKinds, e \in 1 .. MaxEvent :
       Holds(a, Allocator(k, e)) =>
         /\ e <= event_id /\ e \notin retired
         /\ \A b \in Addr, l \in ReturnKinds : Holds(b, Allocator(l, e)) => b = a /\ l = k

HitCurrent ==
  hit # NoHit /\ ~aborted =>
    /\ \E o \in Owner : Holds(hit.addr, o)
    /\ hit.ids = PersistentUserOwnersAt(hit.addr)
    /\ hit.owner \in ReturnOwners =>
         \E i \in DOMAIN OwnersAt(hit.addr) :
           /\ IsFirst(OwnersAt(hit.addr), i, AllocatorOwners)
           /\ OwnersAt(hit.addr)[i] = hit.owner

OInv == /\ NoIdleTrap /\ OwnersRegistered /\ EnabledArmed
        /\ ClaimedOnce /\ IdsFresh /\ ReturnsPending /\ HitCurrent

-----------------------------------------------------------------------------
(* The promise of the breakpoint table to its owners *)

Claims == [a \in Addr |-> {OwnersAt(a)[i] : i \in DOMAIN OwnersAt(a)}]

Ledger == INSTANCE TrapLedger WITH
  claims <- Claims,
  armed  <- {a \in Managed : breakpoints[a].enabled},
  lifted <- {a \in Managed : ~breakpoints[a].enabled}

\* An address traps exactly as long as an owner claims it, whoever shares it
\* (add_owner, remove_owner_at and the step over a hit together).
KeepsLedger == Ledger!Spec
=============================================================================
