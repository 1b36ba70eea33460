----------------------- MODULE BreakpointManager_proofs -----------------------
(* Theorems about the breakpoint table, for any set of addresses, any        *)
(* program text and any number of owners, calls and ids: first the bytes of  *)
(* the program, then who claims a breakpoint.                                *)
EXTENDS BreakpointManager, TLAPS

USE DEF Managed, mgrVars

-----------------------------------------------------------------------------
(* What the operations on the table preserve *)

\* Vec::remove keeps a list a list of the same things.
LEMMA WithoutType ==
  ASSUME NEW S, NEW s \in Seq(S), NEW i \in DOMAIN s
  PROVE  Without(s, i) \in Seq(S)
<1>1. i \in 1 .. Len(s) /\ Len(s) \in Nat
  OBVIOUS
<1>2. \A j \in 1 .. (Len(s) - 1) : s[j] \in S /\ s[j + 1] \in S
  BY <1>1
<1>3. Len(s) - 1 \in Nat
  BY <1>1
<1> QED
  BY <1>2, <1>3 DEF Without

\* Enabling an armed or unarmed breakpoint keeps the table typed.
LEMMA EnableType ==
  ASSUME Constants, TableOK, NEW a \in Managed, NEW s \in Seq(Owner),
         NEW ok \in BOOLEAN, Enable(a, s, ok)
  PROVE  TableOK' /\ DOMAIN breakpoints' = DOMAIN breakpoints
  BY DEF TableOK, Enable, Breakpoint, Constants

\* The same of disabling.
LEMMA DisableType ==
  ASSUME Constants, TableOK, NEW a \in Managed, NEW s \in Seq(Owner),
         NEW ok \in BOOLEAN, Disable(a, s, ok)
  PROVE  TableOK' /\ DOMAIN breakpoints' = DOMAIN breakpoints
  BY DEF TableOK, Disable, Breakpoint, Constants

\* add_owner keeps the table typed.
LEMMA AddOwnerType ==
  ASSUME Constants, TableOK, NEW a \in Addr, NEW o \in Owner,
         NEW ok \in BOOLEAN, AddOwner(a, o, ok)
  PROVE  TableOK'
<1>1. CASE a \in Managed /\ UNCHANGED mgrVars
  BY <1>1 DEF TableOK
<1>2. CASE a \in Managed /\ Enable(a, Append(breakpoints[a].owners, o), ok)
  <2>1. Append(breakpoints[a].owners, o) \in Seq(Owner)
    BY <1>2 DEF TableOK, Breakpoint
  <2> QED
    BY <1>2, <2>1, EnableType
<1>3. CASE /\ a \notin Managed
           /\ breakpoints' = Put(breakpoints, a, [original_byte |-> mem[a],
                                            enabled |-> TRUE, owners |-> <<o>>])
           /\ mem' = [mem EXCEPT ![a] = INT3]
  <2>1. [original_byte |-> mem[a], enabled |-> TRUE, owners |-> <<o>>] \in Breakpoint
    BY DEF TableOK, Breakpoint
  <2> QED
    BY <1>3, <2>1 DEF TableOK, Put, Constants
<1>4. CASE a \notin Managed /\ UNCHANGED mgrVars
  BY <1>4 DEF TableOK
<1> QED
  BY <1>1, <1>2, <1>3, <1>4 DEF AddOwner

\* remove_owner_at keeps the table typed.
LEMMA RemoveOwnerType ==
  ASSUME Constants, TableOK, NEW a \in Addr, NEW S,
         NEW ok \in BOOLEAN, RemoveOwner(a, S, ok)
  PROVE  TableOK'
<1>1. CASE UNCHANGED mgrVars
  BY <1>1 DEF TableOK
<1>2. CASE \E i \in DOMAIN OwnersAt(a) :
             /\ IsFirst(OwnersAt(a), i, S)
             /\ LET b    == breakpoints[a]
                    rest == Without(b.owners, i)
                IN  \/ /\ rest # <<>>
                       /\ breakpoints' = [breakpoints EXCEPT ![a] =
                            [original_byte |-> b.original_byte,
                             enabled |-> b.enabled, owners |-> rest]]
                       /\ UNCHANGED mem
                    \/ /\ rest = <<>>
                       /\ b.enabled /\ ~ok
                       /\ Disable(a, rest, ok)
                    \/ /\ rest = <<>>
                       /\ ~(b.enabled /\ ~ok)
                       /\ breakpoints' = Drop(breakpoints, a)
                       /\ mem' = IF b.enabled
                                 THEN [mem EXCEPT ![a] = b.original_byte] ELSE mem
  <2> DEFINE b == breakpoints[a]
  <2>1. PICK i \in DOMAIN OwnersAt(a) :
          LET rest == Without(b.owners, i)
          IN  \/ /\ breakpoints' = [breakpoints EXCEPT ![a] =
                       [original_byte |-> b.original_byte,
                        enabled |-> b.enabled, owners |-> rest]]
                 /\ UNCHANGED mem
              \/ Disable(a, rest, ok)
              \/ /\ breakpoints' = Drop(breakpoints, a)
                 /\ mem' = IF b.enabled
                           THEN [mem EXCEPT ![a] = b.original_byte] ELSE mem
    BY <1>2
  <2>2. a \in Managed /\ i \in DOMAIN b.owners
    BY <2>1 DEF OwnersAt
  <2>3. b \in Breakpoint /\ b.owners \in Seq(Owner)
    BY <2>2 DEF TableOK, Breakpoint
  <2> DEFINE rest == Without(b.owners, i)
  <2>4. rest \in Seq(Owner)
    BY <2>2, <2>3, WithoutType
  <2>5. CASE /\ breakpoints' = [breakpoints EXCEPT ![a] =
                  [original_byte |-> b.original_byte,
                   enabled |-> b.enabled, owners |-> rest]]
             /\ UNCHANGED mem
    <3>1. [original_byte |-> b.original_byte, enabled |-> b.enabled, owners |-> rest]
            \in Breakpoint
      BY <2>3, <2>4 DEF Breakpoint
    <3> HIDE DEF rest, b
    <3> QED
      BY <2>2, <2>5, <3>1 DEF TableOK
  <2>6. CASE Disable(a, rest, ok)
    BY <2>2, <2>4, <2>6, DisableType
  <2>7. CASE /\ breakpoints' = Drop(breakpoints, a)
             /\ mem' = IF b.enabled THEN [mem EXCEPT ![a] = b.original_byte] ELSE mem
    <3>1. b.original_byte \in Byte
      BY <2>3 DEF Breakpoint
    <3> QED
      BY <2>7, <3>1 DEF TableOK, Drop
  <2> QED
    BY <2>1, <2>5, <2>6, <2>7
<1> QED
  BY <1>1, <1>2 DEF RemoveOwner

-----------------------------------------------------------------------------
(* The program's text *)

\* Arming saves the program's byte, or leaves an armed breakpoint alone.
LEMMA EnableText ==
  ASSUME Constants, TableOK, ProgramText, NEW a \in Managed, NEW s,
         NEW ok \in BOOLEAN, Enable(a, s, ok)
  PROVE  ProgramText'
  BY DEF TableOK, Enable, Breakpoint, Constants, ProgramText

\* Disarming puts the saved byte back.
LEMMA DisableText ==
  ASSUME Constants, TableOK, ProgramText, NEW a \in Managed, NEW s,
         NEW ok \in BOOLEAN, Disable(a, s, ok)
  PROVE  ProgramText'
  BY DEF TableOK, Disable, Breakpoint, Constants, ProgramText

\* A new owner saves the program's byte or shares the armed breakpoint.
LEMMA AddOwnerText ==
  ASSUME Constants, TableOK, ProgramText, NEW a \in Addr, NEW o,
         NEW ok \in BOOLEAN, AddOwner(a, o, ok)
  PROVE  ProgramText'
<1>1. CASE UNCHANGED mgrVars
  BY <1>1 DEF ProgramText
<1>2. CASE a \in Managed /\ Enable(a, Append(breakpoints[a].owners, o), ok)
  BY <1>2, EnableText
<1>3. CASE /\ a \notin Managed
           /\ breakpoints' = Put(breakpoints, a, [original_byte |-> mem[a],
                                            enabled |-> TRUE, owners |-> <<o>>])
           /\ mem' = [mem EXCEPT ![a] = INT3]
  BY <1>3 DEF TableOK, ProgramText, Put, Constants
<1> QED
  BY <1>1, <1>2, <1>3 DEF AddOwner

\* The last owner to leave restores the program's byte, or leaves INT3 with
\* the byte still saved.
LEMMA RemoveOwnerText ==
  ASSUME Constants, TableOK, ProgramText, NEW a \in Addr, NEW S,
         NEW ok \in BOOLEAN, RemoveOwner(a, S, ok)
  PROVE  ProgramText'
<1>1. CASE UNCHANGED mgrVars
  BY <1>1 DEF ProgramText
<1>2. CASE ~UNCHANGED mgrVars
  <2> DEFINE b == breakpoints[a]
  <2>1. PICK i \in DOMAIN OwnersAt(a) :
          LET rest == Without(b.owners, i)
          IN  \/ /\ breakpoints' = [breakpoints EXCEPT ![a] =
                       [original_byte |-> b.original_byte,
                        enabled |-> b.enabled, owners |-> rest]]
                 /\ UNCHANGED mem
              \/ Disable(a, rest, ok)
              \/ /\ breakpoints' = Drop(breakpoints, a)
                 /\ mem' = IF b.enabled
                           THEN [mem EXCEPT ![a] = b.original_byte] ELSE mem
    BY <1>2 DEF RemoveOwner
  <2>2. a \in Managed
    BY <2>1 DEF OwnersAt
  <2> DEFINE rest == Without(b.owners, i)
  <2>5. CASE /\ breakpoints' = [breakpoints EXCEPT ![a] =
                  [original_byte |-> b.original_byte,
                   enabled |-> b.enabled, owners |-> rest]]
             /\ UNCHANGED mem
    <3> HIDE DEF rest
    <3> QED
      BY <2>2, <2>5 DEF TableOK, ProgramText
  <2>6. CASE Disable(a, rest, ok)
    <3> HIDE DEF rest
    <3> QED
      BY <2>2, <2>6, DisableText
  <2>7. CASE /\ breakpoints' = Drop(breakpoints, a)
             /\ mem' = IF b.enabled THEN [mem EXCEPT ![a] = b.original_byte] ELSE mem
    BY <2>2, <2>7 DEF TableOK, Drop, ProgramText, Constants
  <2> QED
    BY <2>1, <2>5, <2>6, <2>7
<1> QED
  BY <1>1, <1>2

-----------------------------------------------------------------------------
(* Which breakpoints are armed *)

Lifted == {a \in Managed : ~breakpoints[a].enabled}

\* No address loses its arming when an owner is added.
LEMMA AddOwnerArms ==
  ASSUME TableOK, NEW a \in Addr, NEW o, NEW ok \in BOOLEAN, AddOwner(a, o, ok)
  PROVE  /\ Lifted' \subseteq Lifted /\ DOMAIN breakpoints \subseteq DOMAIN breakpoints'
         /\ \A x \in Managed \ {a} : breakpoints'[x] = breakpoints[x]
<1>1. CASE UNCHANGED mgrVars
  BY <1>1 DEF Lifted
<1>2. CASE a \in Managed /\ Enable(a, Append(breakpoints[a].owners, o), ok)
  BY <1>2 DEF TableOK, Lifted, Enable
<1>3. CASE /\ a \notin Managed
           /\ breakpoints' = Put(breakpoints, a, [original_byte |-> mem[a],
                                            enabled |-> TRUE, owners |-> <<o>>])
  BY <1>3 DEF TableOK, Lifted, Put
<1> QED
  BY <1>1, <1>2, <1>3 DEF AddOwner

\* None does when an owner leaves: the last one takes the entry away.
LEMMA RemoveOwnerArms ==
  ASSUME TableOK, NEW a \in Addr, NEW S, NEW ok \in BOOLEAN, RemoveOwner(a, S, ok)
  PROVE  Lifted' \subseteq Lifted
<1>1. CASE UNCHANGED mgrVars
  BY <1>1 DEF Lifted
<1>2. CASE ~UNCHANGED mgrVars
  <2> DEFINE b == breakpoints[a]
  <2>1. PICK i \in DOMAIN OwnersAt(a) :
          LET rest == Without(b.owners, i)
          IN  \/ breakpoints' = [breakpoints EXCEPT ![a] =
                       [original_byte |-> b.original_byte,
                        enabled |-> b.enabled, owners |-> rest]]
              \/ b.enabled /\ ~ok /\ Disable(a, rest, ok)
              \/ breakpoints' = Drop(breakpoints, a)
    BY <1>2 DEF RemoveOwner
  <2>2. a \in Managed
    BY <2>1 DEF OwnersAt
  <2> DEFINE rest == Without(b.owners, i)
  <2> HIDE DEF rest
  <2>3. CASE breakpoints' = [breakpoints EXCEPT ![a] =
                  [original_byte |-> b.original_byte,
                   enabled |-> b.enabled, owners |-> rest]]
    BY <2>2, <2>3 DEF TableOK, Lifted
  <2>4. CASE b.enabled /\ ~ok /\ Disable(a, rest, ok)
    BY <2>2, <2>4 DEF TableOK, Lifted, Disable
  <2>5. CASE breakpoints' = Drop(breakpoints, a)
    BY <2>2, <2>5 DEF TableOK, Lifted, Drop
  <2> QED
    BY <2>1, <2>3, <2>4, <2>5 DEF rest
<1> QED
  BY <1>1, <1>2

-----------------------------------------------------------------------------
(* Type correctness *)

\* Initially nothing is managed and memory is the program's.
LEMMA InitIInv == ASSUME Constants PROVE Init => IInv
<1> SUFFICES ASSUME Init PROVE IInv
  OBVIOUS
<1>1. DOMAIN breakpoints = {} /\ DOMAIN users = {}
  BY DEF Init
<1>2. NoHit \in [addr : Addr \cup {NoAddr}, owner : AllocatorOwners \cup {NoOwner},
                 ids : SUBSET UserIds]
  BY DEF NoHit
<1>3. NoHit.owner \notin EntryOwners
  BY DEF NoHit, NoOwner, EntryOwners, Allocator
<1>4. TypeOK
  <2>1. breakpoints \in [DOMAIN breakpoints -> Breakpoint] /\ users \in [DOMAIN users -> User]
    BY <1>1 DEF Init
  <2>2. next_id \in 0 .. MaxId + 1 /\ event_id \in 0 .. MaxEvent
    BY DEF Init, Constants
  <2> QED
    BY <1>1, <1>2, <2>1, <2>2 DEF Init, TypeOK, TableOK, Constants
<1>5. HitOpen /\ HitLifted /\ ProgramText /\ Rearmed
  BY <1>1, <1>3 DEF Init, HitOpen, HitLifted, ProgramText, Rearmed
<1> QED
  BY <1>4, <1>5 DEF IInv

\* The registry with a breakpoint added, updated or removed is a registry.
LEMMA PutUser ==
  ASSUME TypeOK, NEW id \in UserIds, NEW u \in User
  PROVE  LET f == Put(users, id, u)
         IN  f \in [DOMAIN f -> User] /\ DOMAIN f \subseteq UserIds
  BY DEF TypeOK, Put

LEMMA RecordHitsType ==
  ASSUME TypeOK, NEW ids, RecordHits(ids)
  PROVE  users' \in [DOMAIN users' -> User] /\ DOMAIN users' \subseteq UserIds
<1>1. \A i \in DOMAIN users : [users[i] EXCEPT !.hits = @ + 1] \in User
  BY DEF TypeOK, User
<1> QED
  BY <1>1 DEF TypeOK, RecordHits

\* The owners the operations add are owners.
LEMMA OwnerTypes ==
  /\ \A k \in EntryKinds : Allocator(k, 0) \in Owner
  /\ \A c \in Commands : StepOver(c) \in Owner
  /\ \A i \in UserIds : UserPersistent(i) \in Owner
  /\ \A k \in ReturnKinds, e \in 1 .. MaxEvent : Allocator(k, e) \in Owner
  /\ NoOwner \notin AllocatorOwners
<1>1. \A k \in EntryKinds : Allocator(k, 0) \in Owner
  BY DEF Owner, AllocatorOwners, EntryOwners
<1>2. \A c \in Commands : StepOver(c) \in Owner
  BY DEF Owner, StepOverOwners
<1>3. \A i \in UserIds : UserPersistent(i) \in Owner
  BY DEF Owner, UserOwners
<1>4. \A k \in ReturnKinds, e \in 1 .. MaxEvent : Allocator(k, e) \in Owner
  BY DEF Owner, AllocatorOwners, ReturnOwners
<1>5. NoOwner \notin AllocatorOwners
  <2>1. \A k, e : Allocator(k, e).tag # NoOwner.tag
    BY DEF NoOwner, Allocator
  <2> QED
    BY <2>1 DEF AllocatorOwners, EntryOwners, ReturnOwners
<1> QED
  BY <1>1, <1>2, <1>3, <1>4, <1>5

\* Every step keeps the types and an open hit serviceable.
LEMMA TypeStep ==
  ASSUME Constants, TypeOK, HitOpen, [Next]_vars
  PROVE  TypeOK' /\ HitOpen'
<1> USE DEF Idle, history
<1>0. TableOK /\ NoHit.addr = NoAddr /\ NoHit.owner = NoOwner
  BY DEF TypeOK, NoHit
<1>1. ASSUME NEW a \in Addr, NEW ok \in BOOLEAN, NEW k \in EntryKinds,
             SetEntryBreakpoint(a, k, ok)
      PROVE  TypeOK' /\ HitOpen'
  <2>1. TableOK'
    BY <1>0, <1>1, AddOwnerType, OwnerTypes DEF SetEntryBreakpoint
  <2> QED
    BY <1>0, <1>1, <2>1, OwnerTypes
    DEF SetEntryBreakpoint, TypeOK, HitOpen, StuckAfterAdd, AddOwnerFails,
        AllocatorOwners
<1>2. ASSUME NEW a \in Addr, NEW ok \in BOOLEAN, NEW c \in Commands,
             SetUserStepOverBreakpoint(a, c, ok)
      PROVE  TypeOK' /\ HitOpen'
  <2>1. TableOK'
    BY <1>0, <1>2, AddOwnerType, OwnerTypes DEF SetUserStepOverBreakpoint
  <2> QED
    BY <1>0, <1>2, <2>1, OwnerTypes
    DEF SetUserStepOverBreakpoint, TypeOK, HitOpen, StuckAfterAdd, AllocatorOwners
<1>3. ASSUME NEW a \in Addr, NEW ok \in BOOLEAN,
             RemoveUserStepOverBreakpoint(a, ok)
      PROVE  TypeOK' /\ HitOpen'
  <2>1. TableOK'
    BY <1>0, <1>3, RemoveOwnerType DEF RemoveUserStepOverBreakpoint
  <2> QED
    BY <1>0, <1>3, <2>1, OwnerTypes
    DEF RemoveUserStepOverBreakpoint, TypeOK, HitOpen, StuckAfterRemove,
        RemoveOwnerFails, AllocatorOwners
<1>4. ASSUME NEW a \in Addr, NEW ok \in BOOLEAN, AddUserBreakpoint(a, ok)
      PROVE  TypeOK' /\ HitOpen'
  <2> DEFINE id == IF next_id > 1 THEN next_id ELSE 1
             u  == [addr |-> a, enabled |-> TRUE, hits |-> 0]
  <2>1. id \in UserIds /\ next_id' = id + 1 /\ users' = Put(users, id, u)
    BY <1>4 DEF AddUserBreakpoint, TypeOK, UserIds, Constants
  <2>2. TableOK'
    BY <1>0, <1>4, <2>1, AddOwnerType, OwnerTypes DEF AddUserBreakpoint
  <2>3. u \in User
    BY DEF User
  <2>4. users' \in [DOMAIN users' -> User] /\ DOMAIN users' \subseteq UserIds
    BY <2>1, <2>3, PutUser
  <2>5. next_id' \in 0 .. MaxId + 1 /\ unsynced' \subseteq UserIds
        /\ stuck' \subseteq Addr
    BY <1>4, <2>1
    DEF AddUserBreakpoint, TypeOK, UserIds, Constants, StuckAfterAdd, UnsyncedAfterAdd
  <2> QED
    BY <1>0, <1>4, <2>2, <2>4, <2>5, OwnerTypes
    DEF AddUserBreakpoint, TypeOK, HitOpen, AllocatorOwners
<1>5. ASSUME NEW a \in Addr, NEW ok \in BOOLEAN, BeginHit(a, ok)
      PROVE  TypeOK' /\ HitOpen'
  <2>1. TableOK' /\ DOMAIN breakpoints' = DOMAIN breakpoints
    BY <1>0, <1>5, DisableType DEF BeginHit, TableOK, Breakpoint
  <2>2. PersistentUserOwnersAt(a) \in SUBSET UserIds
    BY DEF PersistentUserOwnersAt
  <2>3. CASE \E i \in DOMAIN OwnersAt(a) :
               /\ IsFirst(OwnersAt(a), i, AllocatorOwners)
               /\ OwnersAt(a)[i] \in EntryOwners => event_id < MaxEvent
               /\ hit' = [addr |-> a, owner |-> OwnersAt(a)[i],
                          ids |-> PersistentUserOwnersAt(a)]
    BY <1>5, <2>1, <2>2, <2>3 DEF BeginHit, TypeOK, HitOpen, IsFirst
  <2>4. CASE hit' = [addr |-> a, owner |-> NoOwner, ids |-> PersistentUserOwnersAt(a)]
    BY <1>5, <2>1, <2>2, <2>4, OwnerTypes DEF BeginHit, TypeOK, HitOpen, AllocatorOwners
  <2> QED
    BY <1>5, <2>3, <2>4 DEF BeginHit
<1>6. ASSUME NEW r \in Addr, NEW ok \in BOOLEAN, PlantReturn(r, ok)
      PROVE  TypeOK' /\ HitOpen'
  <2> DEFINE o == Allocator(ReturnOf[hit.owner.kind], event_id + 1)
  <2>1. hit.owner.kind \in EntryKinds /\ event_id + 1 \in 1 .. MaxEvent
    BY <1>6 DEF PlantReturn, HitOpen, TypeOK, EntryOwners, Allocator, Constants
  <2>2. o \in Owner
    BY <2>1, OwnerTypes DEF Constants
  <2>3. AddOwner(r, o, ok)
    BY <1>6 DEF PlantReturn
  <2>4. TableOK' /\ DOMAIN breakpoints \subseteq DOMAIN breakpoints'
    BY <1>0, <2>2, <2>3, AddOwnerType, AddOwnerArms
  <2> QED
    BY <1>6, <2>1, <2>4, OwnerTypes
    DEF PlantReturn, TypeOK, HitOpen, StuckAfterAdd, AddOwnerFails, NoHit,
        AllocatorOwners
<1>7. ASSUME NEW a \in Addr, UnownedHit(a)
      PROVE  TypeOK' /\ HitOpen'
  BY <1>7 DEF UnownedHit, TypeOK, TableOK, HitOpen
<1>8. ASSUME NEW id \in UserIds, NEW ok \in BOOLEAN, EnableUserBreakpoint(id, ok)
      PROVE  TypeOK' /\ HitOpen'
  <2>1. id \in DOMAIN users /\ users[id] \in User /\ users[id].addr \in Addr
    BY <1>8 DEF EnableUserBreakpoint, TypeOK, User
  <2>2. users' \in [DOMAIN users' -> User] /\ DOMAIN users' \subseteq UserIds
    BY <1>8, <2>1 DEF EnableUserBreakpoint, TypeOK, User
  <2>3. TableOK'
    BY <1>0, <1>8, <2>1, AddOwnerType, OwnerTypes DEF EnableUserBreakpoint, TableOK
  <2> QED
    BY <1>0, <1>8, <2>2, <2>3, OwnerTypes
    DEF EnableUserBreakpoint, TypeOK, HitOpen, StuckAfterAdd, UnsyncedAfterAdd,
        AllocatorOwners
<1>9. ASSUME NEW id \in UserIds, NEW ok \in BOOLEAN, DisableUserBreakpoint(id, ok)
      PROVE  TypeOK' /\ HitOpen'
  <2>1. id \in DOMAIN users /\ users[id] \in User /\ users[id].addr \in Addr
    BY <1>9 DEF DisableUserBreakpoint, TypeOK, User
  <2>2. users' \in [DOMAIN users' -> User] /\ DOMAIN users' \subseteq UserIds
    BY <1>9, <2>1 DEF DisableUserBreakpoint, TypeOK, User
  <2>3. TableOK'
    BY <1>0, <1>9, <2>1, RemoveOwnerType DEF DisableUserBreakpoint, TableOK
  <2>4. stuck' \subseteq Addr
    BY <1>9, <2>1 DEF DisableUserBreakpoint, TypeOK, StuckAfterRemove
  <2> QED
    BY <1>0, <1>9, <2>2, <2>3, <2>4, OwnerTypes
    DEF DisableUserBreakpoint, TypeOK, HitOpen, AllocatorOwners
<1>10. ASSUME NEW id \in UserIds, NEW ok \in BOOLEAN, DeleteUserBreakpoint(id, ok)
       PROVE  TypeOK' /\ HitOpen'
  <2>1. id \in DOMAIN users /\ users[id] \in User /\ users[id].addr \in Addr
    BY <1>10 DEF DeleteUserBreakpoint, TypeOK, User
  <2>2. users' \in [DOMAIN users' -> User] /\ DOMAIN users' \subseteq UserIds
    BY <1>10, <2>1 DEF DeleteUserBreakpoint, TypeOK, Drop
  <2>3. TableOK'
    BY <1>0, <1>10, <2>1, RemoveOwnerType DEF DeleteUserBreakpoint, TableOK
  <2>4. stuck' \subseteq Addr
    BY <1>10, <2>1 DEF DeleteUserBreakpoint, TypeOK, StuckAfterRemove
  <2> QED
    BY <1>0, <1>10, <2>2, <2>3, <2>4, OwnerTypes
    DEF DeleteUserBreakpoint, TypeOK, HitOpen, AllocatorOwners
<1>11. ASSUME NEW ok \in BOOLEAN, EndHit(ok)
       PROVE  TypeOK' /\ HitOpen'
  <2> DEFINE a == hit.addr
  <2>1. a \in Managed /\ a \in Addr /\ breakpoints[a].owners \in Seq(Owner)
        /\ aborted \in BOOLEAN /\ ~aborted
    BY <1>0, <1>11 DEF EndHit, HitOpen, TableOK, Breakpoint, TypeOK
  <2>2. TableOK' /\ (aborted' => DOMAIN breakpoints' = DOMAIN breakpoints)
        /\ aborted' \in BOOLEAN
    <3>1. CASE /\ Enable(a, breakpoints[a].owners, ok)
               /\ aborted' = ~ok
      BY <1>0, <2>1, <3>1, EnableType
    <3>2. CASE \E i \in DOMAIN OwnersAt(a) :
                 LET rest == Without(OwnersAt(a), i)
                 IN  \/ Enable(a, rest, ok) /\ aborted' = ~ok
                     \/ breakpoints' = Drop(breakpoints, a) /\ UNCHANGED <<mem, aborted>>
      <4>1. PICK i \in DOMAIN OwnersAt(a) :
              LET rest == Without(OwnersAt(a), i)
              IN  \/ Enable(a, rest, ok) /\ aborted' = ~ok
                  \/ breakpoints' = Drop(breakpoints, a) /\ UNCHANGED <<mem, aborted>>
        BY <3>2
      <4>2. Without(OwnersAt(a), i) \in Seq(Owner)
        BY <2>1, WithoutType DEF OwnersAt
      <4>3. CASE Enable(a, Without(OwnersAt(a), i), ok) /\ aborted' = ~ok
        BY <1>0, <2>1, <4>2, <4>3, EnableType
      <4>4. CASE breakpoints' = Drop(breakpoints, a) /\ UNCHANGED <<mem, aborted>>
        BY <1>0, <2>1, <4>4 DEF TableOK, Drop
      <4> QED
        BY <4>1, <4>3, <4>4
    <3> QED
      BY <1>11, <3>1, <3>2 DEF EndHit
  <2>3. users' \in [DOMAIN users' -> User] /\ DOMAIN users' \subseteq UserIds
    BY <1>11, RecordHitsType DEF EndHit, TypeOK
  <2>4. retired' \subseteq 1 .. MaxEvent
    BY <1>11 DEF EndHit, TypeOK, ReturnOwners, Allocator
  <2>5. NoHit \in [addr : Addr \cup {NoAddr}, owner : AllocatorOwners \cup {NoOwner},
                   ids : SUBSET UserIds]
    BY DEF NoHit
  <2> QED
    BY <1>0, <1>11, <2>2, <2>3, <2>4, <2>5, OwnerTypes
    DEF EndHit, TypeOK, HitOpen, AllocatorOwners
<1>12. ASSUME MissReturn
       PROVE  TypeOK' /\ HitOpen'
  BY <1>12, OwnerTypes
  DEF MissReturn, TypeOK, TableOK, HitOpen, NoHit, AllocatorOwners, Constants
<1>13. CASE UNCHANGED vars
  BY <1>13 DEF vars, TypeOK, TableOK, HitOpen
<1> QED
  BY <1>1, <1>2, <1>3, <1>4, <1>5, <1>6, <1>7, <1>8, <1>9, <1>10, <1>11, <1>12,
     <1>13 DEF Next

\* The table, the registry and the hit in progress are always typed, and a
\* hit in progress is of a managed address (breakpoint.rs:214-450).
THEOREM TypeCorrect == ASSUME Constants PROVE Spec => [](TypeOK /\ HitOpen)
<1>1. Init => TypeOK /\ HitOpen
  BY InitIInv DEF IInv
<1>2. TypeOK /\ HitOpen /\ [Next]_vars => (TypeOK /\ HitOpen)'
  BY TypeStep
<1> QED
  BY <1>1, <1>2, PTL DEF Spec

-----------------------------------------------------------------------------
(* The program's text and the arming of its breakpoints *)

\* Finishing a hit: either the address is armed again under the owners that
\* are left, or no owner is left and the lifted entry goes.
LEMMA EndHitTable ==
  ASSUME TypeOK, HitOpen, NEW ok \in BOOLEAN, EndHit(ok)
  PROVE  /\ hit.addr \in Managed
         /\ \/ (\E s : Enable(hit.addr, s, ok)) /\ aborted' = ~ok
            \/ breakpoints' = Drop(breakpoints, hit.addr) /\ UNCHANGED <<mem, aborted>>
<1>1. hit.addr \in Managed
  BY DEF EndHit, HitOpen
<1>2. CASE hit.owner \notin ReturnOwners
  BY <1>1, <1>2 DEF EndHit
<1>3. CASE hit.owner \in ReturnOwners
  BY <1>1, <1>3 DEF EndHit
<1> QED
  BY <1>2, <1>3

\* The text survives every step.  A hit lifts its breakpoint before it drops
\* it (the drop writes nothing), which is why arming comes along.
LEMMA TextStep ==
  ASSUME Constants, IInv, [Next]_vars
  PROVE  ProgramText'
<1> USE DEF history
<1>0. TableOK /\ TypeOK /\ HitOpen /\ ProgramText
  BY DEF IInv, TypeOK
<1>1. ASSUME NEW a \in Addr, NEW o, NEW ok \in BOOLEAN, AddOwner(a, o, ok)
      PROVE  ProgramText'
  BY <1>0, <1>1, AddOwnerText
<1>2. ASSUME NEW a \in Addr, NEW S, NEW ok \in BOOLEAN, RemoveOwner(a, S, ok)
      PROVE  ProgramText'
  BY <1>0, <1>2, RemoveOwnerText
<1>3. ASSUME UNCHANGED mgrVars PROVE ProgramText'
  BY <1>0, <1>3 DEF ProgramText
<1>4. \A id \in DOMAIN users : users[id].addr \in Addr
  BY <1>0 DEF TypeOK, User
<1>5. ASSUME NEW a \in Addr, NEW ok \in BOOLEAN, BeginHit(a, ok)
      PROVE  ProgramText'
  BY <1>0, <1>5, DisableText DEF BeginHit
<1>6. ASSUME NEW ok \in BOOLEAN, EndHit(ok)
      PROVE  ProgramText'
  <2>1. CASE \E s : Enable(hit.addr, s, ok)
    BY <1>0, <1>6, <2>1, EndHitTable, EnableText
  <2>2. CASE breakpoints' = Drop(breakpoints, hit.addr) /\ UNCHANGED mem
    <3>1. hit.addr \in Managed /\ ~breakpoints[hit.addr].enabled
      BY <1>0, <1>6 DEF EndHit, HitOpen, HitLifted, IInv
    <3> QED
      BY <1>0, <2>2, <3>1 DEF ProgramText, Drop, TableOK
  <2> QED
    BY <1>0, <1>6, <2>1, <2>2, EndHitTable
<1>7. ASSUME NEW a \in Addr, NEW ok \in BOOLEAN, NEW k \in EntryKinds, SetEntryBreakpoint(a, k, ok)
       PROVE  ProgramText'
  BY <1>7, <1>1 DEF SetEntryBreakpoint
<1>8. ASSUME NEW a \in Addr, NEW ok \in BOOLEAN, NEW c \in Commands, SetUserStepOverBreakpoint(a, c, ok)
       PROVE  ProgramText'
  BY <1>8, <1>1 DEF SetUserStepOverBreakpoint
<1>9. ASSUME NEW a \in Addr, NEW ok \in BOOLEAN, RemoveUserStepOverBreakpoint(a, ok)
       PROVE  ProgramText'
  BY <1>9, <1>2 DEF RemoveUserStepOverBreakpoint
<1>10. ASSUME NEW a \in Addr, NEW ok \in BOOLEAN, AddUserBreakpoint(a, ok)
        PROVE  ProgramText'
  BY <1>10, <1>1 DEF AddUserBreakpoint
<1>11. ASSUME NEW id \in UserIds, NEW ok \in BOOLEAN, EnableUserBreakpoint(id, ok)
        PROVE  ProgramText'
  BY <1>11, <1>1, <1>3, <1>4 DEF EnableUserBreakpoint
<1>12. ASSUME NEW id \in UserIds, NEW ok \in BOOLEAN, DisableUserBreakpoint(id, ok)
        PROVE  ProgramText'
  BY <1>12, <1>2, <1>3, <1>4 DEF DisableUserBreakpoint
<1>13. ASSUME NEW id \in UserIds, NEW ok \in BOOLEAN, DeleteUserBreakpoint(id, ok)
        PROVE  ProgramText'
  BY <1>13, <1>2, <1>3, <1>4 DEF DeleteUserBreakpoint
<1>14. ASSUME NEW r \in Addr, NEW ok \in BOOLEAN, PlantReturn(r, ok)
       PROVE  ProgramText'
  BY <1>14, <1>1 DEF PlantReturn
<1>15. ASSUME NEW a \in Addr, UnownedHit(a)
       PROVE  ProgramText'
  BY <1>15, <1>3 DEF UnownedHit
<1>16. CASE MissReturn \/ UNCHANGED vars
  BY <1>16, <1>3 DEF MissReturn, vars
<1> QED
  BY <1>5, <1>6, <1>7, <1>8, <1>9, <1>10, <1>11, <1>12, <1>13, <1>14, <1>15, <1>16
  DEF Next

\* Only the hit in progress is lifted, and it stays lifted until it ends.
LEMMA ArmedStep ==
  ASSUME Constants, IInv, [Next]_vars
  PROVE  HitLifted' /\ Rearmed'
<1> USE DEF history, Idle
<1>0. TableOK /\ TypeOK /\ HitOpen /\ HitLifted /\ Rearmed
  BY DEF IInv, TypeOK
<1>1. ASSUME Lifted' \subseteq Lifted, hit' = NoHit, hit = NoHit, ~aborted
      PROVE  HitLifted' /\ Rearmed'
  BY <1>0, <1>1 DEF Lifted, HitLifted, Rearmed
<1>2. ASSUME NEW a \in Addr, NEW o, NEW ok \in BOOLEAN, AddOwner(a, o, ok), Idle,
             hit' = hit
      PROVE  HitLifted' /\ Rearmed'
  BY <1>0, <1>1, <1>2, AddOwnerArms
<1>3. ASSUME NEW a \in Addr, NEW S, NEW ok \in BOOLEAN, RemoveOwner(a, S, ok), Idle,
             hit' = hit
      PROVE  HitLifted' /\ Rearmed'
  BY <1>0, <1>1, <1>3, RemoveOwnerArms
<1>4. ASSUME UNCHANGED mgrVars, Idle, hit' = hit
      PROVE  HitLifted' /\ Rearmed'
  BY <1>1, <1>4 DEF Lifted
<1>5. \A id \in DOMAIN users : users[id].addr \in Addr
  BY <1>0 DEF TypeOK, User
<1>6. ASSUME NEW a \in Addr, NEW ok \in BOOLEAN, BeginHit(a, ok)
      PROVE  HitLifted' /\ Rearmed'
  <2>1. hit'.addr = a /\ a \in Managed /\ aborted' = ~ok
        /\ Disable(a, breakpoints[a].owners, ok)
    BY <1>6 DEF BeginHit
  <2>2. Lifted' \subseteq Lifted \cup {a} /\ (ok => ~breakpoints'[a].enabled)
    BY <1>0, <2>1 DEF Disable, TableOK, Lifted
  <2>3. Lifted = {}
    BY <1>0, <1>6 DEF BeginHit, Rearmed, Lifted, NoHit, Constants, TableOK
  <2> QED
    BY <2>1, <2>2, <2>3 DEF HitLifted, Rearmed, Lifted
<1>7. ASSUME NEW r \in Addr, NEW ok \in BOOLEAN, PlantReturn(r, ok)
      PROVE  HitLifted' /\ Rearmed'
  <2>1. PICK o : AddOwner(r, o, ok)
    BY <1>7 DEF PlantReturn
  <2>2. Lifted' \subseteq Lifted /\ \A x \in Managed \ {r} : breakpoints'[x] = breakpoints[x]
    BY <1>0, <2>1, AddOwnerArms
  <2>3. hit'.addr = hit.addr /\ hit.addr \in Managed /\ r # hit.addr
        /\ ~aborted /\ hit # NoHit
    BY <1>0, <1>7 DEF PlantReturn, HitOpen, TypeOK
  <2> QED
    BY <1>0, <2>2, <2>3 DEF HitLifted, Rearmed, Lifted
<1>8. ASSUME NEW ok \in BOOLEAN, EndHit(ok)
      PROVE  HitLifted' /\ Rearmed'
  <2>1. hit.addr \in Managed /\ ~aborted /\ hit # NoHit /\ Lifted \subseteq {hit.addr}
        /\ ~breakpoints[hit.addr].enabled
    BY <1>0, <1>8 DEF EndHit, HitOpen, HitLifted, Rearmed, Lifted
  <2>2. CASE \E s : Enable(hit.addr, s, ok) /\ aborted' = ~ok
    <3>1. Lifted' \subseteq {hit.addr} /\ (ok => Lifted' = {})
      BY <1>0, <2>1, <2>2 DEF Enable, TableOK, Lifted
    <3> QED
      BY <1>8, <2>2, <3>1 DEF EndHit, HitLifted, Rearmed, Lifted
  <2>3. CASE breakpoints' = Drop(breakpoints, hit.addr) /\ UNCHANGED <<mem, aborted>>
    <3>1. Lifted' = {}
      BY <2>1, <2>3 DEF Drop, Lifted
    <3> QED
      BY <1>8, <2>1, <2>3, <3>1 DEF EndHit, HitLifted, Rearmed, Lifted
  <2> QED
    BY <1>0, <1>8, <2>2, <2>3, EndHitTable
<1>9. ASSUME MissReturn PROVE HitLifted' /\ Rearmed'
  <2>1. hit'.addr = hit.addr /\ hit # NoHit
    BY <1>0, <1>9 DEF MissReturn, TypeOK
  <2> QED
    BY <1>0, <1>9, <2>1 DEF MissReturn, HitLifted, Rearmed
<1>10. ASSUME NEW a \in Addr, UnownedHit(a) PROVE HitLifted' /\ Rearmed'
  BY <1>0, <1>10 DEF UnownedHit, HitLifted, Rearmed
<1>11. CASE UNCHANGED vars
  BY <1>0, <1>11 DEF vars, HitLifted, Rearmed
<1>12. ASSUME NEW a \in Addr, NEW ok \in BOOLEAN, NEW k \in EntryKinds, SetEntryBreakpoint(a, k, ok)
        PROVE  HitLifted' /\ Rearmed'
  BY <1>12, <1>2 DEF SetEntryBreakpoint
<1>13. ASSUME NEW a \in Addr, NEW ok \in BOOLEAN, NEW c \in Commands, SetUserStepOverBreakpoint(a, c, ok)
        PROVE  HitLifted' /\ Rearmed'
  BY <1>13, <1>2 DEF SetUserStepOverBreakpoint
<1>14. ASSUME NEW a \in Addr, NEW ok \in BOOLEAN, RemoveUserStepOverBreakpoint(a, ok)
        PROVE  HitLifted' /\ Rearmed'
  BY <1>14, <1>3 DEF RemoveUserStepOverBreakpoint
<1>15. ASSUME NEW a \in Addr, NEW ok \in BOOLEAN, AddUserBreakpoint(a, ok)
        PROVE  HitLifted' /\ Rearmed'
  BY <1>15, <1>2 DEF AddUserBreakpoint
<1>16. ASSUME NEW id \in UserIds, NEW ok \in BOOLEAN, EnableUserBreakpoint(id, ok)
        PROVE  HitLifted' /\ Rearmed'
  BY <1>16, <1>2, <1>4, <1>5 DEF EnableUserBreakpoint
<1>17. ASSUME NEW id \in UserIds, NEW ok \in BOOLEAN, DisableUserBreakpoint(id, ok)
        PROVE  HitLifted' /\ Rearmed'
  BY <1>17, <1>3, <1>4, <1>5 DEF DisableUserBreakpoint
<1>18. ASSUME NEW id \in UserIds, NEW ok \in BOOLEAN, DeleteUserBreakpoint(id, ok)
        PROVE  HitLifted' /\ Rearmed'
  BY <1>18, <1>3, <1>4, <1>5 DEF DeleteUserBreakpoint
<1> QED
  BY <1>6, <1>7, <1>8, <1>9, <1>10, <1>11, <1>12, <1>13, <1>14, <1>15, <1>16, <1>17, <1>18
  DEF Next

\* The debugger never loses a byte of the program it traces, and never lets
\* the program run past a breakpoint it believes armed: for every program
\* text, set of addresses, sharing of owners and pattern of failing writes.
THEOREM TextPreserved == ASSUME Constants PROVE Spec => []IInv
<1>1. Init => IInv
  BY InitIInv
<1>2. IInv /\ [Next]_vars => IInv'
  BY TypeStep, TextStep, ArmedStep DEF IInv
<1> QED
  BY <1>1, <1>2, PTL DEF Spec

\* The run's invariants ProgramText and Rearmed, for every instance.
COROLLARY ProgramTextRearmed == ASSUME Constants PROVE Spec => [](ProgramText /\ Rearmed)
<1>1. IInv => ProgramText /\ Rearmed
  BY DEF IInv
<1> QED
  BY <1>1, TextPreserved, PTL

\* The run's Rearmed for every instance: between hits every managed breakpoint stands.
COROLLARY AlwaysRearmed == ASSUME Constants PROVE Spec => []Rearmed
  BY ProgramTextRearmed, PTL

-----------------------------------------------------------------------------
(* Who claims a breakpoint: the owner lists of breakpoint.rs agree with    *)
(* the registry of user breakpoints, with the calls in flight and with the *)
(* ledger the table promises its owners.                                   *)

Has(s, o) == \E i \in DOMAIN s : s[i] = o

-----------------------------------------------------------------------------
(* Lists of owners *)

\* Vec::remove takes out one occurrence and nothing else.
LEMMA WithoutHas ==
  ASSUME NEW S, NEW s \in Seq(S), NEW i \in DOMAIN s, NEW o
  PROVE  /\ Has(Without(s, i), o) => Has(s, o)
         /\ Has(s, o) /\ o # s[i] => Has(Without(s, i), o)
         /\ Once(s, o) => Once(Without(s, i), o)
         /\ Once(s, s[i]) => ~Has(Without(s, i), s[i])
         /\ Without(s, i) = <<>> => Len(s) = 1
<1> DEFINE t == Without(s, i)
<1>1. i \in 1 .. Len(s) /\ Len(s) \in Nat /\ DOMAIN s = 1 .. Len(s)
  OBVIOUS
<1>2. /\ DOMAIN t = 1 .. (Len(s) - 1)
      /\ \A j \in DOMAIN t : t[j] = IF j < i THEN s[j] ELSE s[j + 1]
  BY DEF Without
<1> HIDE DEF t
<1>3. \A j \in DOMAIN t : \E k \in DOMAIN s \ {i} : t[j] = s[k]
  <2> TAKE j \in DOMAIN t
  <2>1. CASE j < i
    BY <1>1, <1>2, <2>1
  <2>2. CASE ~(j < i)
    <3>1. j + 1 \in DOMAIN s \ {i} /\ t[j] = s[j + 1]
      BY <1>1, <1>2, <2>2
    <3> QED
      BY <3>1
  <2> QED
    BY <2>1, <2>2
<1>4. \A k \in DOMAIN s \ {i} : \E j \in DOMAIN t : t[j] = s[k]
  <2> TAKE k \in DOMAIN s \ {i}
  <2>1. CASE k < i
    BY <1>1, <1>2, <2>1
  <2>2. CASE ~(k < i)
    <3>1. k - 1 \in DOMAIN t /\ ~(k - 1 < i) /\ (k - 1) + 1 = k
      BY <1>1, <1>2, <2>2
    <3> QED
      BY <1>2, <3>1
  <2> QED
    BY <2>1, <2>2
<1>5. Once(s, o) => Once(t, o)
  BY <1>1, <1>2 DEF Once
<1>6. t = <<>> => Len(s) = 1
  <2> SUFFICES ASSUME t = <<>> PROVE Len(s) = 1
    OBVIOUS
  <2>1. t \in Seq(S) /\ Len(<<>>) = 0
    BY WithoutType DEF t
  <2>2. DOMAIN t = 1 .. Len(t) /\ Len(t) = 0
    BY <2>1
  <2>3. \A j \in 1 .. (Len(s) - 1) : j \in 1 .. Len(t)
    BY <1>2, <2>2, Zenon
  <2> QED
    BY <1>1, <2>2, <2>3
<1> QED
  BY <1>1, <1>3, <1>4, <1>5, <1>6 DEF Has, Once, t

\* Vec::push adds one.
LEMMA AppendHas ==
  ASSUME NEW S, NEW s \in Seq(S), NEW x \in S, NEW o
  PROVE  /\ Has(Append(s, x), o) <=> Has(s, o) \/ o = x
         /\ Once(s, o) /\ ~Has(s, x) => Once(Append(s, x), o)
         /\ Append(s, x) # <<>>
<1>1. /\ DOMAIN Append(s, x) = 1 .. (Len(s) + 1) /\ Len(s) \in Nat
      /\ \A j \in DOMAIN s : Append(s, x)[j] = s[j]
      /\ Append(s, x)[Len(s) + 1] = x
      /\ DOMAIN s = 1 .. Len(s)
  OBVIOUS
<1> DEFINE t == Append(s, x)
<1> HIDE DEF t
<1>2. /\ DOMAIN t = 1 .. (Len(s) + 1) /\ Len(s) \in Nat
      /\ \A j \in DOMAIN s : t[j] = s[j]
      /\ t[Len(s) + 1] = x
      /\ DOMAIN s = 1 .. Len(s)
  BY <1>1 DEF t
<1>3. Has(t, o) <=> Has(s, o) \/ o = x
  BY <1>2 DEF Has
<1>4. Once(s, o) /\ ~Has(s, x) => Once(t, o)
  BY <1>2 DEF Has, Once
<1>5. t # <<>>
  BY <1>2
<1> QED
  BY <1>3, <1>4, <1>5 DEF t

\* The owners of different subsystems, of different breakpoints and of
\* different calls are different.
LEMMA OwnersDiffer ==
  /\ \A i, k, e : UserPersistent(i) # Allocator(k, e)
  /\ \A i, c : UserPersistent(i) # StepOver(c)
  /\ \A c, k, e : StepOver(c) # Allocator(k, e)
  /\ \A i, j : UserPersistent(i) = UserPersistent(j) => i = j
  /\ \A k, e, l, f : Allocator(k, e) = Allocator(l, f) => k = l /\ e = f
  BY DEF UserPersistent, Allocator, StepOver

-----------------------------------------------------------------------------
(* What one call does to the owner lists *)

\* The owner list of every address; Lists' is what a step leaves.
Lists == [a \in Addr |-> OwnersAt(a)]

LEMMA ListsType == ASSUME TableOK PROVE Lists \in [Addr -> Seq(Owner)]
  BY DEF Lists, TableOK, OwnersAt, Breakpoint

LEMMA HoldsInLists ==
  ASSUME NEW a \in Addr, NEW o
  PROVE  /\ Holds(a, o) <=> Has(Lists[a], o)
         /\ Holds(a, o)' <=> Has(Lists'[a], o)
  BY DEF Holds, Has, Lists

\* A claim lives at a managed address.
LEMMA HoldsManaged == ASSUME NEW a, NEW o, Holds(a, o) PROVE a \in Managed
<1>1. CASE a \notin Managed
  <2>1. OwnersAt(a) = <<>>
    BY <1>1 DEF OwnersAt
  <2>2. <<>> \in Seq(Owner) /\ Len(<<>>) = 0
    OBVIOUS
  <2> QED
    BY <2>1, <2>2 DEF Holds
<1> QED
  BY <1>1

\* add_owner appends the owner to the list at its address, and to no other;
\* when the address is new and its write fails, nothing happens.
LEMMA AddOwnerList ==
  ASSUME TableOK, NEW a \in Addr, NEW o \in Owner, NEW ok \in BOOLEAN,
         AddOwner(a, o, ok), ~Holds(a, o)
  PROVE  \/ /\ Lists' = [Lists EXCEPT ![a] = Append(Lists[a], o)]
            /\ DOMAIN breakpoints' = DOMAIN breakpoints \cup {a}
         \/ AddOwnerFails(a, o, ok) /\ UNCHANGED mgrVars /\ UNCHANGED Lists
<1>1. CASE a \in Managed /\ Enable(a, Append(breakpoints[a].owners, o), ok)
  <2> DEFINE t == Append(breakpoints[a].owners, o)
  <2> HIDE DEF t
  <2>1. Enable(a, t, ok)
    BY <1>1 DEF t
  <2>2. /\ Lists' = [Lists EXCEPT ![a] = t]
        /\ DOMAIN breakpoints' = DOMAIN breakpoints
    <3>1. /\ DOMAIN breakpoints' = DOMAIN breakpoints
          /\ breakpoints'[a].owners = t
          /\ \A x \in Managed \ {a} : breakpoints'[x] = breakpoints[x]
      BY <1>1, <2>1 DEF Enable, TableOK
    <3> QED
      BY <1>1, <3>1 DEF Lists, OwnersAt
  <2>3. Lists[a] = breakpoints[a].owners
    BY <1>1 DEF Lists, OwnersAt
  <2> QED
    BY <1>1, <2>2, <2>3 DEF t
<1>2. CASE /\ a \notin Managed
           /\ breakpoints' = Put(breakpoints, a, [original_byte |-> mem[a],
                                            enabled |-> TRUE, owners |-> <<o>>])
  <2>1. /\ Lists' = [Lists EXCEPT ![a] = <<o>>]
        /\ DOMAIN breakpoints' = DOMAIN breakpoints \cup {a}
    BY <1>2 DEF Put, Lists, OwnersAt, TableOK
  <2>2. Lists[a] = <<>> /\ Append(<<>>, o) = <<o>>
    BY <1>2 DEF Lists, OwnersAt
  <2> QED
    BY <2>1, <2>2
<1>3. CASE a \notin Managed /\ ~ok /\ UNCHANGED mgrVars
  BY <1>3 DEF AddOwnerFails, OwnersAt, Lists
<1> QED
  BY <1>1, <1>2, <1>3 DEF AddOwner, IsDuplicateUserPersistentOwner

\* remove_owner_at takes the first matching owner off the list at its address,
\* and an address left without owners is managed only when the write failed.
Removes(a, S, ok) ==
  \E i \in DOMAIN Lists[a] :
    /\ Lists[a][i] \in S
    /\ Lists' = [Lists EXCEPT ![a] = Without(Lists[a], i)]
    /\ DOMAIN breakpoints' \in {DOMAIN breakpoints, DOMAIN breakpoints \ {a}}
    /\ Lists'[a] = <<>> /\ a \in DOMAIN breakpoints' => RemoveOwnerFails(a, S, ok)

LEMMA RemoveOwnerList ==
  ASSUME TableOK, NEW a \in Addr, NEW S, NEW ok \in BOOLEAN, RemoveOwner(a, S, ok)
  PROVE  \/ /\ \A o \in S : ~Holds(a, o)
            /\ UNCHANGED mgrVars
         \/ Removes(a, S, ok)
<1>1. CASE /\ ~\E i \in DOMAIN OwnersAt(a) : OwnersAt(a)[i] \in S
           /\ UNCHANGED mgrVars
  BY <1>1 DEF Holds, OwnersAt
<1>2. CASE \E i \in DOMAIN OwnersAt(a) : OwnersAt(a)[i] \in S
  <2> DEFINE b == breakpoints[a]
  <2>1. PICK i \in DOMAIN OwnersAt(a) :
          /\ IsFirst(OwnersAt(a), i, S)
          /\ LET rest == Without(b.owners, i)
             IN  \/ /\ rest # <<>>
                    /\ breakpoints' = [breakpoints EXCEPT ![a] =
                          [original_byte |-> b.original_byte,
                           enabled |-> b.enabled, owners |-> rest]]
                 \/ rest = <<>> /\ b.enabled /\ ~ok /\ Disable(a, rest, ok)
                 \/ rest = <<>> /\ breakpoints' = Drop(breakpoints, a)
    BY <1>2 DEF RemoveOwner
  <2>2. a \in Managed
    <3>1. Holds(a, OwnersAt(a)[i])
      BY <2>1 DEF Holds
    <3> QED
      BY <3>1, HoldsManaged
  <2>3. /\ Lists[a] = OwnersAt(a) /\ OwnersAt(a) = b.owners
        /\ Lists[a][i] \in S /\ Lists[a] \in Seq(Owner)
    BY <2>1, <2>2, ListsType DEF Lists, OwnersAt, IsFirst
  <2> DEFINE rest == Without(b.owners, i)
  <2>4. rest = <<>> => Len(OwnersAt(a)) = 1 /\ OwnersAt(a)[1] \in S
    <3>1. rest = <<>> => Len(OwnersAt(a)) = 1
      BY <2>1, <2>3, WithoutHas
    <3>2. Len(OwnersAt(a)) = 1 => i = 1
      BY <2>1, <2>3
    <3> QED
      BY <2>3, <3>1, <3>2
  <2>5. rest = Without(Lists[a], i) /\ Lists[a][i] \in S /\ i \in DOMAIN Lists[a]
    BY <2>1, <2>3
  <2> HIDE DEF rest
  <2>6. CASE /\ rest # <<>>
             /\ breakpoints' = [breakpoints EXCEPT ![a] =
                  [original_byte |-> b.original_byte,
                   enabled |-> b.enabled, owners |-> rest]]
    <3>1. Lists' = [Lists EXCEPT ![a] = rest] /\ DOMAIN breakpoints' = DOMAIN breakpoints
      BY <2>2, <2>6 DEF OwnersAt, TableOK, Lists
    <3>2. Lists'[a] = rest
      BY <3>1 DEF Lists
    <3> QED
      BY <2>5, <2>6, <3>1, <3>2 DEF Removes
  <2>7. CASE rest = <<>> /\ b.enabled /\ ~ok /\ Disable(a, rest, ok)
    <3>1. Lists' = [Lists EXCEPT ![a] = rest] /\ DOMAIN breakpoints' = DOMAIN breakpoints
      BY <2>2, <2>7 DEF OwnersAt, TableOK, Disable, Lists
    <3>2. RemoveOwnerFails(a, S, ok)
      BY <2>2, <2>4, <2>7 DEF RemoveOwnerFails
    <3> QED
      BY <2>5, <3>1, <3>2 DEF Removes
  <2>8. CASE rest = <<>> /\ breakpoints' = Drop(breakpoints, a)
    <3>1. /\ Lists' = [Lists EXCEPT ![a] = <<>>]
          /\ DOMAIN breakpoints' = DOMAIN breakpoints \ {a}
      BY <2>2, <2>8 DEF OwnersAt, TableOK, Drop, Lists
    <3> QED
      BY <2>5, <2>8, <3>1 DEF Removes
  <2> QED
    BY <2>1, <2>6, <2>7, <2>8 DEF rest
<1> QED
  BY <1>1, <1>2 DEF RemoveOwner, IsFirst

\* Finishing a hit takes the return owner it served off the list, no other:
\* the first owner of its kind is the first allocator owner, which was served.
LEMMA EndHitList ==
  ASSUME TypeOK, HitOpen, HitCurrent, NEW ok \in BOOLEAN, EndHit(ok)
  PROVE  /\ hit.addr \in DOMAIN breakpoints
         /\ \/ /\ hit.owner \notin ReturnOwners
               /\ UNCHANGED Lists /\ DOMAIN breakpoints' = DOMAIN breakpoints
            \/ /\ hit.owner \in ReturnOwners
               /\ \E i \in DOMAIN Lists[hit.addr] :
                    /\ Lists[hit.addr][i] = hit.owner
                    /\ Lists' = [Lists EXCEPT ![hit.addr] = Without(Lists[hit.addr], i)]
                    /\ DOMAIN breakpoints' \in {DOMAIN breakpoints, DOMAIN breakpoints \ {hit.addr}}
                    /\ Lists'[hit.addr] = <<>> => hit.addr \notin DOMAIN breakpoints'
<1> DEFINE a == hit.addr
<1>1. TableOK /\ a \in Managed /\ a \in Addr /\ hit # NoHit /\ ~aborted
  BY DEF TypeOK, EndHit, HitOpen, TableOK
<1>2. Lists[a] = OwnersAt(a) /\ Lists[a] \in Seq(Owner) /\ OwnersAt(a) = breakpoints[a].owners
  BY <1>1, ListsType DEF Lists, OwnersAt
<1>3. ASSUME NEW t, Enable(a, t, ok)
      PROVE  Lists' = [Lists EXCEPT ![a] = t] /\ DOMAIN breakpoints' = DOMAIN breakpoints
  <2>1. /\ DOMAIN breakpoints' = DOMAIN breakpoints
        /\ breakpoints'[a].owners = t
        /\ \A x \in Managed \ {a} : breakpoints'[x] = breakpoints[x]
    BY <1>1, <1>3 DEF Enable, TableOK
  <2> QED
    BY <1>1, <2>1 DEF Lists, OwnersAt
<1>4. CASE hit.owner \notin ReturnOwners
  <2>1. Enable(a, breakpoints[a].owners, ok)
    BY <1>4 DEF EndHit
  <2> QED
    BY <1>1, <1>2, <1>3, <1>4, <2>1, ListsType
<1>5. CASE hit.owner \in ReturnOwners
  <2>1. PICK i \in DOMAIN OwnersAt(a) :
          /\ IsFirst(OwnersAt(a), i, SameKind(hit.owner))
          /\ LET rest == Without(OwnersAt(a), i)
             IN  \/ rest # <<>> /\ Enable(a, rest, ok)
                 \/ rest = <<>> /\ breakpoints' = Drop(breakpoints, a)
    BY <1>5 DEF EndHit
  <2> DEFINE rest == Without(OwnersAt(a), i)
  <2>2. PICK j \in DOMAIN OwnersAt(a) :
          IsFirst(OwnersAt(a), j, AllocatorOwners) /\ OwnersAt(a)[j] = hit.owner
    BY <1>1, <1>5 DEF HitCurrent
  <2>3. i = j
    <3>1. OwnersAt(a)[j] \in SameKind(hit.owner) /\ OwnersAt(a)[i] \in AllocatorOwners
      BY <2>1, <2>2 DEF IsFirst, SameKind
    <3>2. i <= j /\ j <= i
      BY <2>1, <2>2, <3>1 DEF IsFirst
    <3>3. i \in Nat /\ j \in Nat
      BY <1>2
    <3> QED
      BY <3>2, <3>3
  <2> HIDE DEF rest
  <2>4. CASE rest # <<>> /\ Enable(a, rest, ok)
    <3>1. Lists' = [Lists EXCEPT ![a] = rest] /\ DOMAIN breakpoints' = DOMAIN breakpoints
      BY <1>3, <2>4
    <3>2. Lists'[a] = rest
      BY <1>1, <3>1 DEF Lists
    <3> QED
      BY <1>1, <1>2, <1>5, <2>2, <2>3, <2>4, <3>1, <3>2 DEF rest
  <2>5. CASE rest = <<>> /\ breakpoints' = Drop(breakpoints, a)
    <3>1. Lists' = [Lists EXCEPT ![a] = <<>>] /\ DOMAIN breakpoints' = DOMAIN breakpoints \ {a}
      BY <1>1, <2>5 DEF Lists, OwnersAt, Drop
    <3> QED
      BY <1>1, <1>2, <1>5, <2>2, <2>3, <2>5, <3>1 DEF rest
  <2> QED
    BY <2>1, <2>4, <2>5 DEF rest
<1> QED
  BY <1>4, <1>5

-----------------------------------------------------------------------------
(* What one call does to the claims *)

\* Claims are what the lists hold, before and after a step.
LEMMA ClaimsInLists ==
  ASSUME NEW a \in Addr, NEW o
  PROVE  /\ o \in Claims[a] <=> Has(Lists[a], o)
         /\ o \in Claims'[a] <=> Has(Lists'[a], o)
         /\ o \in Claims[a] <=> Holds(a, o)
  BY DEF Claims, Lists, Has, Holds

LEMMA ClaimsType == ASSUME TableOK PROVE Claims \in [Addr -> SUBSET Owner]
<1>1. \A a \in Addr : \A i \in DOMAIN OwnersAt(a) : OwnersAt(a)[i] \in Owner
  BY ListsType DEF Lists
<1> QED
  BY <1>1 DEF Claims

\* Appending to one list adds one claim ...
LEMMA Appended ==
  ASSUME TableOK, TableOK', ClaimedOnce, NEW a \in Addr, NEW o \in Owner \ Claims[a],
         Lists' = [Lists EXCEPT ![a] = Append(Lists[a], o)]
  PROVE  /\ Claims' = [Claims EXCEPT ![a] = @ \cup {o}]
         /\ ClaimedOnce'
         /\ Lists'[a] # <<>>
<1>1. Lists \in [Addr -> Seq(Owner)]
  BY ListsType
<1>2. ~Has(Lists[a], o)
  BY ClaimsInLists
<1>3. \A p : Has(Lists'[a], p) <=> Has(Lists[a], p) \/ p = o
  BY <1>1, AppendHas
<1>4. \A p \in Owner : Once(Lists[a], p) => Once(Lists'[a], p)
  BY <1>1, <1>2, AppendHas
<1>5. Lists'[a] # <<>>
  BY <1>1, AppendHas
<1>6. \A x \in Addr \ {a} : Lists'[x] = Lists[x]
  BY <1>1
<1>7. Claims' = [Claims EXCEPT ![a] = @ \cup {o}]
  <2>1. \A x \in Addr : Claims'[x] = IF x = a THEN Claims[x] \cup {o} ELSE Claims[x]
    BY <1>3, <1>6, ClaimsInLists
  <2> QED
    BY <2>1 DEF Claims
<1>8. ClaimedOnce'
  BY <1>4, <1>6 DEF ClaimedOnce, Lists
<1> QED
  BY <1>5, <1>7, <1>8

\* ... and removing from it takes away exactly the claim that was there.
LEMMA Taken ==
  ASSUME TableOK, TableOK', ClaimedOnce, NEW a \in Addr, NEW i \in DOMAIN Lists[a],
         Lists' = [Lists EXCEPT ![a] = Without(Lists[a], i)]
  PROVE  /\ Claims' = [Claims EXCEPT ![a] = @ \ {Lists[a][i]}]
         /\ Lists[a][i] \in Claims[a]
         /\ ClaimedOnce'
<1> DEFINE o == Lists[a][i]
<1>1. Lists \in [Addr -> Seq(Owner)]
  BY ListsType
<1>2. o \in Owner /\ Once(Lists[a], o)
  BY <1>1 DEF ClaimedOnce, Lists
<1>3. \A p : /\ Has(Lists'[a], p) => Has(Lists[a], p)
             /\ Has(Lists[a], p) /\ p # o => Has(Lists'[a], p)
             /\ Once(Lists[a], p) => Once(Lists'[a], p)
  BY <1>1, WithoutHas
<1>4. ~Has(Lists'[a], o)
  BY <1>1, <1>2, WithoutHas
<1>5. \A x \in Addr \ {a} : Lists'[x] = Lists[x]
  BY <1>1
<1>6. Claims' = [Claims EXCEPT ![a] = @ \ {o}]
  <2>1. \A x \in Addr : Claims'[x] = IF x = a THEN Claims[x] \ {o} ELSE Claims[x]
    BY <1>3, <1>4, <1>5, ClaimsInLists
  <2> QED
    BY <2>1 DEF Claims
<1>7. ClaimedOnce'
  BY <1>3, <1>5 DEF ClaimedOnce, Lists
<1>8. o \in Claims[a]
  BY ClaimsInLists DEF Has
<1> QED
  BY <1>6, <1>7, <1>8

\* An address with an entry has an owner, or is stuck.
NoIdle == \A a \in DOMAIN breakpoints : Lists[a] = <<>> => a \in stuck

LEMMA NoIdleLists ==
  ASSUME TableOK, TableOK'
  PROVE  (NoIdleTrap <=> NoIdle) /\ (NoIdleTrap' <=> NoIdle')
<1>1. \A a \in DOMAIN breakpoints : Lists[a] = breakpoints[a].owners
  BY DEF TableOK, Lists, OwnersAt
<1>2. \A a \in DOMAIN breakpoints' : Lists'[a] = breakpoints'[a].owners
  BY DEF TableOK, Lists, OwnersAt
<1> QED
  BY <1>1, <1>2 DEF NoIdleTrap, NoIdle

\* add_owner, for an owner that is not there yet.
LEMMA AddOwnerClaims ==
  ASSUME Constants, TableOK, ClaimedOnce, NoIdleTrap, NEW a \in Addr,
         NEW o \in Owner \ Claims[a], NEW ok \in BOOLEAN,
         AddOwner(a, o, ok), StuckAfterAdd(a, o, ok)
  PROVE  /\ \/ Claims' = [Claims EXCEPT ![a] = @ \cup {o}]
            \/ AddOwnerFails(a, o, ok) /\ Claims' = Claims /\ UNCHANGED mgrVars
         /\ ClaimedOnce' /\ NoIdleTrap'
<1>1. TableOK'
  BY AddOwnerType
<1>2. CASE /\ Lists' = [Lists EXCEPT ![a] = Append(Lists[a], o)]
           /\ DOMAIN breakpoints' = DOMAIN breakpoints \cup {a}
  <2>1. /\ Claims' = [Claims EXCEPT ![a] = @ \cup {o}]
        /\ ClaimedOnce' /\ Lists'[a] # <<>>
    BY <1>1, <1>2, Appended
  <2>2. NoIdle'
    <3>1. \A x \in Addr \ {a} : Lists'[x] = Lists[x]
      BY <1>2, ListsType
    <3>2. DOMAIN breakpoints \subseteq Addr /\ stuck \ {a} \subseteq stuck'
      BY DEF TableOK, StuckAfterAdd
    <3> QED
      BY <1>1, <1>2, <2>1, <3>1, <3>2, NoIdleLists DEF NoIdle
  <2> QED
    BY <1>1, <2>1, <2>2, NoIdleLists
<1>3. CASE AddOwnerFails(a, o, ok) /\ UNCHANGED mgrVars
  BY <1>3 DEF Claims, OwnersAt, ClaimedOnce, NoIdleTrap, StuckAfterAdd
<1>4. ~Holds(a, o)
  BY ClaimsInLists
<1>5. \/ /\ Lists' = [Lists EXCEPT ![a] = Append(Lists[a], o)]
         /\ DOMAIN breakpoints' = DOMAIN breakpoints \cup {a}
      \/ AddOwnerFails(a, o, ok) /\ UNCHANGED mgrVars
  BY ZenonT(60), <1>4, AddOwnerList
<1> QED
  BY <1>2, <1>3, <1>5

\* remove_owner_at.
LEMMA RemoveOwnerClaims ==
  ASSUME Constants, TableOK, ClaimedOnce, NoIdleTrap, NEW a \in Addr, NEW S,
         NEW ok \in BOOLEAN, RemoveOwner(a, S, ok), StuckAfterRemove(a, S, ok)
  PROVE  /\ \/ S \cap Claims[a] = {} /\ Claims' = Claims
            \/ \E o \in S \cap Claims[a] : Claims' = [Claims EXCEPT ![a] = @ \ {o}]
         /\ ClaimedOnce' /\ NoIdleTrap'
<1>1. TableOK'
  BY RemoveOwnerType
<1>2. CASE /\ \A o \in S : ~Holds(a, o)
           /\ UNCHANGED mgrVars
  BY <1>2, ClaimsInLists DEF Claims, OwnersAt, ClaimedOnce, NoIdleTrap, StuckAfterRemove
<1>3. CASE Removes(a, S, ok)
  <2>1. PICK i \in DOMAIN Lists[a] :
             /\ Lists[a][i] \in S
             /\ Lists' = [Lists EXCEPT ![a] = Without(Lists[a], i)]
             /\ DOMAIN breakpoints' \in {DOMAIN breakpoints, DOMAIN breakpoints \ {a}}
             /\ Lists'[a] = <<>> /\ a \in DOMAIN breakpoints' => RemoveOwnerFails(a, S, ok)
    BY <1>3 DEF Removes
  <2>2. /\ Claims' = [Claims EXCEPT ![a] = @ \ {Lists[a][i]}]
        /\ Lists[a][i] \in Claims[a]
        /\ ClaimedOnce'
    BY <1>1, <2>1, Taken
  <2>3. NoIdle'
    <3>1. \A x \in Addr \ {a} : Lists'[x] = Lists[x]
      BY <2>1, ListsType
    <3>2. DOMAIN breakpoints \subseteq Addr /\ stuck \subseteq stuck'
          /\ (RemoveOwnerFails(a, S, ok) => a \in stuck')
      BY DEF TableOK, StuckAfterRemove
    <3> QED
      BY <1>1, <2>1, <3>1, <3>2, NoIdleLists DEF NoIdle
  <2> QED
    BY <1>1, <2>1, <2>2, <2>3, NoIdleLists
<1> QED
  BY <1>2, <1>3, RemoveOwnerList

\* The end of a hit.
LEMMA EndHitClaims ==
  ASSUME TypeOK, TypeOK', HitOpen, HitCurrent, ClaimedOnce, NoIdleTrap,
         NEW ok \in BOOLEAN, EndHit(ok)
  PROVE  /\ \/ hit.owner \notin ReturnOwners /\ Claims' = Claims
            \/ /\ hit.owner \in ReturnOwners \cap Claims[hit.addr]
               /\ Claims' = [Claims EXCEPT ![hit.addr] = @ \ {hit.owner}]
         /\ ClaimedOnce' /\ NoIdleTrap'
<1> DEFINE a == hit.addr
<1>1. TableOK /\ TableOK' /\ a \in Addr /\ stuck' = stuck /\ DOMAIN breakpoints \subseteq Addr
  BY EndHitList DEF TypeOK, TableOK, EndHit
<1>2. CASE /\ hit.owner \notin ReturnOwners
           /\ UNCHANGED Lists /\ DOMAIN breakpoints' = DOMAIN breakpoints
  <2>1. \A x \in Addr : Claims'[x] = Claims[x]
    BY <1>2, ClaimsInLists
  <2>2. Claims' = Claims
    BY <2>1 DEF Claims
  <2>3. ClaimedOnce'
    BY <1>2 DEF ClaimedOnce, Lists
  <2>4. NoIdle'
    BY <1>1, <1>2, NoIdleLists DEF NoIdle
  <2> QED
    BY <1>1, <1>2, <2>2, <2>3, <2>4, NoIdleLists
<1>3. CASE /\ hit.owner \in ReturnOwners
           /\ \E i \in DOMAIN Lists[a] :
                /\ Lists[a][i] = hit.owner
                /\ Lists' = [Lists EXCEPT ![a] = Without(Lists[a], i)]
                /\ DOMAIN breakpoints' \in {DOMAIN breakpoints, DOMAIN breakpoints \ {a}}
                /\ Lists'[a] = <<>> => a \notin DOMAIN breakpoints'
  <2>1. PICK i \in DOMAIN Lists[a] :
                /\ Lists[a][i] = hit.owner
                /\ Lists' = [Lists EXCEPT ![a] = Without(Lists[a], i)]
                /\ DOMAIN breakpoints' \in {DOMAIN breakpoints, DOMAIN breakpoints \ {a}}
                /\ Lists'[a] = <<>> => a \notin DOMAIN breakpoints'
    BY <1>3
  <2>2. /\ Claims' = [Claims EXCEPT ![a] = @ \ {hit.owner}]
        /\ hit.owner \in Claims[a]
        /\ ClaimedOnce'
    BY <1>1, <2>1, Taken
  <2>3. NoIdle'
    <3>1. \A x \in Addr \ {a} : Lists'[x] = Lists[x]
      BY <1>1, <2>1, ListsType
    <3> QED
      BY <1>1, <2>1, <3>1, NoIdleLists DEF NoIdle
  <2> QED
    BY <1>1, <1>3, <2>2, <2>3, NoIdleLists
<1> QED
  BY <1>2, <1>3, EndHitList

\* Lifting a breakpoint leaves its owners alone.
LEMMA BeginHitClaims ==
  ASSUME TableOK, ClaimedOnce, NoIdleTrap, NEW a \in Managed, NEW ok \in BOOLEAN,
         Disable(a, breakpoints[a].owners, ok), UNCHANGED stuck
  PROVE  UNCHANGED Claims /\ UNCHANGED Lists /\ ClaimedOnce' /\ NoIdleTrap'
<1>1. /\ DOMAIN breakpoints' = DOMAIN breakpoints
      /\ \A x \in Managed : breakpoints'[x].owners = breakpoints[x].owners
  BY DEF Disable, TableOK
<1>2. Lists' = Lists
  BY <1>1 DEF Lists, OwnersAt
<1>3. Claims' = Claims
  BY <1>1 DEF Claims, OwnersAt
<1>4. ClaimedOnce'
  BY <1>2 DEF ClaimedOnce, Lists
<1>5. NoIdleTrap'
  BY <1>1 DEF NoIdleTrap
<1> QED
  BY <1>2, <1>3, <1>4, <1>5

-----------------------------------------------------------------------------
(* The strengthened invariant, said of the claims *)

Registered ==
  \A a \in Addr, i \in UserIds : UserPersistent(i) \in Claims[a] =>
    i \in DOMAIN users /\ users[i].enabled /\ users[i].addr = a

Armed ==
  \A i \in DOMAIN users : users[i].enabled /\ i \notin unsynced =>
    UserPersistent(i) \in Claims[users[i].addr]

Pending ==
  /\ retired \subseteq 1 .. event_id
  /\ \A a \in Addr, k \in ReturnKinds, e \in 1 .. MaxEvent : Allocator(k, e) \in Claims[a] =>
       /\ e <= event_id /\ e \notin retired
       /\ \A b \in Addr, l \in ReturnKinds : Allocator(l, e) \in Claims[b] => b = a /\ l = k

Current ==
  hit # NoHit /\ ~aborted =>
    /\ Claims[hit.addr] # {}
    /\ hit.ids = {i \in UserIds : UserPersistent(i) \in Claims[hit.addr]}
    /\ hit.owner \in ReturnOwners =>
         \E i \in DOMAIN Lists[hit.addr] :
           IsFirst(Lists[hit.addr], i, AllocatorOwners) /\ Lists[hit.addr][i] = hit.owner

CInv == NoIdleTrap /\ ClaimedOnce /\ Registered /\ Armed /\ IdsFresh /\ Pending /\ Current

\* Said of the claims, the invariant is the same.
LEMMA RegisteredHolds ==
  ASSUME TypeOK, TypeOK'
  PROVE  (OwnersRegistered <=> Registered) /\ (OwnersRegistered' <=> Registered')
<1>1. \A a \in Addr : \A o : (o \in Claims[a] <=> Holds(a, o)) /\ (o \in Claims'[a] <=> Has(Lists'[a], o))
  BY ClaimsInLists
<1>2. \A a, o : Holds(a, o) => a \in Managed
  BY HoldsManaged
<1>3. OwnersRegistered <=> Registered
  BY <1>1, <1>2 DEF TypeOK, TableOK, OwnersRegistered, Registered
<1>4. \A a \in Addr : a \notin DOMAIN breakpoints' => Claims'[a] = {}
  BY DEF Claims, OwnersAt
<1>5. OwnersRegistered' <=> Registered'
  BY <1>4 DEF TypeOK, TableOK, OwnersRegistered, Registered, Claims, Holds
<1> QED
  BY <1>3, <1>5

LEMMA ArmedHolds ==
  ASSUME TypeOK, TypeOK'
  PROVE  /\ ClaimedOnce => (EnabledArmed <=> Armed)
         /\ ClaimedOnce' => (EnabledArmed' <=> Armed')
<1>1. \A i \in DOMAIN users : i \in UserIds /\ users[i].addr \in Addr /\ UserPersistent(i) \in Owner
  BY OwnerTypes DEF TypeOK, User
<1>2. \A i \in DOMAIN users' : i \in UserIds /\ users'[i].addr \in Addr /\ UserPersistent(i) \in Owner
  BY OwnerTypes DEF TypeOK, User
<1>3. ClaimedOnce => (EnabledArmed <=> Armed)
  BY <1>1, ClaimsInLists DEF EnabledArmed, Armed, ClaimedOnce
<1>4. ClaimedOnce' => (EnabledArmed' <=> Armed')
  BY <1>2 DEF EnabledArmed, Armed, ClaimedOnce, Claims, Holds
<1> QED
  BY <1>3, <1>4

LEMMA PendingHolds == (ReturnsPending <=> Pending) /\ (ReturnsPending' <=> Pending')
<1>1. ReturnsPending <=> Pending
  BY ClaimsInLists DEF ReturnsPending, Pending
<1>2. ReturnsPending' <=> Pending'
  BY DEF ReturnsPending, Pending, Claims, Holds
<1> QED
  BY <1>1, <1>2

LEMMA CurrentHolds ==
  ASSUME TypeOK, TypeOK', HitOpen, HitOpen'
  PROVE  (HitCurrent <=> Current) /\ (HitCurrent' <=> Current')
<1>1. (hit # NoHit => hit.addr \in Addr) /\ (hit' # NoHit => hit'.addr \in Addr)
  BY DEF TypeOK, HitOpen, TableOK, NoHit
<1>2. TableOK /\ TableOK'
  BY DEF TypeOK
<1>3. Claims \in [Addr -> SUBSET Owner] /\ Claims' \in [Addr -> SUBSET Owner]
  <2>1. \A a \in DOMAIN breakpoints' : \A i \in DOMAIN breakpoints'[a].owners :
          breakpoints'[a].owners[i] \in Owner
    BY <1>2 DEF TableOK, Breakpoint
  <2> QED
    BY <1>2, <2>1, ClaimsType DEF Claims, OwnersAt
<1>4. HitCurrent <=> Current
  BY <1>1, <1>3, ClaimsInLists DEF HitCurrent, Current, PersistentUserOwnersAt, Lists
<1>5. HitCurrent' <=> Current'
  <2>1. \A a \in Addr : \A o : o \in Claims'[a] <=> Holds(a, o)'
    BY DEF Claims, Holds
  <2> QED
    BY ZenonT(60), <1>1, <1>3, <2>1 DEF HitCurrent, Current, PersistentUserOwnersAt, Lists, Claims, Holds
<1> QED
  BY <1>4, <1>5

LEMMA OInvCInv ==
  ASSUME TypeOK, TypeOK', HitOpen, HitOpen'
  PROVE  (OInv => CInv) /\ (CInv' => OInv')
<1>1. OInv => CInv
  BY RegisteredHolds, ArmedHolds, PendingHolds, CurrentHolds DEF OInv, CInv
<1>2. CInv' => OInv'
  BY RegisteredHolds, ArmedHolds, PendingHolds, CurrentHolds DEF OInv, CInv
<1> QED
  BY <1>1, <1>2

-----------------------------------------------------------------------------
(* Every step keeps it *)

\* A step that makes or drops no user's claim leaves the registry in order ...
LEMMA KeepRegistry ==
  ASSUME TypeOK, Registered, Armed, IdsFresh,
         DOMAIN users' = DOMAIN users,
         \A i \in DOMAIN users :
           users'[i].enabled = users[i].enabled /\ users'[i].addr = users[i].addr,
         UNCHANGED <<unsynced, next_id>>,
         \A a \in Addr, i \in UserIds :
           UserPersistent(i) \in Claims'[a] <=> UserPersistent(i) \in Claims[a]
  PROVE  Registered' /\ Armed' /\ IdsFresh'
<1>1. \A i \in DOMAIN users : i \in UserIds /\ users[i].addr \in Addr
  BY DEF TypeOK, User
<1> QED
  BY <1>1 DEF Registered, Armed, IdsFresh

\* ... and one that plants no return breakpoint leaves the calls in order.
LEMMA KeepPending ==
  ASSUME Pending, UNCHANGED <<event_id, retired>>,
         \A a \in Addr, k \in ReturnKinds, e \in 1 .. MaxEvent :
           Allocator(k, e) \in Claims'[a] => Allocator(k, e) \in Claims[a]
  PROVE  Pending'
  BY DEF Pending

\* An owner that is neither a user's nor a return breakpoint's.
Neutral(o) == /\ \A i \in UserIds : o # UserPersistent(i)
              /\ \A k \in ReturnKinds, e \in 1 .. MaxEvent : o # Allocator(k, e)

LEMMA NeutralOwners ==
  /\ \A k : Neutral(Allocator(k, 0))
  /\ \A c : Neutral(StepOver(c))
<1>1. \A k, l : \A e \in 1 .. MaxEvent : Allocator(k, 0) # Allocator(l, e)
  <2> TAKE k, l
  <2> TAKE e \in 1 .. MaxEvent
  <2>1. 0 # e
    OBVIOUS
  <2> QED
    BY <2>1, OwnersDiffer
<1> QED
  BY <1>1, OwnersDiffer DEF Neutral

\* Making or dropping a neutral claim between hits keeps the invariant.
LEMMA NeutralStep ==
  ASSUME TypeOK, CInv, NEW a \in Addr, NEW o, Neutral(o),
         Claims' \in {Claims, [Claims EXCEPT ![a] = @ \cup {o}], [Claims EXCEPT ![a] = @ \ {o}]},
         UNCHANGED <<users, unsynced, next_id, event_id, retired>>,
         hit' = NoHit \/ aborted', ClaimedOnce', NoIdleTrap'
  PROVE  CInv'
<1>1. TableOK
  BY DEF TypeOK
<1>2. \A x \in Addr : \A p : p # o => (p \in Claims'[x] <=> p \in Claims[x])
  BY <1>1, ClaimsType
<1>3. Registered' /\ Armed' /\ IdsFresh'
  BY <1>2, KeepRegistry DEF Neutral, CInv
<1>4. Pending'
  BY <1>2, KeepPending DEF Neutral, CInv
<1>5. Current'
  BY DEF Current
<1> QED
  BY <1>3, <1>4, <1>5 DEF CInv

\* A user's claim: the address, the registry and the histories change together.
LEMMA UserStep ==
  ASSUME TypeOK, CInv, NEW id \in UserIds, hit' = NoHit,
         UNCHANGED <<event_id, retired>>, ClaimedOnce', NoIdleTrap',
         \A x \in Addr : \A p : p # UserPersistent(id) => (p \in Claims'[x] <=> p \in Claims[x])
  PROVE  Pending' /\ Current'
<1>1. Pending'
  BY KeepPending, OwnersDiffer DEF CInv
<1> QED
  BY <1>1 DEF Current

LEMMA AddUserStep ==
  ASSUME Constants, TypeOK, CInv, NEW a \in Addr, NEW ok \in BOOLEAN, AddUserBreakpoint(a, ok)
  PROVE  CInv'
<1> DEFINE id == IF next_id > 1 THEN next_id ELSE 1
           u  == [addr |-> a, enabled |-> TRUE, hits |-> 0]
           o  == UserPersistent(id)
<1>1. /\ id \in UserIds /\ next_id' = id + 1 /\ users' = Put(users, id, u)
      /\ \A i \in DOMAIN users : i < id
  BY DEF AddUserBreakpoint, TypeOK, UserIds, Constants, CInv, IdsFresh
<1>2. o \in Owner /\ TableOK /\ hit' = NoHit /\ id \notin DOMAIN users
  BY <1>1, OwnerTypes DEF TypeOK, AddUserBreakpoint, Idle, UserIds
<1>3. \A x \in Addr : o \notin Claims[x]
  BY <1>1, <1>2 DEF CInv, Registered
<1>4. users'[id] = u /\ DOMAIN users' = DOMAIN users \cup {id}
      /\ \A i \in DOMAIN users : users'[i] = users[i]
  BY <1>1, <1>2 DEF Put
<1>5. /\ \/ Claims' = [Claims EXCEPT ![a] = @ \cup {o}]
         \/ AddOwnerFails(a, o, ok) /\ Claims' = Claims
      /\ ClaimedOnce' /\ NoIdleTrap'
  BY <1>2, <1>3, AddOwnerClaims DEF AddUserBreakpoint, CInv
<1>6. unsynced' = IF AddOwnerFails(a, o, ok) THEN unsynced \cup {id} ELSE unsynced
  BY <1>4 DEF AddUserBreakpoint, UnsyncedAfterAdd
<1>7. \A x \in Addr : \A p : p \in Claims'[x] <=> p \in Claims[x] \/ (Claims' # Claims /\ x = a /\ p = o)
  BY <1>2, <1>5, ClaimsType
<1>8. Registered'
  <2> SUFFICES ASSUME NEW x \in Addr, NEW i \in UserIds, UserPersistent(i) \in Claims'[x]
               PROVE  i \in DOMAIN users' /\ users'[i].enabled /\ users'[i].addr = x
    BY DEF Registered
  <2>1. CASE UserPersistent(i) \in Claims[x]
    BY <1>4, <2>1 DEF CInv, Registered
  <2>2. CASE UserPersistent(i) \notin Claims[x]
    <3>1. x = a /\ i = id
      BY <1>7, <2>2, OwnersDiffer
    <3> QED
      BY <1>4, <3>1
  <2> QED
    BY <2>1, <2>2
<1>9. Armed'
  <2> SUFFICES ASSUME NEW i \in DOMAIN users', users'[i].enabled, i \notin unsynced'
               PROVE  UserPersistent(i) \in Claims'[users'[i].addr]
    BY DEF Armed
  <2>1. CASE i = id
    <3>1. ~AddOwnerFails(a, o, ok)
      BY <1>6, <2>1
    <3> QED
      BY <1>2, <1>4, <1>5, <2>1, <3>1, ClaimsType
  <2>2. CASE i # id
    <3>1. i \in DOMAIN users /\ users'[i] = users[i] /\ i \notin unsynced /\ users[i].addr \in Addr
      BY <1>4, <1>6, <2>2 DEF TypeOK, User
    <3> QED
      BY <1>7, <3>1 DEF CInv, Armed
  <2> QED
    BY <2>1, <2>2
<1>10. IdsFresh'
  <2>1. \A i \in DOMAIN users' : i \in Nat /\ i <= id
    BY <1>1, <1>4 DEF TypeOK, UserIds
  <2>2. next_id' = id + 1 /\ id \in Nat
    BY <1>1 DEF UserIds
  <2> HIDE DEF id
  <2>3. \A i \in DOMAIN users' : i < next_id'
    BY <2>1, <2>2
  <2> QED
    BY <2>3 DEF IdsFresh
<1>11. Pending' /\ Current'
  BY <1>1, <1>2, <1>5, <1>7, UserStep DEF AddUserBreakpoint
<1> QED
  BY <1>5, <1>8, <1>9, <1>10, <1>11 DEF CInv

LEMMA EnableUserStep ==
  ASSUME Constants, TypeOK, CInv, NEW id \in UserIds, NEW ok \in BOOLEAN,
         EnableUserBreakpoint(id, ok)
  PROVE  CInv'
<1> DEFINE a == users[id].addr
           o == UserPersistent(id)
<1>1. /\ id \in DOMAIN users /\ a \in Addr /\ o \in Owner /\ TableOK
      /\ hit' = NoHit /\ UNCHANGED <<next_id, event_id, retired>>
  BY OwnerTypes DEF EnableUserBreakpoint, TypeOK, User, Idle
<1>2. /\ DOMAIN users' = DOMAIN users
      /\ users'[id].enabled /\ users'[id].addr = a
      /\ \A i \in DOMAIN users \ {id} : users'[i] = users[i]
  BY <1>1 DEF EnableUserBreakpoint, TypeOK, User
<1>3. CASE users[id].enabled
  <2>1. UNCHANGED <<mem, breakpoints, unsynced, stuck>>
    BY <1>3 DEF EnableUserBreakpoint
  <2>2. UNCHANGED Claims /\ ClaimedOnce' /\ NoIdleTrap'
    BY <2>1 DEF Claims, OwnersAt, CInv, ClaimedOnce, NoIdleTrap
  <2>3. Registered' /\ Armed' /\ IdsFresh'
    <3>1. \A i \in DOMAIN users :
            users'[i].enabled = users[i].enabled /\ users'[i].addr = users[i].addr
      BY <1>1, <1>3 DEF EnableUserBreakpoint, TypeOK, User
    <3> QED
      BY <1>1, <1>2, <2>1, <2>2, <3>1, KeepRegistry DEF CInv
  <2> QED
    BY <1>1, <2>2, <2>3, UserStep DEF CInv
<1>4. CASE ~users[id].enabled
  <2>1. \A x \in Addr : o \notin Claims[x]
    BY <1>1, <1>4 DEF CInv, Registered
  <2>2. AddOwner(a, o, ok) /\ StuckAfterAdd(a, o, ok)
        /\ unsynced' = IF AddOwnerFails(a, o, ok) THEN unsynced \cup {id} ELSE unsynced
    BY <1>2, <1>4 DEF EnableUserBreakpoint, UnsyncedAfterAdd
  <2>3. /\ \/ Claims' = [Claims EXCEPT ![a] = @ \cup {o}]
           \/ AddOwnerFails(a, o, ok) /\ Claims' = Claims
        /\ ClaimedOnce' /\ NoIdleTrap'
    BY <1>1, <2>1, <2>2, AddOwnerClaims DEF CInv
  <2>4. \A x \in Addr : \A p : p \in Claims'[x] <=> p \in Claims[x] \/ (Claims' # Claims /\ x = a /\ p = o)
    BY <1>1, <2>3, ClaimsType
  <2>5. Registered'
    <3> SUFFICES ASSUME NEW x \in Addr, NEW i \in UserIds, UserPersistent(i) \in Claims'[x]
                 PROVE  i \in DOMAIN users' /\ users'[i].enabled /\ users'[i].addr = x
      BY DEF Registered
    <3>1. CASE UserPersistent(i) \in Claims[x]
      BY <1>2, <3>1, <1>4 DEF CInv, Registered
    <3>2. CASE UserPersistent(i) \notin Claims[x]
      <4>1. x = a /\ i = id
        BY <2>4, <3>2, OwnersDiffer
      <4> QED
        BY <1>1, <1>2, <4>1
    <3> QED
      BY <3>1, <3>2
  <2>6. Armed'
    <3> SUFFICES ASSUME NEW i \in DOMAIN users', users'[i].enabled, i \notin unsynced'
                 PROVE  UserPersistent(i) \in Claims'[users'[i].addr]
      BY DEF Armed
    <3>1. CASE i = id
      <4>1. ~AddOwnerFails(a, o, ok)
        BY <2>2, <3>1
      <4> QED
        BY <1>1, <1>2, <2>3, <3>1, <4>1, ClaimsType
    <3>2. CASE i # id
      <4>1. i \in DOMAIN users /\ users'[i] = users[i] /\ i \notin unsynced /\ users[i].addr \in Addr
        BY <1>2, <2>2, <3>2 DEF TypeOK, User
      <4> QED
        BY <2>4, <4>1 DEF CInv, Armed
    <3> QED
      BY <3>1, <3>2
  <2>7. IdsFresh'
    BY <1>1, <1>2 DEF CInv, IdsFresh
  <2>8. Pending' /\ Current'
    BY <1>1, <2>3, <2>4, UserStep
  <2> QED
    BY <2>3, <2>5, <2>6, <2>7, <2>8 DEF CInv
<1> QED
  BY <1>3, <1>4

\* Disabling and deleting give the claim up, if there is one; gone says that
\* the registry no longer lists the breakpoint as enabled.
LEMMA GiveUpStep ==
  ASSUME Constants, TypeOK, CInv, NEW id \in UserIds, NEW ok \in BOOLEAN,
         id \in DOMAIN users,
         DOMAIN users' \in {DOMAIN users, DOMAIN users \ {id}},
         \A i \in DOMAIN users' \ {id} : users'[i] = users[i],
         id \in DOMAIN users' => ~users'[id].enabled,
         unsynced' = unsynced \ {id}, hit' = NoHit,
         UNCHANGED <<next_id, event_id, retired>>,
         \/ /\ users[id].enabled
            /\ RemoveOwner(users[id].addr, {UserPersistent(id)}, ok)
            /\ StuckAfterRemove(users[id].addr, {UserPersistent(id)}, ok)
         \/ /\ ~users[id].enabled
            /\ UNCHANGED <<mgrVars, stuck>>
  PROVE  CInv'
<1> DEFINE a == users[id].addr
           o == UserPersistent(id)
<1>1. a \in Addr /\ o \in Owner /\ TableOK
  BY OwnerTypes DEF TypeOK, User
<1>2. /\ \A x \in Addr : \A p : p # o => (p \in Claims'[x] <=> p \in Claims[x])
      /\ \A x \in Addr : o \notin Claims'[x]
      /\ ClaimedOnce' /\ NoIdleTrap'
  <2>1. CASE users[id].enabled
    <3>1. /\ \/ {o} \cap Claims[a] = {} /\ Claims' = Claims
             \/ \E q \in {o} \cap Claims[a] : Claims' = [Claims EXCEPT ![a] = @ \ {q}]
          /\ ClaimedOnce' /\ NoIdleTrap'
      BY <1>1, <2>1, RemoveOwnerClaims DEF CInv
    <3>2. \A x \in Addr \ {a} : o \notin Claims[x]
      BY DEF CInv, Registered
    <3> QED
      BY <1>1, <3>1, <3>2, ClaimsType
  <2>2. CASE ~users[id].enabled
    <3>1. \A x \in Addr : o \notin Claims[x]
      BY <2>2 DEF CInv, Registered
    <3>2. UNCHANGED Claims /\ ClaimedOnce' /\ NoIdleTrap'
      BY <2>2 DEF Claims, OwnersAt, CInv, ClaimedOnce, NoIdleTrap
    <3> QED
      BY <3>1, <3>2
  <2> QED
    BY <2>1, <2>2
<1>3. Registered'
  <2> SUFFICES ASSUME NEW x \in Addr, NEW i \in UserIds, UserPersistent(i) \in Claims'[x]
               PROVE  i \in DOMAIN users' /\ users'[i].enabled /\ users'[i].addr = x
    BY DEF Registered
  <2>1. i # id /\ UserPersistent(i) \in Claims[x]
    BY <1>2, OwnersDiffer
  <2> QED
    BY <2>1 DEF CInv, Registered
<1>4. Armed'
  <2> SUFFICES ASSUME NEW i \in DOMAIN users', users'[i].enabled, i \notin unsynced'
               PROVE  UserPersistent(i) \in Claims'[users'[i].addr]
    BY DEF Armed
  <2>1. i # id /\ i \in DOMAIN users /\ users'[i] = users[i] /\ i \notin unsynced
        /\ users[i].addr \in Addr
    BY DEF TypeOK, User
  <2>2. UserPersistent(i) # o
    BY <2>1, OwnersDiffer
  <2> QED
    BY <1>2, <2>1, <2>2 DEF CInv, Armed
<1>5. IdsFresh'
  BY DEF CInv, IdsFresh
<1>6. Pending' /\ Current'
  BY <1>2, UserStep
<1> QED
  BY <1>2, <1>3, <1>4, <1>5, <1>6 DEF CInv

LEMMA EndHitStep ==
  ASSUME Constants, TypeOK, TypeOK', HitOpen, HitOpen', OInv, CInv, NEW ok \in BOOLEAN, EndHit(ok)
  PROVE  CInv'
<1> DEFINE a == hit.addr
<1>1. /\ \/ hit.owner \notin ReturnOwners /\ Claims' = Claims
         \/ /\ hit.owner \in ReturnOwners \cap Claims[a]
            /\ Claims' = [Claims EXCEPT ![a] = @ \ {hit.owner}]
      /\ ClaimedOnce' /\ NoIdleTrap'
  BY EndHitClaims DEF OInv
<1>2. TableOK /\ a \in Addr /\ ~aborted /\ hit # NoHit /\ UNCHANGED <<next_id, event_id, unsynced>>
  BY DEF TypeOK, TableOK, EndHit, HitOpen
<1>3. \A x \in Addr : \A p : p \in Claims'[x] <=> p \in Claims[x] /\ ~(hit.owner \in ReturnOwners /\ x = a /\ p = hit.owner)
  BY <1>1, <1>2, ClaimsType
<1>4. \A i \in UserIds : UserPersistent(i) \notin ReturnOwners
  BY OwnersDiffer DEF ReturnOwners
<1>5. /\ DOMAIN users' = DOMAIN users
      /\ \A i \in DOMAIN users :
           users'[i].enabled = users[i].enabled /\ users'[i].addr = users[i].addr
  BY SMTT(30) DEF EndHit, RecordHits, TypeOK, User
<1>6. Registered' /\ Armed' /\ IdsFresh'
  BY <1>2, <1>3, <1>4, <1>5, KeepRegistry DEF CInv
<1>7. Pending'
  <2>1. CASE hit.owner \notin ReturnOwners
    <3>1. retired' = retired
      BY <2>1 DEF EndHit
    <3> QED
      BY <1>2, <1>3, <3>1, KeepPending DEF CInv
  <2>2. CASE hit.owner \in ReturnOwners
    <3>1. PICK k \in ReturnKinds, e \in 1 .. MaxEvent : hit.owner = Allocator(k, e)
      BY <2>2 DEF ReturnOwners
    <3>2. retired' = retired \cup {e}
      BY <2>2, <3>1 DEF EndHit, Allocator
    <3>3. /\ Allocator(k, e) \in Claims[a] /\ e <= event_id
          /\ \A b \in Addr, l \in ReturnKinds : Allocator(l, e) \in Claims[b] => b = a /\ l = k
      BY <1>1, <1>2, <2>2, <3>1 DEF CInv, Pending
    <3>4. \A b \in Addr, l \in ReturnKinds : Allocator(l, e) \notin Claims'[b]
      BY <1>3, <2>2, <3>1, <3>3
    <3>5. event_id \in Nat
      BY DEF TypeOK
    <3>6. \A b \in Addr, l \in ReturnKinds, f \in 1 .. MaxEvent :
            Allocator(l, f) \in Claims'[b] => Allocator(l, f) \in Claims[b] /\ f # e
      BY <1>3, <3>4
    <3> QED
      BY <1>2, <3>2, <3>3, <3>5, <3>6 DEF CInv, Pending
  <2> QED
    BY <2>1, <2>2
<1>8. Current'
  <2>1. hit' = NoHit \/ aborted'
    BY DEF EndHit
  <2> QED
    BY <2>1 DEF Current
<1> QED
  BY <1>1, <1>6, <1>7, <1>8 DEF CInv

LEMMA PlantReturnStep ==
  ASSUME Constants, TypeOK, TypeOK', HitOpen, HitOpen', OInv, CInv, NEW r \in Addr, NEW ok \in BOOLEAN,
         PlantReturn(r, ok)
  PROVE  CInv'
<1> DEFINE k == ReturnOf[hit.owner.kind]
           e == event_id + 1
           o == Allocator(k, e)
<1>1. k \in ReturnKinds /\ e \in 1 .. MaxEvent /\ event_id \in Nat
  BY DEF PlantReturn, HitOpen, TypeOK, EntryOwners, Allocator, Constants
<1>2. /\ TableOK /\ o \in Owner /\ r # hit.addr /\ hit.addr \in Addr
      /\ ~aborted /\ hit # NoHit
      /\ hit'.addr = hit.addr /\ hit'.ids = hit.ids /\ hit'.owner = NoOwner
      /\ event_id' = event_id + 1
      /\ UNCHANGED <<users, next_id, unsynced, retired>>
  BY <1>1, OwnerTypes DEF PlantReturn, TypeOK, HitOpen, TableOK
<1>3. \A x \in Addr, l \in ReturnKinds : Allocator(l, e) \notin Claims[x]
  BY <1>1 DEF CInv, Pending
<1>4. /\ \/ Claims' = [Claims EXCEPT ![r] = @ \cup {o}]
         \/ Claims' = Claims
      /\ ClaimedOnce' /\ NoIdleTrap'
  <2>1. o \in Owner \ Claims[r] /\ AddOwner(r, o, ok) /\ StuckAfterAdd(r, o, ok)
    BY <1>1, <1>2, <1>3 DEF PlantReturn
  <2> QED
    BY <1>2, <2>1, AddOwnerClaims DEF OInv
<1>5. /\ \A x \in Addr : \A p : p \in Claims[x] => p \in Claims'[x]
      /\ \A x \in Addr : \A p : p \in Claims'[x] => p \in Claims[x] \/ (x = r /\ p = o)
  BY <1>2, <1>4, ClaimsType
<1>6. Registered' /\ Armed' /\ IdsFresh'
  <2>1. \A i \in UserIds : UserPersistent(i) # o
    BY OwnersDiffer
  <2>2. \A x \in Addr, i \in UserIds :
          UserPersistent(i) \in Claims'[x] <=> UserPersistent(i) \in Claims[x]
    BY <1>5, <2>1
  <2> QED
    BY <1>2, <2>2, KeepRegistry DEF CInv
<1>7. Pending'
  <2>1. retired' \subseteq 1 .. event_id' /\ e \notin retired'
    BY <1>1, <1>2 DEF CInv, Pending
  <2>2. ASSUME NEW b \in Addr, NEW l \in ReturnKinds, NEW f \in 1 .. MaxEvent,
               Allocator(l, f) \in Claims'[b]
        PROVE  \/ b = r /\ l = k /\ f = e
               \/ f # e /\ Allocator(l, f) \in Claims[b]
    <3>1. Allocator(l, f) = o => l = k /\ f = e
      BY OwnersDiffer
    <3> QED
      BY <1>3, <1>5, <2>2, <3>1
  <2> SUFFICES ASSUME NEW b \in Addr, NEW l \in ReturnKinds, NEW f \in 1 .. MaxEvent,
                      Allocator(l, f) \in Claims'[b]
               PROVE  /\ f <= event_id' /\ f \notin retired'
                      /\ \A c \in Addr, m \in ReturnKinds :
                           Allocator(m, f) \in Claims'[c] => c = b /\ m = l
    BY <2>1 DEF Pending
  <2>3. CASE b = r /\ l = k /\ f = e
    BY <1>1, <1>2, <2>1, <2>2, <2>3
  <2>4. CASE f # e /\ Allocator(l, f) \in Claims[b]
    BY <1>1, <1>2, <2>2, <2>4 DEF CInv, Pending
  <2> QED
    BY <2>2, <2>3, <2>4
<1>8. Current'
  <2>0. \A p : p \in Claims'[hit.addr] <=> p \in Claims[hit.addr]
    BY <1>2, <1>5
  <2>1. hit.ids = {i \in UserIds : UserPersistent(i) \in Claims'[hit.addr]}
        /\ Claims'[hit.addr] # {}
    BY <1>2, <2>0 DEF CInv, Current
  <2> QED
    BY <1>2, <2>1, OwnerTypes DEF Current, AllocatorOwners
<1> QED
  BY <1>4, <1>6, <1>7, <1>8 DEF CInv

\* A breakpoint that is hit has an owner.
LEMMA HitClaimed ==
  ASSUME NEW a \in Addr, NEW ok, BeginHit(a, ok)
  PROVE  Claims[a] # {}
<1>1. \E o : Holds(a, o)
  BY DEF BeginHit, PersistentUserOwnersAt, Holds, IsFirst
<1> QED
  BY <1>1, ClaimsInLists

LEMMA BeginHitStep ==
  ASSUME Constants, TypeOK, TypeOK', OInv, CInv, NEW a \in Addr, NEW ok \in BOOLEAN,
         BeginHit(a, ok)
  PROVE  CInv'
<1>1. /\ a \in Managed /\ Disable(a, breakpoints[a].owners, ok) /\ TableOK
      /\ UNCHANGED <<users, next_id, event_id, unsynced, stuck, retired>>
  BY DEF BeginHit, TypeOK, history
<1>2. UNCHANGED Claims /\ UNCHANGED Lists /\ ClaimedOnce' /\ NoIdleTrap'
  BY <1>1, BeginHitClaims DEF CInv
<1>3. Registered' /\ Armed' /\ IdsFresh' /\ Pending'
  BY <1>1, <1>2, KeepRegistry, KeepPending DEF CInv
<1>4. Current'
  <2>1. hit'.addr = a /\ hit'.ids = {i \in UserIds : UserPersistent(i) \in Claims[a]}
    BY ClaimsInLists DEF BeginHit, PersistentUserOwnersAt
  <2>3. Claims[a] # {}
    BY HitClaimed
  <2>2. hit'.owner \in ReturnOwners =>
          \E i \in DOMAIN Lists[a] : IsFirst(Lists[a], i, AllocatorOwners) /\ Lists[a][i] = hit'.owner
    <3>1. NoOwner \notin ReturnOwners /\ Lists[a] = OwnersAt(a)
      BY OwnerTypes DEF AllocatorOwners, Lists
    <3>2. \/ hit'.owner = NoOwner
          \/ \E i \in DOMAIN OwnersAt(a) :
               IsFirst(OwnersAt(a), i, AllocatorOwners) /\ OwnersAt(a)[i] = hit'.owner
      BY DEF BeginHit
    <3> QED
      BY <3>1, <3>2
  <2> QED
    BY <1>2, <2>1, <2>2, <2>3 DEF Current
<1> QED
  BY <1>2, <1>3, <1>4 DEF CInv

\* The strengthened invariant is inductive.
LEMMA OwnersStep ==
  ASSUME Constants, IInv, IInv', OInv, [Next]_vars
  PROVE  OInv'
<1> USE DEF history, Idle
<1>1. TypeOK /\ TypeOK' /\ HitOpen /\ HitOpen' /\ TableOK /\ CInv
  BY OInvCInv DEF IInv, TypeOK
<1>2. \A x \in Addr : \A o : o \in Claims[x] <=> Holds(x, o)
  BY ClaimsInLists
<1>3. ClaimedOnce /\ NoIdleTrap
  BY DEF OInv
<1>4. SUFFICES CInv'
  BY <1>1, OInvCInv
<1>5. ASSUME NEW a \in Addr, NEW ok \in BOOLEAN, NEW k \in EntryKinds,
             SetEntryBreakpoint(a, k, ok)
      PROVE  CInv'
  <2> DEFINE o == Allocator(k, 0)
  <2>1. o \in Owner
    BY OwnerTypes
  <2>2. o \notin Claims[a]
    <3>1. a \in Managed => ~Holds(a, o)
      BY <1>5, <2>1 DEF SetEntryBreakpoint
    <3> QED
      BY <1>2, <3>1, HoldsManaged
  <2>3. AddOwner(a, o, ok) /\ StuckAfterAdd(a, o, ok)
    BY <1>5 DEF SetEntryBreakpoint
  <2>4. Claims' \in {Claims, [Claims EXCEPT ![a] = @ \cup {o}]} /\ ClaimedOnce' /\ NoIdleTrap'
    BY <1>1, <1>3, <2>1, <2>2, <2>3, AddOwnerClaims
  <2> QED
    BY <1>1, <1>5, <2>4, NeutralOwners, NeutralStep DEF SetEntryBreakpoint
<1>6. ASSUME NEW a \in Addr, NEW ok \in BOOLEAN, NEW c \in Commands,
             SetUserStepOverBreakpoint(a, c, ok)
      PROVE  CInv'
  <2> DEFINE o == StepOver(c)
  <2>1. o \in Owner
    BY OwnerTypes
  <2>2. o \notin Claims[a]
    <3>1. a \in Managed => ~Holds(a, o)
      BY <1>6 DEF SetUserStepOverBreakpoint
    <3> QED
      BY <1>2, <3>1, HoldsManaged
  <2>3. AddOwner(a, o, ok) /\ StuckAfterAdd(a, o, ok)
    BY <1>6 DEF SetUserStepOverBreakpoint
  <2>4. Claims' \in {Claims, [Claims EXCEPT ![a] = @ \cup {o}]} /\ ClaimedOnce' /\ NoIdleTrap'
    BY <1>1, <1>3, <2>1, <2>2, <2>3, AddOwnerClaims
  <2> QED
    BY <1>1, <1>6, <2>4, NeutralOwners, NeutralStep DEF SetUserStepOverBreakpoint
<1>7. ASSUME NEW a \in Addr, NEW ok \in BOOLEAN, RemoveUserStepOverBreakpoint(a, ok)
      PROVE  CInv'
  <2>1. RemoveOwner(a, StepOverOwners, ok) /\ StuckAfterRemove(a, StepOverOwners, ok)
    BY <1>7 DEF RemoveUserStepOverBreakpoint
  <2>2. /\ \/ Claims' = Claims
           \/ \E o \in StepOverOwners \cap Claims[a] : Claims' = [Claims EXCEPT ![a] = @ \ {o}]
        /\ ClaimedOnce' /\ NoIdleTrap'
    BY <1>1, <1>3, <2>1, RemoveOwnerClaims
  <2>3. PICK c : Claims' \in {Claims, [Claims EXCEPT ![a] = @ \ {StepOver(c)}]}
    BY <2>2 DEF StepOverOwners
  <2> QED
    BY <1>1, <1>7, <2>2, <2>3, NeutralOwners, NeutralStep DEF RemoveUserStepOverBreakpoint
<1>8. ASSUME NEW a \in Addr, NEW ok \in BOOLEAN, AddUserBreakpoint(a, ok)
      PROVE  CInv'
  BY <1>1, <1>8, AddUserStep
<1>9. ASSUME NEW a \in Addr, NEW ok \in BOOLEAN, BeginHit(a, ok)
      PROVE  CInv'
  BY <1>1, <1>9, BeginHitStep
<1>10. ASSUME NEW r \in Addr, NEW ok \in BOOLEAN, PlantReturn(r, ok)
       PROVE  CInv'
  BY <1>1, <1>10, PlantReturnStep
<1>11. ASSUME NEW a \in Addr, UnownedHit(a)
       PROVE  CInv'
  <2>1. UNCHANGED Claims /\ ClaimedOnce' /\ NoIdleTrap'
    BY <1>3, <1>11 DEF UnownedHit, Claims, OwnersAt, ClaimedOnce, NoIdleTrap
  <2> QED
    BY <1>1, <1>11, <2>1, NeutralOwners, NeutralStep DEF UnownedHit
<1>12. ASSUME NEW id \in UserIds, NEW ok \in BOOLEAN, EnableUserBreakpoint(id, ok)
       PROVE  CInv'
  BY <1>1, <1>12, EnableUserStep
<1>13. ASSUME NEW id \in UserIds, NEW ok \in BOOLEAN, DisableUserBreakpoint(id, ok)
       PROVE  CInv'
  <2>1. /\ id \in DOMAIN users /\ DOMAIN users' = DOMAIN users
        /\ \A i \in DOMAIN users' \ {id} : users'[i] = users[i]
        /\ ~users'[id].enabled
    BY <1>1, <1>13 DEF DisableUserBreakpoint, TypeOK, User
  <2> QED
    BY <1>1, <1>13, <2>1, GiveUpStep DEF DisableUserBreakpoint
<1>14. ASSUME NEW id \in UserIds, NEW ok \in BOOLEAN, DeleteUserBreakpoint(id, ok)
       PROVE  CInv'
  <2>1. /\ id \in DOMAIN users /\ DOMAIN users' = DOMAIN users \ {id}
        /\ \A i \in DOMAIN users' \ {id} : users'[i] = users[i]
    BY <1>1, <1>14 DEF DeleteUserBreakpoint, Drop
  <2> QED
    BY <1>1, <1>14, <2>1, GiveUpStep DEF DeleteUserBreakpoint
<1>15. ASSUME NEW ok \in BOOLEAN, EndHit(ok)
       PROVE  CInv'
  BY <1>1, <1>15, EndHitStep
<1>16. CASE MissReturn \/ UNCHANGED vars
  <2>1. /\ UNCHANGED <<mem, breakpoints, users, next_id, aborted, unsynced, stuck, retired>>
        /\ event_id' \in {event_id, event_id + 1} /\ hit'.addr = hit.addr /\ hit'.ids = hit.ids
        /\ hit'.owner \in {hit.owner, NoOwner} /\ (hit' # NoHit => hit # NoHit)
    BY <1>1, <1>16 DEF MissReturn, vars, TypeOK
  <2>2. UNCHANGED Claims /\ UNCHANGED Lists /\ ClaimedOnce' /\ NoIdleTrap'
    BY <1>3, <2>1 DEF Claims, Lists, OwnersAt, ClaimedOnce, NoIdleTrap
  <2>3. Registered' /\ Armed' /\ IdsFresh'
    BY <1>1, <2>1, <2>2, KeepRegistry DEF CInv
  <2>4. Pending'
    <3>1. event_id \in Nat
      BY <1>1 DEF TypeOK
    <3> QED
      BY <1>1, <2>1, <2>2, <3>1 DEF CInv, Pending
  <2>5. Current'
    <3>1. NoOwner \notin ReturnOwners
      BY OwnerTypes DEF AllocatorOwners
    <3> QED
      BY <1>1, <2>1, <2>2, <3>1 DEF CInv, Current
  <2> QED
    BY <2>2, <2>3, <2>4, <2>5 DEF CInv
<1> QED
  BY <1>5, <1>6, <1>7, <1>8, <1>9, <1>10, <1>11, <1>12, <1>13, <1>14, <1>15, <1>16
  DEF Next

\* Initially nobody claims anything.
LEMMA InitOInv == Init => OInv
<1> SUFFICES ASSUME Init PROVE OInv
  OBVIOUS
<1>1. DOMAIN breakpoints = {} /\ DOMAIN users = {} /\ hit = NoHit /\ retired = {}
  BY DEF Init
<1>2. \A a, o : ~Holds(a, o)
  BY <1>1, HoldsManaged
<1>3. ClaimedOnce
  BY <1>2 DEF ClaimedOnce, Once, Holds
<1> QED
  BY <1>1, <1>2, <1>3
  DEF OInv, NoIdleTrap, OwnersRegistered, EnabledArmed, IdsFresh, ReturnsPending, HitCurrent

-----------------------------------------------------------------------------
(* Theorems *)

\* The owner lists stay in agreement with the registry, the calls in flight
\* and the hit in progress, for every instance (breakpoint.rs:79-450).
THEOREM OwnersAgree == ASSUME Constants PROVE Spec => [](IInv /\ OInv)
<1>1. Init => IInv /\ OInv
  BY InitIInv, InitOInv
<1>2. IInv /\ OInv /\ [Next]_vars => (IInv /\ OInv)'
  BY TypeStep, TextStep, ArmedStep, OwnersStep DEF IInv
<1> QED
  BY <1>1, <1>2, PTL DEF Spec

\* A breakpoint nobody claims is physically gone, unless its byte could not
\* be restored (remove_owner_at).
COROLLARY IdleTrapsGo == ASSUME Constants PROVE Spec => []NoIdleTrap
<1>1. OInv => NoIdleTrap
  BY DEF OInv
<1> QED
  BY <1>1, OwnersAgree, PTL

\* Only listed, enabled user breakpoints claim an address (the registry
\* commands of live_breakpoints).
COROLLARY ClaimsRegistered == ASSUME Constants PROVE Spec => []OwnersRegistered
<1>1. OInv => OwnersRegistered
  BY DEF OInv
<1> QED
  BY <1>1, OwnersAgree, PTL

\* A breakpoint listed as enabled claims its address once, unless arming it
\* failed.
COROLLARY ListedArmed == ASSUME Constants PROVE Spec => []EnabledArmed
<1>1. OInv => EnabledArmed
  BY DEF OInv
<1> QED
  BY <1>1, OwnersAgree, PTL

\* No allocator event is reported by two hits, however many calls share their
\* return address.
COROLLARY EventsReportedOnce == ASSUME Constants PROVE Spec => []ReportedOnce
<1>1. IInv /\ OInv => ReportedOnce
  BY DEF IInv, TypeOK, TableOK, OInv, ReturnsPending, ReportedOnce
<1> QED
  BY <1>1, OwnersAgree, PTL

\* A hit credits the user breakpoints that stood at the address when the
\* program passed it, one hit each, and no other.
THEOREM HitsCreditedAlways == ASSUME Constants PROVE Spec => HitsCredited
<1>1. ASSUME IInv, OInv, [Next]_vars, hit # NoHit, hit' = NoHit, NEW i \in DOMAIN users
      PROVE  users'[i].hits - users[i].hits =
               (IF Holds(hit.addr, UserPersistent(i)) THEN 1 ELSE 0)
  <2>1. hit.addr \in Managed /\ hit.addr \in Addr /\ hit.addr # NoAddr /\ TypeOK
    BY <1>1 DEF IInv, HitOpen, TypeOK, TableOK, Constants
  <2>2. PICK ok \in BOOLEAN : EndHit(ok)
    <3>1. ~UNCHANGED vars
      BY <1>1 DEF vars
    <3>2. ~Idle
      BY <1>1 DEF Idle
    <3>3. ASSUME NEW r \in Addr, NEW ok \in BOOLEAN PROVE ~PlantReturn(r, ok)
      BY <1>1, <2>1 DEF PlantReturn, TypeOK, NoHit
    <3>4. ~MissReturn
      BY <1>1, <2>1 DEF MissReturn, TypeOK, NoHit
    <3>5. \E ok \in BOOLEAN : EndHit(ok)
      BY <1>1, <3>1, <3>2, <3>3, <3>4
      DEF Next, SetEntryBreakpoint, SetUserStepOverBreakpoint, RemoveUserStepOverBreakpoint,
          AddUserBreakpoint, BeginHit, UnownedHit, EnableUserBreakpoint,
          DisableUserBreakpoint, DeleteUserBreakpoint
    <3> QED
      BY <3>5
  <2>3. ~aborted' /\ ~aborted /\ RecordHits(hit.ids)
    BY <1>1, <2>2 DEF EndHit
  <2>4. i \in UserIds /\ users[i].hits \in Nat /\ users[i].enabled \in BOOLEAN
    BY <2>1 DEF TypeOK, User
  <2>5. Holds(hit.addr, UserPersistent(i)) <=> i \in hit.ids /\ users[i].enabled
    BY <1>1, <2>1, <2>3, <2>4 DEF OInv, HitCurrent, PersistentUserOwnersAt, OwnersRegistered
  <2>6. users'[i].hits = users[i].hits + (IF i \in hit.ids /\ users[i].enabled THEN 1 ELSE 0)
    BY <2>1, <2>3, <2>4 DEF RecordHits, TypeOK, User
  <2> QED
    BY <2>4, <2>5, <2>6
<1>2. IInv /\ OInv /\ [Next]_vars =>
        [hit # NoHit /\ hit' = NoHit =>
           \A i \in DOMAIN users :
             users'[i].hits - users[i].hits =
               (IF Holds(hit.addr, UserPersistent(i)) THEN 1 ELSE 0)]_vars
  BY <1>1
<1> QED
  BY <1>2, OwnersAgree, PTL DEF Spec, HitsCredited

-----------------------------------------------------------------------------
(* The table implements its promise *)

ArmedSet == {a \in Managed : breakpoints[a].enabled}

\* An owner that joins arms the address, or finds it armed.
LEMMA AddOwnerArmed ==
  ASSUME TableOK, NEW a \in Addr \ Lifted, NEW o \in Owner \ Claims[a],
         NEW ok \in BOOLEAN, AddOwner(a, o, ok)
  PROVE  \/ ArmedSet' = ArmedSet \cup {a} /\ Lifted' = Lifted
         \/ UNCHANGED mgrVars
<1>1. CASE a \in Managed /\ Enable(a, Append(breakpoints[a].owners, o), ok)
  <2>1. breakpoints[a].enabled
    BY <1>1 DEF Lifted
  <2>2. /\ DOMAIN breakpoints' = DOMAIN breakpoints /\ breakpoints'[a].enabled
        /\ \A x \in Managed \ {a} : breakpoints'[x] = breakpoints[x]
    BY <1>1, <2>1 DEF Enable, TableOK
  <2> QED
    BY <1>1, <2>1, <2>2 DEF ArmedSet, Lifted
<1>2. CASE /\ a \notin Managed
           /\ breakpoints' = Put(breakpoints, a, [original_byte |-> mem[a],
                                            enabled |-> TRUE, owners |-> <<o>>])
  BY <1>2 DEF Put, ArmedSet, Lifted
<1> QED
  BY <1>1, <1>2 DEF AddOwner

\* An owner that leaves takes the arming only when it takes the entry.
LEMMA RemoveOwnerArmed ==
  ASSUME TableOK, NEW a \in Addr \ Lifted, NEW S, NEW ok \in BOOLEAN, RemoveOwner(a, S, ok)
  PROVE  /\ Lifted' = Lifted
         /\ \/ ArmedSet' = ArmedSet
            \/ ArmedSet' = ArmedSet \ {a} /\ Claims'[a] = {}
<1>1. CASE UNCHANGED mgrVars
  BY <1>1 DEF Lifted, ArmedSet
<1>2. CASE \E i \in DOMAIN OwnersAt(a) : OwnersAt(a)[i] \in S
  <2> DEFINE b == breakpoints[a]
  <2>0. a \in Managed
    BY <1>2, HoldsManaged DEF Holds
  <2>1. b.enabled
    BY <2>0 DEF Lifted
  <2>2. PICK i \in DOMAIN OwnersAt(a) :
          LET rest == Without(b.owners, i)
          IN  \/ breakpoints' = breakpoints
              \/ breakpoints' = [breakpoints EXCEPT ![a] =
                       [original_byte |-> b.original_byte,
                        enabled |-> b.enabled, owners |-> rest]]
              \/ ~ok /\ Disable(a, rest, ok)
              \/ breakpoints' = Drop(breakpoints, a)
    BY <1>2 DEF RemoveOwner
  <2> DEFINE rest == Without(b.owners, i)
  <2> HIDE DEF rest
  <2>3. CASE breakpoints' = [breakpoints EXCEPT ![a] =
                  [original_byte |-> b.original_byte,
                   enabled |-> b.enabled, owners |-> rest]]
    BY <2>0, <2>3 DEF TableOK, Lifted, ArmedSet
  <2>4. CASE ~ok /\ Disable(a, rest, ok)
    <3>1. /\ DOMAIN breakpoints' = DOMAIN breakpoints /\ breakpoints'[a].enabled
          /\ \A x \in Managed \ {a} : breakpoints'[x] = breakpoints[x]
      BY <2>0, <2>1, <2>4 DEF TableOK, Disable
    <3> QED
      BY <2>0, <2>1, <3>1 DEF Lifted, ArmedSet
  <2>5. CASE breakpoints' = Drop(breakpoints, a)
    <3>1. Claims'[a] = {}
      BY <2>5 DEF Claims, OwnersAt, Drop
    <3> QED
      BY <2>0, <2>1, <2>5, <3>1 DEF Lifted, ArmedSet, Drop
  <2> QED
    BY <2>2, <2>3, <2>4, <2>5 DEF rest, Lifted, ArmedSet
<1> QED
  BY <1>1, <1>2 DEF RemoveOwner, IsFirst

\* Between hits a claim made is a claim of the ledger ...
LEMMA ClaimStep ==
  ASSUME Constants, TypeOK, OInv, NEW a \in Addr \ Lifted, NEW o \in Owner \ Claims[a],
         NEW ok \in BOOLEAN, AddOwner(a, o, ok), StuckAfterAdd(a, o, ok)
  PROVE  [Ledger!Next]_(Ledger!ledger)
<1>1. TableOK /\ ClaimedOnce /\ NoIdleTrap
  BY DEF TypeOK, OInv
<1>2. \/ Claims' = [Claims EXCEPT ![a] = @ \cup {o}]
      \/ UNCHANGED mgrVars
  BY <1>1, AddOwnerClaims
<1>3. CASE UNCHANGED mgrVars
  BY <1>3 DEF Ledger!ledger, Claims, OwnersAt
<1>4. CASE /\ Claims' = [Claims EXCEPT ![a] = @ \cup {o}]
           /\ ArmedSet' = ArmedSet \cup {a} /\ Lifted' = Lifted
  <2>1. Ledger!Claim(a, o)
    BY <1>4 DEF Ledger!Claim, ArmedSet, Lifted
  <2> QED
    BY <2>1 DEF Ledger!Next
<1> QED
  BY <1>1, <1>2, <1>3, <1>4, AddOwnerArmed

\* ... and one given up is a release.
LEMMA ReleaseStep ==
  ASSUME Constants, TypeOK, OInv, NEW a \in Addr \ Lifted, NEW S,
         NEW ok \in BOOLEAN, RemoveOwner(a, S, ok), StuckAfterRemove(a, S, ok)
  PROVE  [Ledger!Next]_(Ledger!ledger)
<1>1. TableOK /\ ClaimedOnce /\ NoIdleTrap
  BY DEF TypeOK, OInv
<1>2. \/ S \cap Claims[a] = {} /\ Claims' = Claims
      \/ \E o \in S \cap Claims[a] : Claims' = [Claims EXCEPT ![a] = @ \ {o}]
  BY <1>1, RemoveOwnerClaims
<1>3. /\ Lifted' = Lifted
      /\ \/ ArmedSet' = ArmedSet
         \/ ArmedSet' = ArmedSet \ {a} /\ Claims'[a] = {}
  BY <1>1, RemoveOwnerArmed
<1>4. CASE S \cap Claims[a] = {}
  <2>1. \A o \in S : ~Holds(a, o)
    BY <1>4, ClaimsInLists
  <2>2. UNCHANGED mgrVars
    BY <2>1 DEF RemoveOwner, Holds, IsFirst
  <2> QED
    BY <2>2 DEF Ledger!ledger, Claims, OwnersAt
<1>5. CASE \E o \in S \cap Claims[a] : Claims' = [Claims EXCEPT ![a] = @ \ {o}]
  <2>1. PICK o \in S \cap Claims[a] : Claims' = [Claims EXCEPT ![a] = @ \ {o}]
    BY <1>5
  <2>2. o \in Owner
    BY <1>1, ClaimsType
  <2>3. Ledger!Release(a, o)
    BY <1>3, <2>1 DEF Ledger!Release, ArmedSet, Lifted
  <2> QED
    BY <2>2, <2>3 DEF Ledger!Next
<1> QED
  BY <1>2, <1>4, <1>5

\* Between hits nothing is lifted; during one, exactly its address is.
LEMMA LiftedIs ==
  ASSUME Constants, IInv, ~aborted
  PROVE  /\ hit = NoHit => Lifted = {}
         /\ hit # NoHit => Lifted = {hit.addr}
  BY DEF IInv, TypeOK, TableOK, HitOpen, HitLifted, Rearmed, Lifted, NoHit, Constants

\* A hit begun is a lift, unless the write failed.
LEMMA LiftStep ==
  ASSUME Constants, IInv, OInv, NEW a \in Addr, NEW ok \in BOOLEAN, BeginHit(a, ok)
  PROVE  [Ledger!Next]_(Ledger!ledger)
<1>1. /\ a \in Managed /\ breakpoints[a].enabled /\ TypeOK /\ TableOK /\ Lifted = {}
      /\ Disable(a, breakpoints[a].owners, ok) /\ UNCHANGED stuck
  BY LiftedIs DEF BeginHit, IInv, TypeOK, Idle, history
<1>2. UNCHANGED Claims
  BY <1>1, BeginHitClaims DEF OInv
<1>3. Claims[a] # {}
  BY HitClaimed
<1>4. CASE ok
  <2>1. ArmedSet' = ArmedSet \ {a} /\ Lifted' = {a}
    BY <1>1, <1>4 DEF Disable, TableOK, ArmedSet, Lifted
  <2>2. Ledger!Lift(a)
    BY <1>1, <1>2, <1>3, <2>1 DEF Ledger!Lift, ArmedSet, Lifted
  <2> QED
    BY <2>2 DEF Ledger!Next
<1>5. CASE ~ok
  <2>1. ArmedSet' = ArmedSet /\ Lifted' = Lifted
    BY <1>1, <1>5 DEF Disable, TableOK, Breakpoint, ArmedSet, Lifted
  <2> QED
    BY <1>2, <2>1 DEF Ledger!ledger, ArmedSet, Lifted
<1> QED
  BY <1>4, <1>5

\* A hit finished settles its address, or releases the served claim when the
\* breakpoint could not be armed again.
LEMMA SettleStep ==
  ASSUME Constants, IInv, IInv', OInv, NEW a, a = hit.addr,
         NEW ok \in BOOLEAN, EndHit(ok)
  PROVE  [Ledger!Next]_(Ledger!ledger)
<1>1. /\ a \in Managed /\ a \in Addr /\ TypeOK /\ TypeOK' /\ HitOpen /\ HitOpen' /\ TableOK
      /\ Lifted = {a} /\ a \notin ArmedSet
  <2>1. TypeOK /\ TypeOK' /\ HitOpen /\ HitOpen' /\ TableOK /\ ~aborted /\ hit # NoHit
    BY DEF IInv, TypeOK, EndHit
  <2>2. Lifted = {a}
    BY <2>1, LiftedIs
  <2> QED
    BY <2>1, <2>2 DEF HitOpen, TableOK, Lifted, ArmedSet
<1>2. \/ Claims' = Claims
      \/ \E o \in Claims[a] : Claims' = [Claims EXCEPT ![a] = @ \ {o}]
  BY <1>1, EndHitClaims DEF OInv
<1>3. CASE \E t : t # <<>> /\ Enable(a, t, ok)
  <2>1. PICK t : t # <<>> /\ Enable(a, t, ok)
    BY <1>3
  <2>2. /\ DOMAIN breakpoints' = DOMAIN breakpoints /\ (breakpoints'[a].enabled <=> ok)
        /\ breakpoints'[a].owners = t
        /\ \A x \in Managed \ {a} : breakpoints'[x] = breakpoints[x]
    BY <1>1, <2>1 DEF Enable, TableOK, Lifted
  <2>3. CASE ok
    <3>1. ArmedSet' = ArmedSet \cup {a} /\ Lifted' = {}
      BY <1>1, <2>2, <2>3 DEF ArmedSet, Lifted
    <3>2. Claims'[a] # {}
      <4>1. t \in Seq(Owner)
        BY <1>1, <2>2 DEF TypeOK, TableOK, Breakpoint
      <4>2. 1 \in DOMAIN t
        BY <2>1, <4>1
      <4>3. Claims'[a] = {breakpoints'[a].owners[i] : i \in DOMAIN breakpoints'[a].owners}
        BY <1>1, <2>2 DEF Claims, OwnersAt
      <4> QED
        BY <2>2, <4>2, <4>3
    <3>3. Ledger!Settle(a)
      BY <1>1, <1>2, <3>1, <3>2 DEF Ledger!Settle, ArmedSet, Lifted
    <3> QED
      BY <1>1, <3>3 DEF Ledger!Next
  <2>4. CASE ~ok
    <3>1. ArmedSet' = ArmedSet /\ Lifted' = Lifted
      BY <1>1, <2>2, <2>4 DEF ArmedSet, Lifted
    <3>2. CASE Claims' = Claims
      BY <3>1, <3>2 DEF Ledger!ledger, ArmedSet, Lifted
    <3>3. CASE \E o \in Claims[a] : Claims' = [Claims EXCEPT ![a] = @ \ {o}]
      <4>1. PICK o \in Claims[a] : Claims' = [Claims EXCEPT ![a] = @ \ {o}]
        BY <3>3
      <4>2. Ledger!Release(a, o) /\ o \in Owner
        BY <1>1, <3>1, <4>1, ClaimsType DEF Ledger!Release, ArmedSet, Lifted
      <4> QED
        BY <1>1, <4>2 DEF Ledger!Next
    <3> QED
      BY <1>2, <3>2, <3>3
  <2> QED
    BY <2>3, <2>4
<1>4. CASE breakpoints' = Drop(breakpoints, a)
  <2>1. ArmedSet' = ArmedSet /\ Lifted' = {} /\ Claims'[a] = {}
    BY <1>1, <1>4 DEF Drop, ArmedSet, Lifted, Claims, OwnersAt
  <2>2. Ledger!Settle(a)
    BY <1>1, <1>2, <2>1 DEF Ledger!Settle, ArmedSet, Lifted
  <2> QED
    BY <1>1, <2>2 DEF Ledger!Next
<1>5. (\E t : t # <<>> /\ Enable(a, t, ok)) \/ breakpoints' = Drop(breakpoints, a)
  <2>1. CASE hit.owner \in ReturnOwners
    BY <2>1 DEF EndHit
  <2>2. CASE hit.owner \notin ReturnOwners
    <3>1. Enable(a, breakpoints[a].owners, ok)
      BY <2>2 DEF EndHit
    <3>3. breakpoints[a].owners # <<>>
      <4>1. PICK o : Holds(a, o)
        BY DEF OInv, HitCurrent, EndHit
      <4>2. 1 .. 0 = {} /\ breakpoints[a].owners \in Seq(Owner) /\ Len(<<>>) = 0
        BY <1>1 DEF TableOK, Breakpoint
      <4> QED
        BY <1>1, <4>1, <4>2 DEF Holds, OwnersAt
    <3> QED
      BY <3>1, <3>3
  <2> QED
    BY <2>1, <2>2
<1> QED
  BY <1>3, <1>4, <1>5

\* The table implements the ledger: an address traps exactly as long as an
\* owner claims it, whoever shares it, for every instance.
THEOREM LedgerKept == ASSUME Constants PROVE Spec => KeepsLedger
<1>1. Init => Ledger!Init
  <2> SUFFICES ASSUME Init PROVE Ledger!Init
    OBVIOUS
  <2>1. DOMAIN breakpoints = {}
    BY DEF Init
  <2>2. \A a \in Addr : Claims[a] = {}
    BY <2>1, HoldsManaged, ClaimsInLists
  <2>3. Claims = [a \in Addr |-> {}]
    BY <2>2 DEF Claims
  <2> QED
    BY <2>1, <2>3 DEF Ledger!Init
<1>2. ASSUME IInv, IInv', OInv, [Next]_vars
      PROVE  [Ledger!Next]_(Ledger!ledger)
  <2> USE DEF Idle, history
  <2>1. TypeOK /\ TableOK
    BY <1>2 DEF IInv, TypeOK
  <2>2. Idle => \A a \in Addr : a \notin Lifted
    BY <1>2, LiftedIs
  <2>3. \A x \in Addr : \A o : o \in Claims[x] => Holds(x, o) /\ x \in Managed
    BY ClaimsInLists, HoldsManaged
  <2>4. ASSUME UNCHANGED mgrVars PROVE UNCHANGED Ledger!ledger
    BY <2>4 DEF Ledger!ledger, Claims, OwnersAt
  <2>5. ASSUME NEW a \in Addr, NEW ok \in BOOLEAN, NEW k \in EntryKinds,
               SetEntryBreakpoint(a, k, ok)
        PROVE  [Ledger!Next]_(Ledger!ledger)
    <3>1. Allocator(k, 0) \in Owner \ Claims[a] /\ a \notin Lifted
      BY <2>2, <2>3, <2>5, OwnerTypes DEF SetEntryBreakpoint
    <3> QED
      BY <1>2, <2>1, <2>5, <3>1, ClaimStep DEF SetEntryBreakpoint
  <2>6. ASSUME NEW a \in Addr, NEW ok \in BOOLEAN, NEW c \in Commands,
               SetUserStepOverBreakpoint(a, c, ok)
        PROVE  [Ledger!Next]_(Ledger!ledger)
    <3>1. StepOver(c) \in Owner \ Claims[a] /\ a \notin Lifted
      BY <2>2, <2>3, <2>6, OwnerTypes DEF SetUserStepOverBreakpoint
    <3> QED
      BY <1>2, <2>1, <2>6, <3>1, ClaimStep DEF SetUserStepOverBreakpoint
  <2>7. ASSUME NEW a \in Addr, NEW ok \in BOOLEAN, RemoveUserStepOverBreakpoint(a, ok)
        PROVE  [Ledger!Next]_(Ledger!ledger)
    BY <1>2, <2>1, <2>2, <2>7, ReleaseStep DEF RemoveUserStepOverBreakpoint
  <2>8. ASSUME NEW a \in Addr, NEW ok \in BOOLEAN, AddUserBreakpoint(a, ok)
        PROVE  [Ledger!Next]_(Ledger!ledger)
    <3> DEFINE id == IF next_id > 1 THEN next_id ELSE 1
    <3>1. id \in UserIds /\ id \notin DOMAIN users
      BY <1>2, <2>1, <2>8 DEF AddUserBreakpoint, TypeOK, UserIds, Constants, OInv, IdsFresh
    <3>2. UserPersistent(id) \in Owner \ Claims[a] /\ a \notin Lifted
      BY <1>2, <2>2, <2>3, <2>8, <3>1, OwnerTypes
      DEF AddUserBreakpoint, OInv, OwnersRegistered
    <3> QED
      BY <1>2, <2>1, <2>8, <3>2, ClaimStep DEF AddUserBreakpoint
  <2>9. ASSUME NEW a \in Addr, NEW ok \in BOOLEAN, BeginHit(a, ok)
        PROVE  [Ledger!Next]_(Ledger!ledger)
    BY <1>2, <2>9, LiftStep
  <2>10. ASSUME NEW r \in Addr, NEW ok \in BOOLEAN, PlantReturn(r, ok)
         PROVE  [Ledger!Next]_(Ledger!ledger)
    <3> DEFINE o == Allocator(ReturnOf[hit.owner.kind], event_id + 1)
    <3>1. ReturnOf[hit.owner.kind] \in ReturnKinds /\ event_id + 1 \in 1 .. MaxEvent
          /\ event_id \in Nat
      BY <1>2, <2>1, <2>10
      DEF IInv, PlantReturn, HitOpen, TypeOK, EntryOwners, Allocator, Constants
    <3>2. o \in Owner \ Claims[r]
      <4>1. r \in Managed => ~Holds(r, o)
        BY <1>2, <2>10, <3>1 DEF OInv, ReturnsPending
      <4> QED
        BY <2>3, <3>1, <4>1, OwnerTypes
    <3>3. r \notin Lifted
      BY <1>2, <2>10, LiftedIs DEF PlantReturn
    <3> QED
      BY <1>2, <2>1, <2>10, <3>2, <3>3, ClaimStep DEF PlantReturn
  <2>11. ASSUME NEW id \in UserIds, NEW ok \in BOOLEAN, EnableUserBreakpoint(id, ok)
         PROVE  [Ledger!Next]_(Ledger!ledger)
    <3>1. id \in DOMAIN users /\ users[id].addr \in Addr
      BY <2>1, <2>11 DEF EnableUserBreakpoint, TypeOK, User
    <3>2. CASE UNCHANGED mgrVars
      BY <2>4, <3>2
    <3>3. CASE ~users[id].enabled
      <4>1. UserPersistent(id) \in Owner \ Claims[users[id].addr] /\ users[id].addr \notin Lifted
        BY <1>2, <2>2, <2>3, <2>11, <3>1, <3>3, OwnerTypes
        DEF EnableUserBreakpoint, OInv, OwnersRegistered
      <4> QED
        BY <1>2, <2>1, <2>11, <3>1, <3>3, <4>1, ClaimStep DEF EnableUserBreakpoint
    <3> QED
      BY <2>11, <3>2, <3>3 DEF EnableUserBreakpoint
  <2>12. ASSUME NEW id \in UserIds, NEW ok \in BOOLEAN,
                DisableUserBreakpoint(id, ok) \/ DeleteUserBreakpoint(id, ok)
         PROVE  [Ledger!Next]_(Ledger!ledger)
    <3> DEFINE a == users[id].addr
               S == {UserPersistent(id)}
    <3>1. a \in Addr /\ a \notin Lifted
      BY <2>1, <2>2, <2>12 DEF DisableUserBreakpoint, DeleteUserBreakpoint, TypeOK, User
    <3>2. UNCHANGED mgrVars \/ (RemoveOwner(a, S, ok) /\ StuckAfterRemove(a, S, ok))
      BY <2>12 DEF DisableUserBreakpoint, DeleteUserBreakpoint
    <3> QED
      BY <1>2, <2>1, <2>4, <3>1, <3>2, ReleaseStep
  <2>13. ASSUME NEW ok \in BOOLEAN, EndHit(ok)
         PROVE  [Ledger!Next]_(Ledger!ledger)
    BY <1>2, <2>13, SettleStep
  <2>14. ASSUME NEW a \in Addr, UnownedHit(a)
         PROVE  [Ledger!Next]_(Ledger!ledger)
    BY <2>4, <2>14 DEF UnownedHit
  <2>15. CASE MissReturn \/ UNCHANGED vars
    BY <2>4, <2>15 DEF MissReturn, vars
  <2> QED
    BY <1>2, <2>5, <2>6, <2>7, <2>8, <2>9, <2>10, <2>11, <2>12, <2>13, <2>14, <2>15 DEF Next
<1> QED
  BY <1>1, <1>2, OwnersAgree, PTL DEF Spec, KeepsLedger, Ledger!Spec
=============================================================================
