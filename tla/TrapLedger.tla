------------------------------ MODULE TrapLedger ------------------------------
(***************************************************************************)
(* What a shared breakpoint promises its owners: as long as anyone claims  *)
(* an address the program traps there, save while it is being stepped past *)
(* that address; when nobody does, it does not, unless the byte could not  *)
(* be restored.  BreakpointManager implements this.                        *)
(***************************************************************************)
CONSTANTS Addr, Owner

VARIABLES
  claims,   \* who claims each address
  armed,    \* addresses where the program traps
  lifted    \* the address being stepped past, if any

ledger == <<claims, armed, lifted>>

Init ==
  /\ claims = [a \in Addr |-> {}]
  /\ armed = {}
  /\ lifted = {}

\* A claim arms the address, or finds it armed.
Claim(a, o) ==
  /\ o \notin claims[a] /\ a \notin lifted
  /\ claims' = [claims EXCEPT ![a] = @ \cup {o}]
  /\ armed' = armed \cup {a}
  /\ UNCHANGED lifted

\* The last claim to go takes the trap with it, unless the write fails.
Release(a, o) ==
  /\ o \in claims[a]
  /\ claims' = [claims EXCEPT ![a] = @ \ {o}]
  /\ armed' \in {armed} \cup {armed \ {x} : x \in {y \in {a} : claims'[y] = {}}}
  /\ UNCHANGED lifted

Lift(a) ==
  /\ lifted = {} /\ a \in armed /\ claims[a] # {}
  /\ armed' = armed \ {a}
  /\ lifted' = {a}
  /\ UNCHANGED claims

\* The program is past a: the served claim may go, the others arm it again.
Settle(a) ==
  /\ lifted = {a}
  /\ lifted' = {}
  /\ \/ UNCHANGED claims
     \/ \E o \in claims[a] : claims' = [claims EXCEPT ![a] = @ \ {o}]
  /\ armed' = IF claims'[a] # {} THEN armed \cup {a} ELSE armed

Next ==
  \E a \in Addr :
    \/ \E o \in Owner : Claim(a, o) \/ Release(a, o)
    \/ Lift(a)
    \/ Settle(a)

Spec == Init /\ [][Next]_ledger
=============================================================================
