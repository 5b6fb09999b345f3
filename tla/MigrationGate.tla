--------------------------- MODULE MigrationGate ---------------------------
(***************************************************************************)
(* What the migration state of photondata.Migrator promises, without the   *)
(* directories: a gate that closes behind a migration and is opened again  *)
(* by the migration's success, by an operator's reset or by a restart of   *)
(* the agent.  A migration that fails leaves the gate closed.              *)
(***************************************************************************)
EXTENDS Naturals

CONSTANT Callers

VARIABLES
    gate,      \* closed while MigrationStateMigrating is set
    holders,   \* migrations that went through the gate and are not over
    resets     \* how often an operator reset the state

gateVars == <<gate, holders, resets>>

Init == gate = "open" /\ holders = {} /\ resets = 0

Enter(c) ==
    /\ gate = "open"
    /\ c \notin holders
    /\ gate' = "closed"
    /\ holders' = holders \cup {c}
    /\ UNCHANGED resets

Succeed(c) ==
    /\ c \in holders
    /\ gate' = "open"
    /\ holders' = holders \ {c}
    /\ UNCHANGED resets

GiveUp(c) ==
    /\ c \in holders
    /\ holders' = holders \ {c}
    /\ UNCHANGED <<gate, resets>>

Reset ==
    /\ gate' = "open"
    /\ resets' = resets + 1
    /\ UNCHANGED holders

Restart ==
    /\ gate' = "open"
    /\ holders' = {}
    /\ UNCHANGED resets

Next ==
    \/ \E c \in Callers : Enter(c) \/ Succeed(c) \/ GiveUp(c)
    \/ Reset
    \/ Restart

Spec == Init /\ [][Next]_gateVars
=============================================================================
