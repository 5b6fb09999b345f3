--------------------------- MODULE MigratorProofs ---------------------------
(***************************************************************************)
(* Theorems about Migrator, for any number of callers, contents and        *)
(* resets.  Three results:                                                 *)
(*   - the migrator implements MigrationGate, hence the bound on overlaps; *)
(*   - MigrateByReplace never loses the index;                             *)
(*   - without resets, what a migration reports is in place.               *)
(* The first needs type correctness only.  The other two need SwapInv: the *)
(* callers that moved the index aside exclude each other, not by the state *)
(* (a reset lets two in) but because os.Rename refuses to overwrite the    *)
(* directory node_1.old that the first of them made.                       *)
(***************************************************************************)
EXTENDS Migrator, FiniteSetTheorems, TLAPS

LEMMA PhasesDistinct ==
    /\ "idle" \notin MigrationPhases
    /\ "answered" \notin MigrationPhases
    /\ "resetting" \notin MigrationPhases
    /\ MigrationPhases \subseteq Phases
    /\ {"idle", "answered", "resetting"} \subseteq Phases
  BY DEF MigrationPhases, ReplacePhases, RemovePhases, Phases

-----------------------------------------------------------------------------
(* Type correctness *)

LEMMA RenameType ==
    ASSUME dir \in [Places -> Contents], NEW p \in Places, NEW q \in Places,
           Rename(p, q) \/ RenameFails(p, q)
    PROVE  dir' \in [Places -> Contents]
  BY DEF Rename, RenameFails, Contents

LEMMA RemovalType ==
    ASSUME dir \in [Places -> Contents], NEW p \in Places,
           RemovalBegins(p) \/ RemovalEnds(p) \/ RemovalFails
    PROVE  dir' \in [Places -> Contents]
  BY DEF RemovalBegins, RemovalEnds, RemovalFails, Contents

LEMMA DirStepType ==
    ASSUME TypeOK, NEW c \in Callers, MigrateByReplace(c) \/ MigrateByRemoveFirst(c)
    PROVE  TypeOK'
<1> USE DEF OnlyDirs, Goes
<1>1. {"node_1", "node_1.old", "temp"} = Places
  BY DEF Places
<1>2. dir' \in [Places -> Contents]
  BY <1>1, RenameType, RemovalType
     DEF TypeOK, MigrateByReplace, MigrateByRemoveFirst, MoveAside,
         MoveAsideFails, Swap, SwapFails, Restore, DropOldBegins, DropOldEnds,
         DropOldFails, RemoveBegins, RemoveEnds, RemoveFails, Abandon, Install,
         InstallFails
<1>3. phase' \in [Callers -> Phases]
  BY DEF TypeOK, MigrateByReplace, MigrateByRemoveFirst, MoveAside,
         MoveAsideFails, Swap, SwapFails, Restore, DropOldBegins, DropOldEnds,
         DropOldFails, RemoveBegins, RemoveEnds, RemoveFails, Abandon, Install,
         InstallFails, Phases, MigrationPhases, ReplacePhases, RemovePhases
<1>4. OnlyDirs
  BY DEF MigrateByReplace, MigrateByRemoveFirst, MoveAside,
         MoveAsideFails, Swap, SwapFails, Restore, DropOldBegins, DropOldEnds,
         DropOldFails, RemoveBegins, RemoveEnds, RemoveFails, Abandon, Install,
         InstallFails
<1>5. QED
  BY <1>2, <1>3, <1>4 DEF TypeOK

LEMMA StepType ==
    ASSUME TypeOK, [Next]_vars
    PROVE  TypeOK'
<1> USE MigratorConstants DEF TypeOK, Goes
<1>1. CASE UNCHANGED vars
  BY <1>1 DEF vars
<1>2. ASSUME NEW c \in Callers, Status(c)
      PROVE  TypeOK'
  <2>1. phase' \in [Callers -> Phases]
    BY <1>2, PhasesDistinct
       DEF Status, StateAsks, StateStores, ResetLocks, ResetStores
  <2>2. ASSUME NEW t \in Times \cup {NoTime}, StateAsks(c, t)
        PROVE  TypeOK'
    BY <2>1, <2>2 DEF StateAsks
  <2>3. CASE StateStores(c)
    BY <2>1, <2>3 DEF StateStores, States
  <2>4. CASE ResetLocks(c) \/ ResetStores(c)
    BY <2>1, <2>4 DEF ResetLocks, ResetStores, States
  <2>5. QED
    BY <1>2, <2>2, <2>3, <2>4 DEF Status
<1>3. ASSUME NEW c \in Callers, Gatekeeping(c)
      PROVE  TypeOK'
  BY <1>1, <1>3
     DEF Gatekeeping, ClaimRefused, Claim, Finish, States, Phases,
         MigrationPhases, ReplacePhases, RemovePhases
<1>4. ASSUME NEW c \in Callers, MigrateByReplace(c) \/ MigrateByRemoveFirst(c)
      PROVE  TypeOK'
  BY <1>4, DirStepType
<1>5. CASE Environment
  BY <1>5, PhasesDistinct
     DEF Environment, TempBecomes, PhotonCreatesIndex, AgentRestarts, States,
         Contents, Places
<1>6. QED
  BY <1>1, <1>2, <1>3, <1>4, <1>5 DEF Next

(* Type correctness of the migrator.                                       *)
THEOREM TypeCorrect == Spec => []TypeOK
<1>1. Init => TypeOK
  BY DEF Init, TypeOK, States, Phases, Places, Contents
<1>2. TypeOK /\ [Next]_vars => TypeOK'
  BY StepType
<1>3. QED
  BY <1>1, <1>2, PTL DEF Spec

-----------------------------------------------------------------------------
(* The gate *)

LEMMA MigratingAfter ==
    ASSUME phase \in [Callers -> Phases], NEW c \in Callers, NEW to,
           phase' = [phase EXCEPT ![c] = to]
    PROVE  /\ to \in MigrationPhases => Migrating' = Migrating \cup {c}
           /\ to \notin MigrationPhases => Migrating' = Migrating \ {c}
  BY DEF Migrating

(* A step on the directories keeps a migration inside or ends it.          *)
LEMMA DirStepIsGateStep ==
    ASSUME TypeOK, NEW c \in Callers, MigrateByReplace(c) \/ MigrateByRemoveFirst(c)
    PROVE  Gate!GiveUp(c) \/ UNCHANGED Gate!gateVars
<1> DEFINE from == phase[c]
           to == phase'[c]
<1>1. /\ OnlyDirs
      /\ phase' = [phase EXCEPT ![c] = to]
      /\ from \in MigrationPhases
      /\ to = "idle" \/ to \in MigrationPhases
  BY DEF TypeOK, Goes, MigrateByReplace, MigrateByRemoveFirst, MoveAside,
         MoveAsideFails, Swap, SwapFails, Restore, DropOldBegins, DropOldEnds,
         DropOldFails, RemoveBegins, RemoveEnds, RemoveFails, Abandon, Install,
         InstallFails, MigrationPhases, ReplacePhases, RemovePhases
<1>2. c \in Migrating
  BY <1>1 DEF Migrating
<1>3. CASE to = "idle"
  <2>1. Migrating' = Migrating \ {c}
    BY <1>1, <1>3, MigratingAfter, PhasesDistinct DEF TypeOK
  <2>2. QED
    BY <1>1, <1>2, <2>1 DEF Gate!GiveUp, OnlyDirs
<1>4. CASE to \in MigrationPhases
  <2>1. Migrating' = Migrating
    BY <1>1, <1>2, <1>4, MigratingAfter DEF TypeOK
  <2>2. QED
    BY <1>1, <2>1 DEF Gate!gateVars, OnlyDirs
<1>5. QED
  BY <1>1, <1>3, <1>4

LEMMA StatusStepIsGateStep ==
    ASSUME TypeOK, NEW c \in Callers, Status(c)
    PROVE  Gate!Reset \/ UNCHANGED Gate!gateVars
<1>1. Migrating' = Migrating
  <2>1. /\ phase[c] \notin MigrationPhases
        /\ phase' = [phase EXCEPT ![c] = phase'[c]]
        /\ phase'[c] \notin MigrationPhases
    BY PhasesDistinct
       DEF TypeOK, Status, StateAsks, StateStores, ResetLocks, ResetStores, Goes
  <2>2. QED
    BY <2>1, MigratingAfter DEF TypeOK, Migrating
<1>2. CASE ResetStores(c)
  BY <1>1, <1>2 DEF ResetStores, Gate!Reset
<1>3. CASE ~ ResetStores(c)
  BY <1>1, <1>3 DEF Status, StateAsks, StateStores, ResetLocks, Gate!gateVars
<1>4. QED
  BY <1>2, <1>3

LEMMA GatekeepingIsGateStep ==
    ASSUME TypeOK, NEW c \in Callers, Gatekeeping(c)
    PROVE  Gate!Enter(c) \/ Gate!Succeed(c) \/ UNCHANGED Gate!gateVars
<1>1. CASE ClaimRefused(c)
  BY <1>1 DEF ClaimRefused, vars, Gate!gateVars, Migrating
<1>2. CASE Claim(c)
  <2>1. c \notin Migrating
    BY <1>2, PhasesDistinct DEF Claim, Goes, Migrating
  <2>2. phase'[c] \in MigrationPhases
    BY <1>2 DEF Claim, Goes, TypeOK, MigrationPhases, ReplacePhases, RemovePhases
  <2>3. Migrating' = Migrating \cup {c}
    BY <1>2, <2>2, MigratingAfter DEF Claim, Goes, TypeOK
  <2>4. QED
    BY <1>2, <2>1, <2>3 DEF Claim, Gate!Enter
<1>3. CASE Finish(c)
  <2>1. c \in Migrating
    BY <1>3 DEF Finish, Goes, Migrating, MigrationPhases, ReplacePhases, RemovePhases
  <2>2. Migrating' = Migrating \ {c}
    BY <1>3, MigratingAfter, PhasesDistinct DEF Finish, Goes, TypeOK
  <2>3. QED
    BY <1>3, <2>1, <2>2 DEF Finish, Gate!Succeed
<1>4. QED
  BY <1>1, <1>2, <1>3 DEF Gatekeeping

LEMMA StepIsGateStep ==
    ASSUME TypeOK, [Next]_vars
    PROVE  [Gate!Next]_(Gate!gateVars)
<1>1. CASE UNCHANGED vars
  BY <1>1 DEF vars, Gate!gateVars, Migrating
<1>2. ASSUME NEW c \in Callers,
             Status(c) \/ Gatekeeping(c) \/ MigrateByReplace(c)
               \/ MigrateByRemoveFirst(c)
      PROVE  [Gate!Next]_(Gate!gateVars)
  BY <1>2, DirStepIsGateStep, StatusStepIsGateStep, GatekeepingIsGateStep
     DEF Gate!Next
<1>3. CASE AgentRestarts
  <2>1. Migrating' = {}
    BY <1>3, PhasesDistinct DEF AgentRestarts, Migrating
  <2>2. QED
    BY <1>3, <2>1 DEF AgentRestarts, Gate!Next, Gate!Restart
<1>4. CASE PhotonCreatesIndex \/ \E x \in Archives \cup {Absent} : TempBecomes(x)
  BY <1>4 DEF PhotonCreatesIndex, TempBecomes, Gate!gateVars, Migrating
<1>5. QED
  BY <1>1, <1>2, <1>3, <1>4 DEF Next, Environment

(* The migrator is a gate that opens for a success, a reset or a restart   *)
(* only, and lets a migration in only while it is open.                    *)
THEOREM MigratorImplementsGate == Spec => ImplementsGate
<1>1. Init => Gate!Init
  BY PhasesDistinct DEF Init, Gate!Init, Migrating
<1>2. TypeOK /\ [Next]_vars => [Gate!Next]_(Gate!gateVars)
  BY StepIsGateStep
<1>3. QED
  BY <1>1, <1>2, TypeCorrect, PTL DEF Spec, ImplementsGate, Gate!Spec

(* A step of the gate keeps the bound on the migrations inside it: only    *)
(* Enter adds one, and it closes the gate.                                 *)
GateInv ==
    /\ resets \in Nat
    /\ IsFiniteSet(Migrating)
    /\ OverlapNeedsReset

LEMMA GateStep ==
    ASSUME GateInv, [Gate!Next]_(Gate!gateVars)
    PROVE  GateInv'
<1> USE DEF GateInv, OverlapNeedsReset
<1>1. Cardinality(Migrating) \in Nat
  BY FS_CardinalityType
<1>2. CASE UNCHANGED Gate!gateVars
  BY <1>2 DEF Gate!gateVars
<1>3. ASSUME NEW c \in Callers, Gate!Enter(c)
      PROVE  GateInv'
  <2>1. /\ IsFiniteSet(Migrating \cup {c})
        /\ Cardinality(Migrating \cup {c}) = Cardinality(Migrating) + 1
    BY <1>3, FS_AddElement DEF Gate!Enter
  <2>2. QED
    BY <1>1, <1>3, <2>1 DEF Gate!Enter
<1>4. ASSUME NEW c \in Callers, Gate!Succeed(c) \/ Gate!GiveUp(c)
      PROVE  GateInv'
  <2>1. /\ IsFiniteSet(Migrating \ {c})
        /\ Cardinality(Migrating \ {c}) = Cardinality(Migrating) - 1
    BY <1>4, FS_RemoveElement DEF Gate!Succeed, Gate!GiveUp
  <2>2. Migrating' = Migrating \ {c} /\ resets' = resets
    BY <1>4 DEF Gate!Succeed, Gate!GiveUp
  <2>3. state' = "migrating" => state = "migrating"
    BY <1>4 DEF Gate!Succeed, Gate!GiveUp
  <2>4. QED
    BY <1>1, <2>1, <2>2, <2>3
<1>5. CASE Gate!Reset
  BY <1>1, <1>5 DEF Gate!Reset
<1>6. CASE Gate!Restart
  BY <1>6, FS_EmptySet DEF Gate!Restart
<1>7. QED
  BY <1>2, <1>3, <1>4, <1>5, <1>6 DEF Gate!Next

(* The bound follows from the gate alone: whatever the directories and the *)
(* system calls do, never more migrations are inside than there were       *)
(* resets, plus one while the state is migrating.                          *)
THEOREM GateBoundsOverlap == ImplementsGate => []OverlapNeedsReset
<1>1. Gate!Init => GateInv
  BY FS_EmptySet DEF Gate!Init, GateInv, OverlapNeedsReset
<1>2. GateInv /\ [Gate!Next]_(Gate!gateVars) => GateInv'
  BY GateStep
<1>3. GateInv => OverlapNeedsReset
  BY DEF GateInv
<1>4. QED
  BY <1>1, <1>2, <1>3, PTL DEF ImplementsGate, Gate!Spec

(* So each reset lets at most one more migration overlap the others.       *)
THEOREM OverlapBound == Spec => []OverlapNeedsReset
  BY MigratorImplementsGate, GateBoundsOverlap, PTL

-----------------------------------------------------------------------------
(* The directories *)

(* The callers that made node_1.old and will put it back or remove it.     *)
Owners == {c \in Callers : phase[c] \in {"aside", "restoring", "swapped", "dropping"}}

(* Each strategy keeps to its own phases.                                  *)
StrategyInv ==
    \A c \in Callers :
        /\ phase[c] \in ReplacePhases => strategy = "parallel"
        /\ phase[c] \in RemovePhases => strategy = "sequential"

(* One caller at a time owns node_1.old, and from the swap until its       *)
(* removal node_1 holds what was extracted.                                *)
SwapInv ==
    /\ \A c, d \in Owners : c = d
    /\ Owners # {} => dir["node_1.old"] # Absent
    /\ \A c \in Owners :
          phase[c] \in {"swapped", "dropping"} => dir["node_1"] \in Archives

(* The updaters hand over whole directories.                               *)
TempInv == dir["temp"] \in Archives \cup {Absent}

(* Without a reset a migration is alone and the gate is closed behind it.  *)
AloneInv ==
    resets = 0 => \A c \in Migrating :
                     state = "migrating" /\ \A d \in Migrating : c = d

DirInv ==
    /\ TypeOK
    /\ StrategyInv
    /\ SwapInv
    /\ TempInv
    /\ AloneInv
    /\ ReportedIndexIsInPlace

LEMMA InitDir == Init => DirInv
  BY ContentAssumption
     DEF Init, DirInv, TypeOK, StrategyInv, SwapInv, TempInv, AloneInv,
         ReportedIndexIsInPlace, Owners, Migrating, States, Phases,
         MigrationPhases, ReplacePhases, RemovePhases, Places, Contents

LEMMA StrategyStep ==
    ASSUME DirInv, [Next]_vars
    PROVE  StrategyInv'
<1> USE DEF DirInv, TypeOK, StrategyInv, Goes
<1>1. CASE UNCHANGED vars
  BY <1>1 DEF vars
<1>2. ASSUME NEW c \in Callers, Status(c) \/ Gatekeeping(c)
      PROVE  StrategyInv'
  BY <1>1, <1>2, StrategyAssumption
     DEF Status, StateAsks, StateStores, ResetLocks, ResetStores, Gatekeeping,
         ClaimRefused, Claim, Finish, ReplacePhases, RemovePhases
<1>3. ASSUME NEW c \in Callers, MigrateByReplace(c)
      PROVE  StrategyInv'
  BY <1>3
     DEF OnlyDirs, MigrateByReplace, MoveAside, MoveAsideFails, Swap, SwapFails, Restore,
         DropOldBegins, DropOldEnds, DropOldFails, ReplacePhases, RemovePhases
<1>4. ASSUME NEW c \in Callers, MigrateByRemoveFirst(c)
      PROVE  StrategyInv'
  BY <1>4
     DEF OnlyDirs, MigrateByRemoveFirst, RemoveBegins, RemoveEnds, RemoveFails, Abandon,
         Install, InstallFails, ReplacePhases, RemovePhases
<1>5. CASE Environment
  BY <1>5
     DEF Environment, TempBecomes, PhotonCreatesIndex, AgentRestarts,
         ReplacePhases, RemovePhases
<1>6. QED
  BY <1>1, <1>2, <1>3, <1>4, <1>5 DEF Next

LEMMA TempStep ==
    ASSUME DirInv, [Next]_vars
    PROVE  TempInv'
<1> USE DEF DirInv, TypeOK, TempInv, Places
<1>1. CASE UNCHANGED vars
  BY <1>1 DEF vars
<1>2. ASSUME NEW c \in Callers, Status(c) \/ Gatekeeping(c)
      PROVE  TempInv'
  BY <1>1, <1>2
     DEF Status, StateAsks, StateStores, ResetLocks, ResetStores, Gatekeeping,
         ClaimRefused, Claim, Finish
<1>3. ASSUME NEW c \in Callers, MigrateByReplace(c)
      PROVE  TempInv'
  BY <1>3
     DEF MigrateByReplace, MoveAside, MoveAsideFails, Swap, SwapFails, Restore,
         DropOldBegins, DropOldEnds, DropOldFails, Rename, RenameFails,
         RemovalBegins, RemovalEnds, RemovalFails
<1>4. ASSUME NEW c \in Callers, MigrateByRemoveFirst(c)
      PROVE  TempInv'
  BY <1>4
     DEF MigrateByRemoveFirst, RemoveBegins, RemoveEnds, RemoveFails, Abandon,
         Install, InstallFails, Rename, RenameFails, RemovalBegins,
         RemovalEnds, RemovalFails
<1>5. CASE Environment
  BY <1>5 DEF Environment, TempBecomes, PhotonCreatesIndex, AgentRestarts
<1>6. QED
  BY <1>1, <1>2, <1>3, <1>4, <1>5 DEF Next

LEMMA OwnersAfter ==
    ASSUME TypeOK, NEW c \in Callers, NEW to,
           phase' = [phase EXCEPT ![c] = to]
    PROVE  /\ to \in {"aside", "restoring", "swapped", "dropping"}
                => Owners' = Owners \cup {c}
           /\ to \notin {"aside", "restoring", "swapped", "dropping"}
                => Owners' = Owners \ {c}
  BY DEF Owners, TypeOK

(* MigrateByReplace is where ownership of node_1.old changes hands.        *)
LEMMA ReplaceSwapInv ==
    ASSUME DirInv, NEW c \in Callers, MigrateByReplace(c)
    PROVE  SwapInv'
<1> USE ContentAssumption DEF DirInv, TypeOK, SwapInv, Goes, OnlyDirs, Places
<1>1. CASE MoveAside(c)
  <2>1. Owners = {}
    BY <1>1 DEF MoveAside, Rename, CanRename
  <2>2. Owners' = {c} /\ phase'[c] = "aside"
    BY <1>1, <2>1, OwnersAfter DEF MoveAside
  <2>3. dir'["node_1.old"] # Absent
    BY <1>1 DEF MoveAside, Rename, CanRename
  <2>4. QED
    BY <2>2, <2>3
<1>2. CASE MoveAsideFails(c)
  <2>1. Owners' = Owners /\ \A d \in Owners : phase'[d] = phase[d]
    BY <1>2, OwnersAfter DEF MoveAsideFails, Owners
  <2>2. QED
    BY <1>2, <2>1 DEF MoveAsideFails, RenameFails
<1>3. CASE Swap(c)
  <2>1. Owners = {c} /\ Owners' = {c}
    BY <1>3, OwnersAfter DEF Swap, Owners
  <2>2. /\ dir'["node_1"] \in Archives
        /\ dir'["node_1.old"] = dir["node_1.old"]
    BY <1>3 DEF Swap, Rename, CanRename, TempInv
  <2>3. QED
    BY <2>1, <2>2
<1>4. CASE SwapFails(c)
  <2>1. Owners = {c} /\ Owners' = {c} /\ phase'[c] = "restoring"
    BY <1>4, OwnersAfter DEF SwapFails, Owners
  <2>2. QED
    BY <1>4, <2>1 DEF SwapFails, RenameFails
<1>5. CASE DropOldBegins(c)
  <2>1. Owners = {c} /\ Owners' = {c} /\ phase[c] = "swapped"
    BY <1>5, OwnersAfter DEF DropOldBegins, Owners
  <2>2. /\ dir'["node_1"] = dir["node_1"]
        /\ dir'["node_1.old"] # Absent
    BY <1>5, <2>1 DEF DropOldBegins, RemovalBegins
  <2>3. QED
    BY <2>1, <2>2
<1>6. CASE Restore(c) \/ DropOldEnds(c) \/ DropOldFails(c)
  <2>1. Owners' = Owners \ {c}
    BY <1>6, OwnersAfter DEF Restore, DropOldEnds, DropOldFails
  <2>2. c \in Owners
    BY <1>6 DEF Restore, DropOldEnds, DropOldFails, Owners
  <2>3. Owners' = {}
    BY <2>1, <2>2
  <2>4. QED
    BY <2>3
<1>7. QED
  BY <1>1, <1>2, <1>3, <1>4, <1>5, <1>6 DEF MigrateByReplace

LEMMA RemoveMeansNoOwner ==
    ASSUME DirInv, NEW c \in Callers, MigrateByRemoveFirst(c)
    PROVE  strategy = "sequential" /\ Owners = {} /\ Owners' = {}
<1>1. phase[c] \in RemovePhases
  BY DEF MigrateByRemoveFirst, RemoveBegins, RemoveEnds, RemoveFails, Abandon,
         Install, InstallFails, Goes, RemovePhases
<1>2. strategy = "sequential"
  BY <1>1 DEF DirInv, StrategyInv
<1>3. Owners = {}
  BY <1>2 DEF DirInv, StrategyInv, Owners, ReplacePhases
<1>4. Owners' = {}
  BY <1>3, OwnersAfter
     DEF DirInv, MigrateByRemoveFirst, RemoveBegins, RemoveEnds, RemoveFails,
         Abandon, Install, InstallFails, Goes
<1>5. QED
  BY <1>2, <1>3, <1>4

LEMMA SwapStep ==
    ASSUME DirInv, [Next]_vars
    PROVE  SwapInv'
<1> USE ContentAssumption DEF DirInv, SwapInv
<1>1. CASE UNCHANGED vars
  BY <1>1 DEF vars, Owners
<1>2. ASSUME NEW c \in Callers, Status(c) \/ Gatekeeping(c)
      PROVE  SwapInv'
  <2>1. CASE ClaimRefused(c)
    BY <1>1, <2>1 DEF ClaimRefused
  <2>2. CASE ~ ClaimRefused(c)
    <3>1. Owners' = Owners /\ \A d \in Owners : phase'[d] = phase[d]
      BY <1>2, <2>2
         DEF Status, StateAsks, StateStores, ResetLocks, ResetStores,
             Gatekeeping, Claim, Finish, Goes, TypeOK, Owners
    <3>2. UNCHANGED dir
      BY <1>2, <2>2
         DEF Status, StateAsks, StateStores, ResetLocks, ResetStores,
             Gatekeeping, Claim, Finish
    <3>3. QED
      BY <3>1, <3>2
  <2>3. QED
    BY <2>1, <2>2
<1>3. ASSUME NEW c \in Callers, MigrateByReplace(c)
      PROVE  SwapInv'
  BY <1>3, ReplaceSwapInv
<1>4. ASSUME NEW c \in Callers, MigrateByRemoveFirst(c)
      PROVE  SwapInv'
  BY <1>4, RemoveMeansNoOwner
<1>5. CASE Environment
  BY <1>5
     DEF Environment, TempBecomes, PhotonCreatesIndex, AgentRestarts, Owners,
         TypeOK, Places
<1>6. QED
  BY <1>1, <1>2, <1>3, <1>4, <1>5 DEF Next

LEMMA AloneStep ==
    ASSUME DirInv, [Next]_vars
    PROVE  AloneInv'
<1> USE DEF DirInv, AloneInv
<1>1. CASE UNCHANGED Gate!gateVars
  BY <1>1 DEF Gate!gateVars
<1>2. CASE Gate!Reset
  BY <1>2 DEF Gate!Reset, TypeOK
<1>3. ASSUME NEW c \in Callers, Gate!Enter(c)
      PROVE  AloneInv'
  <2>1. resets = 0 => Migrating = {}
    BY <1>3 DEF Gate!Enter
  <2>2. QED
    BY <1>3, <2>1 DEF Gate!Enter
<1>4. ASSUME NEW c \in Callers, Gate!Succeed(c) \/ Gate!GiveUp(c)
      PROVE  AloneInv'
  BY <1>4 DEF Gate!Succeed, Gate!GiveUp
<1>5. CASE Gate!Restart
  BY <1>5 DEF Gate!Restart
<1>6. QED
  BY <1>1, <1>2, <1>3, <1>4, <1>5, StepIsGateStep DEF Gate!Next

(* With no reset, a step on the directories is the only migration's.       *)
LEMMA AloneInside ==
    ASSUME DirInv, resets = 0, NEW c \in Callers,
           MigrateByReplace(c) \/ MigrateByRemoveFirst(c)
    PROVE  \A d \in Callers \ {c} : phase[d] \notin {"dropped", "installed"}
<1>1. c \in Migrating
  BY DEF MigrateByReplace, MigrateByRemoveFirst, MoveAside, MoveAsideFails,
         Swap, SwapFails, Restore, DropOldBegins, DropOldEnds, DropOldFails,
         RemoveBegins, RemoveEnds, RemoveFails, Abandon, Install, InstallFails,
         Goes, Migrating, MigrationPhases, ReplacePhases, RemovePhases
<1>2. \A d \in Callers : phase[d] \in {"dropped", "installed"} => d \in Migrating
  BY DEF Migrating, MigrationPhases, ReplacePhases, RemovePhases
<1>3. QED
  BY <1>1, <1>2 DEF DirInv, AloneInv

LEMMA ReportedStep ==
    ASSUME DirInv, [Next]_vars
    PROVE  ReportedIndexIsInPlace'
<1> USE ContentAssumption DEF DirInv, ReportedIndexIsInPlace
<1>1. CASE UNCHANGED vars
  BY <1>1 DEF vars
<1>2. ASSUME NEW c \in Callers, Status(c) \/ Gatekeeping(c)
      PROVE  ReportedIndexIsInPlace'
  BY <1>1, <1>2
     DEF Status, StateAsks, StateStores, ResetLocks, ResetStores, Gatekeeping,
         ClaimRefused, Claim, Finish, Goes, TypeOK
<1>3. ASSUME NEW c \in Callers, MigrateByReplace(c), resets' = 0
      PROVE  ReportedIndexIsInPlace'
  <2>1. resets = 0
    BY <1>3 DEF MigrateByReplace, MoveAside, MoveAsideFails, Swap, SwapFails,
         Restore, DropOldBegins, DropOldEnds, DropOldFails, OnlyDirs
  <2>2. \A d \in Callers \ {c} : phase'[d] \notin {"dropped", "installed"}
    BY <1>3, <2>1, AloneInside
       DEF MigrateByReplace, MoveAside, MoveAsideFails, Swap, SwapFails,
         Restore, DropOldBegins, DropOldEnds, DropOldFails, Goes, TypeOK
  <2>3. phase'[c] \in {"dropped", "installed"} => dir'["node_1"] \in Archives
    <3>1. SUFFICES ASSUME DropOldEnds(c) \/ DropOldFails(c)
                   PROVE  dir'["node_1"] \in Archives
      BY <1>3 DEF MigrateByReplace, MoveAside, MoveAsideFails, Swap, SwapFails,
         Restore, DropOldBegins, Goes, TypeOK
    <3>2. c \in Owners /\ phase[c] \in {"swapped", "dropping"}
      BY <3>1 DEF DropOldEnds, DropOldFails, Goes, Owners
    <3>3. dir'["node_1"] = dir["node_1"]
      BY <3>1 DEF DropOldEnds, DropOldFails, RemovalEnds, RemovalFails, TypeOK, Places
    <3>4. QED
      BY <3>2, <3>3 DEF SwapInv
  <2>4. QED
    BY <2>2, <2>3
<1>4. ASSUME NEW c \in Callers, MigrateByRemoveFirst(c), resets' = 0
      PROVE  ReportedIndexIsInPlace'
  <2>1. resets = 0
    BY <1>4 DEF MigrateByRemoveFirst, RemoveBegins, RemoveEnds, RemoveFails,
         Abandon, Install, InstallFails, OnlyDirs
  <2>2. \A d \in Callers \ {c} : phase'[d] \notin {"dropped", "installed"}
    BY <1>4, <2>1, AloneInside
       DEF MigrateByRemoveFirst, RemoveBegins, RemoveEnds, RemoveFails,
         Abandon, Install, InstallFails, Goes, TypeOK
  <2>3. phase'[c] \in {"dropped", "installed"} => dir'["node_1"] \in Archives
    <3>1. SUFFICES ASSUME Install(c)
                   PROVE  dir'["node_1"] \in Archives
      BY <1>4 DEF MigrateByRemoveFirst, RemoveBegins, RemoveEnds, RemoveFails,
         Abandon, InstallFails, Goes, TypeOK
    <3>2. QED
      BY <3>1 DEF Install, Rename, CanRename, TempInv, TypeOK, Places
  <2>4. QED
    BY <2>2, <2>3
<1>5. CASE Environment
  BY <1>5
     DEF Environment, TempBecomes, PhotonCreatesIndex, AgentRestarts, TypeOK, Places
<1>6. CASE resets' # 0
  BY <1>6
<1>7. QED
  BY <1>1, <1>2, <1>3, <1>4, <1>5, <1>6 DEF Next

LEMMA IndexStep ==
    ASSUME DirInv, [Next]_vars, strategy = "parallel", HasIndex
    PROVE  HasIndex'
<1> USE ContentAssumption DEF HasIndex, DirInv, TypeOK, Places
<1>1. CASE UNCHANGED dir
  BY <1>1
<1>2. ASSUME NEW c \in Callers, Status(c) \/ Gatekeeping(c)
      PROVE  HasIndex'
  BY <1>1, <1>2
     DEF Status, StateAsks, StateStores, ResetLocks, ResetStores, Gatekeeping,
         ClaimRefused, Claim, Finish, vars
<1>3. ASSUME NEW c \in Callers, MigrateByReplace(c)
      PROVE  HasIndex'
  <2>1. CASE Rename("node_1", "node_1.old")
    BY <2>1 DEF Rename, CanRename
  <2>2. CASE Rename("temp", "node_1") \/ Rename("node_1.old", "node_1")
    BY <2>2 DEF Rename, CanRename
  <2>3. CASE DropOldBegins(c) \/ DropOldEnds(c)
    <3>1. dir["node_1"] \in Archives
      BY <2>3 DEF DropOldBegins, DropOldEnds, Goes, SwapInv, Owners
    <3>2. dir'["node_1"] = dir["node_1"]
      BY <2>3 DEF DropOldBegins, DropOldEnds, RemovalBegins, RemovalEnds
    <3>3. QED
      BY <3>1, <3>2
  <2>4. QED
    BY <1>1, <1>3, <2>1, <2>2, <2>3
       DEF MigrateByReplace, MoveAside, MoveAsideFails, Swap, SwapFails,
           Restore, DropOldFails, RenameFails, RemovalFails
<1>4. ASSUME NEW c \in Callers, MigrateByRemoveFirst(c)
      PROVE  HasIndex'
  BY <1>4, RemoveMeansNoOwner
<1>5. CASE Environment
  BY <1>1, <1>5 DEF Environment, TempBecomes, PhotonCreatesIndex, AgentRestarts
<1>6. QED
  BY <1>1, <1>2, <1>3, <1>4, <1>5 DEF Next, vars

(* The invariant of the directories, in every reachable state.             *)
THEOREM DirInvariant == Spec => []DirInv
<1>1. DirInv /\ [Next]_vars => DirInv'
  BY StepType, StrategyStep, SwapStep, TempStep, AloneStep, ReportedStep DEF DirInv
<1>2. QED
  BY <1>1, InitDir, PTL DEF Spec

(* Without a reset, a migration about to report success has the index in   *)
(* place: the gate keeps every other migration away from node_1.           *)
THEOREM ReportsAreTrue == Spec => []ReportedIndexIsInPlace
<1>1. DirInv => ReportedIndexIsInPlace
  BY DEF DirInv
<1>2. QED
  BY <1>1, DirInvariant, PTL

(* MigrateByReplace never loses the index, across failures, crashes and    *)
(* overlapping migrations.                                                 *)
THEOREM IndexIsNeverLost == Spec => IndexSurvives
<1>1. DirInv /\ [Next]_vars
        => [strategy = "parallel" /\ HasIndex => HasIndex']_vars
  BY IndexStep
<1>2. QED
  BY <1>1, DirInvariant, PTL DEF Spec, IndexSurvives
=============================================================================
