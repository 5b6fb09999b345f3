------------------------------ MODULE Migrator ------------------------------
(***************************************************************************)
(* photondata.Migrator, internal/photondata/migrator.go: the migration     *)
(* state behind its mutex, and the renames and removals by which the index *)
(* directory node_1 gets a new content.                                    *)
(*                                                                         *)
(* A caller is a goroutine of the agent inside a method of the migrator.   *)
(* Each system call and each critical section is one step, so that calls   *)
(* interleave wherever the code lets them.  The migrator itself never      *)
(* looks into a directory: a content is an abstract value.                 *)
(***************************************************************************)
EXTENDS Naturals, FiniteSets

CONSTANTS
    Callers,     \* goroutines that call the migrator
    Strategies,  \* those an operator may give the agent
    Archives,    \* contents of a whole extracted index
    Blank,       \* the empty index photon makes when it finds none
    Broken,      \* what is left of a directory partly removed
    Absent,      \* no such directory
    Times,       \* import dates photon can report
    NoTime,      \* the zero time.Time
    Nil,         \* the state mutex is free
    FsMayFail,   \* whether a system call can fail on its own
    MaxResets    \* bound on calls of ResetState

ASSUME StrategyAssumption == Strategies \subseteq {"parallel", "sequential"}
ASSUME ContentAssumption ==
    /\ Archives \cap {Blank, Broken, Absent} = {}
    /\ Blank # Broken /\ Blank # Absent /\ Broken # Absent
ASSUME MigratorConstants ==
    /\ Nil \notin Callers
    /\ FsMayFail \in BOOLEAN
    /\ MaxResets \in Nat

VARIABLES
    strategy,       \* "parallel" calls MigrateByReplace, "sequential" the other
    state,          \* Migrator.state
    stateMutex,     \* Migrator.mutex, when it is held across a step
    cachedModTime,  \* Migrator.cachedModTime
    phase,          \* where each caller is inside the migrator
    answer,         \* what getVersion told each caller: a time or NoTime
    dir,            \* the directories the migrator renames
    resets          \* history: calls of ResetState that took effect

vars == <<strategy, state, stateMutex, cachedModTime, phase, answer, dir, resets>>

States == {"unknown", "migrated", "migrating"}
Contents == Archives \cup {Blank, Broken, Absent}

(* "temp" stands for <unarchived>/photon_data/node_1.                      *)
Places == {"node_1", "node_1.old", "temp"}

ReplacePhases == {"replacing", "aside", "restoring", "swapped", "dropping", "dropped"}
RemovePhases == {"removing", "emptying", "removed", "installed"}
MigrationPhases == ReplacePhases \cup RemovePhases
Phases == {"idle", "answered", "resetting"} \cup MigrationPhases

TypeOK ==
    /\ strategy \in Strategies
    /\ state \in States
    /\ stateMutex \in Callers \cup {Nil}
    /\ cachedModTime \in Times \cup {NoTime}
    /\ phase \in [Callers -> Phases]
    /\ answer \in [Callers -> Times \cup {NoTime}]
    /\ dir \in [Places -> Contents]
    /\ resets \in Nat

(* Mutant: the state is left at the zero value of its type.                *)
InitWithoutState ==
    /\ strategy \in Strategies
    /\ state = ""
    /\ stateMutex = Nil
    /\ cachedModTime = NoTime
    /\ phase = [c \in Callers |-> "idle"]
    /\ answer = [c \in Callers |-> NoTime]
    /\ dir = [p \in Places |-> Absent]
    /\ resets = 0

Init ==
    /\ strategy \in Strategies
    /\ state = "unknown"
    /\ stateMutex = Nil
    /\ cachedModTime = NoTime
    /\ phase = [c \in Callers |-> "idle"]
    /\ answer = [c \in Callers |-> NoTime]
    /\ \E c \in Contents :
          dir = [p \in Places |-> IF p = "node_1" THEN c ELSE Absent]
    /\ resets = 0

(* Callers between the claim of the state and the end of their migration.  *)
Migrating == {c \in Callers : phase[c] \in MigrationPhases}

Goes(c, from, to) ==
    /\ phase[c] \in from
    /\ phase' = [phase EXCEPT ![c] = to]

-----------------------------------------------------------------------------
(* The file system *)

(* rename(2) of a directory as os.Rename does it: onto nothing only.       *)
CanRename(from, to) == dir[from] # Absent /\ dir[to] = Absent

Rename(from, to) ==
    /\ CanRename(from, to)
    /\ dir' = [dir EXCEPT ![from] = Absent, ![to] = dir[from]]

RenameFails(from, to) ==
    /\ ~ CanRename(from, to) \/ FsMayFail
    /\ UNCHANGED dir

(* os.RemoveAll unlinks file by file and can stop half way.                *)
RemovalBegins(p) ==
    dir' = [dir EXCEPT ![p] = IF dir[p] = Absent THEN Absent ELSE Broken]

RemovalEnds(p) == dir' = [dir EXCEPT ![p] = Absent]

RemovalFails == FsMayFail /\ UNCHANGED dir

-----------------------------------------------------------------------------
(* State: asks photon first, then locks and stores what it was told.       *)

StateAsks(c, t) ==
    /\ Goes(c, {"idle"}, "answered")
    /\ answer' = [answer EXCEPT ![c] = t]
    /\ UNCHANGED <<strategy, state, stateMutex, cachedModTime, dir, resets>>

(* Mutant: an answer from photon always means migrated.                    *)
StateStoresMigrated(c) ==
    /\ stateMutex = Nil
    /\ Goes(c, {"answered"}, "idle")
    /\ IF answer[c] = NoTime
         THEN UNCHANGED <<state, cachedModTime>>
         ELSE state' = "migrated" /\ cachedModTime' = answer[c]
    /\ answer' = [answer EXCEPT ![c] = NoTime]
    /\ UNCHANGED <<strategy, stateMutex, dir, resets>>

StateStores(c) ==
    /\ stateMutex = Nil
    /\ Goes(c, {"answered"}, "idle")
    /\ IF answer[c] = NoTime
         THEN UNCHANGED <<state, cachedModTime>>
         ELSE /\ state' = IF state = "unknown" THEN "migrated" ELSE state
              /\ cachedModTime' = answer[c]
    /\ answer' = [answer EXCEPT ![c] = NoTime]
    /\ UNCHANGED <<strategy, stateMutex, dir, resets>>

-----------------------------------------------------------------------------
(* ResetState: locks first and asks photon with the mutex held.            *)

ResetLocks(c) ==
    /\ stateMutex = Nil
    /\ resets < MaxResets
    /\ Goes(c, {"idle"}, "resetting")
    /\ stateMutex' = c
    /\ UNCHANGED <<strategy, state, cachedModTime, answer, dir, resets>>

ResetStores(c) ==
    /\ stateMutex = c
    /\ Goes(c, {"resetting"}, "idle")
    /\ state' \in {"migrated", "unknown"}
    /\ stateMutex' = Nil
    /\ resets' = resets + 1
    /\ UNCHANGED <<strategy, cachedModTime, answer, dir>>

-----------------------------------------------------------------------------
(* The claim both migrations begin with *)

ClaimRefused(c) ==
    /\ stateMutex = Nil
    /\ phase[c] = "idle"
    /\ state = "migrating"
    /\ UNCHANGED vars

(* Mutant: the state is set without being looked at.                       *)
ClaimUnchecked(c) ==
    /\ stateMutex = Nil
    /\ Goes(c, {"idle"}, IF strategy = "parallel" THEN "replacing" ELSE "removing")
    /\ state' = "migrating"
    /\ UNCHANGED <<strategy, stateMutex, cachedModTime, answer, dir, resets>>

Claim(c) ==
    /\ stateMutex = Nil
    /\ state # "migrating"
    /\ Goes(c, {"idle"}, IF strategy = "parallel" THEN "replacing" ELSE "removing")
    /\ state' = "migrating"
    /\ UNCHANGED <<strategy, stateMutex, cachedModTime, answer, dir, resets>>

(* The steps between the claim and the end touch directories only.         *)
OnlyDirs == UNCHANGED <<strategy, state, stateMutex, cachedModTime, answer, resets>>

(* The end of both: the state is set, whatever it has become meanwhile.    *)
Finish(c) ==
    /\ stateMutex = Nil
    /\ Goes(c, {"dropped", "installed"}, "idle")
    /\ state' = "migrated"
    /\ UNCHANGED <<strategy, stateMutex, cachedModTime, answer, dir, resets>>

-----------------------------------------------------------------------------
(* MigrateByReplace *)

(* Mutant: a node_1.old from before is overwritten.                        *)
MoveAsideOverwrites(c) ==
    /\ Goes(c, {"replacing"}, "aside")
    /\ dir["node_1"] # Absent
    /\ dir' = [dir EXCEPT !["node_1"] = Absent, !["node_1.old"] = dir["node_1"]]
    /\ OnlyDirs

MoveAside(c) ==
    /\ Goes(c, {"replacing"}, "aside")
    /\ Rename("node_1", "node_1.old")
    /\ OnlyDirs

(* The error return leaves the state at migrating.                         *)
MoveAsideFails(c) ==
    /\ Goes(c, {"replacing"}, "idle")
    /\ RenameFails("node_1", "node_1.old")
    /\ OnlyDirs

Swap(c) ==
    /\ Goes(c, {"aside"}, "swapped")
    /\ Rename("temp", "node_1")
    /\ OnlyDirs

(* Mutant: the error of the second rename is ignored.                      *)
SwapFailureIgnored(c) ==
    /\ Goes(c, {"aside"}, "swapped")
    /\ RenameFails("temp", "node_1")
    /\ OnlyDirs

SwapFails(c) ==
    /\ Goes(c, {"aside"}, "restoring")
    /\ RenameFails("temp", "node_1")
    /\ OnlyDirs

(* The old index is put back, or a warning says that it was not; the call  *)
(* returns the error either way.                                           *)
Restore(c) ==
    /\ Goes(c, {"restoring"}, "idle")
    /\ Rename("node_1.old", "node_1") \/ RenameFails("node_1.old", "node_1")
    /\ OnlyDirs

DropOldBegins(c) ==
    /\ Goes(c, {"swapped"}, "dropping")
    /\ RemovalBegins("node_1.old")
    /\ OnlyDirs

DropOldEnds(c) ==
    /\ Goes(c, {"dropping"}, "dropped")
    /\ RemovalEnds("node_1.old")
    /\ OnlyDirs

(* A failed removal is only a warning: the migration goes on.              *)
DropOldFails(c) ==
    /\ Goes(c, {"swapped", "dropping"}, "dropped")
    /\ RemovalFails
    /\ OnlyDirs

-----------------------------------------------------------------------------
(* MigrateByRemoveFirst and the closure it returns *)

RemoveBegins(c) ==
    /\ Goes(c, {"removing"}, "emptying")
    /\ RemovalBegins("node_1")
    /\ OnlyDirs

RemoveEnds(c) ==
    /\ Goes(c, {"emptying"}, "removed")
    /\ RemovalEnds("node_1")
    /\ OnlyDirs

RemoveFails(c) ==
    /\ Goes(c, {"removing", "emptying"}, "idle")
    /\ RemovalFails
    /\ OnlyDirs

(* The updater's own failure: it never calls the closure.                  *)
Abandon(c) ==
    /\ Goes(c, {"removed"}, "idle")
    /\ UNCHANGED dir
    /\ OnlyDirs

Install(c) ==
    /\ Goes(c, {"removed"}, "installed")
    /\ Rename("temp", "node_1")
    /\ OnlyDirs

(* Mutant: the error of the rename is ignored.                             *)
InstallFailureIgnored(c) ==
    /\ Goes(c, {"removed"}, "installed")
    /\ RenameFails("temp", "node_1")
    /\ OnlyDirs

InstallFails(c) ==
    /\ Goes(c, {"removed"}, "idle")
    /\ RenameFails("temp", "node_1")
    /\ OnlyDirs

-----------------------------------------------------------------------------
(* Around the migrator *)

(* The updaters extract into the temp directory and clean it up.           *)
TempBecomes(x) ==
    /\ dir' = [dir EXCEPT !["temp"] = x]
    /\ UNCHANGED <<strategy, state, stateMutex, cachedModTime, phase, answer, resets>>

(* A photon that starts without an index creates an empty one.             *)
PhotonCreatesIndex ==
    /\ dir["node_1"] = Absent
    /\ dir' = [dir EXCEPT !["node_1"] = Blank]
    /\ UNCHANGED <<strategy, state, stateMutex, cachedModTime, phase, answer, resets>>

(* The agent dies and is started anew, with the same strategy or the other: *)
(* all but the directories is lost.                                        *)
AgentRestarts ==
    /\ strategy' \in Strategies
    /\ state' = "unknown"
    /\ stateMutex' = Nil
    /\ cachedModTime' = NoTime
    /\ phase' = [c \in Callers |-> "idle"]
    /\ answer' = [c \in Callers |-> NoTime]
    /\ UNCHANGED <<dir, resets>>

-----------------------------------------------------------------------------
Status(c) ==
    \/ \E t \in Times \cup {NoTime} : StateAsks(c, t)
    \/ StateStores(c)
    \/ ResetLocks(c)
    \/ ResetStores(c)

Gatekeeping(c) == ClaimRefused(c) \/ Claim(c) \/ Finish(c)

MigrateByReplace(c) ==
    \/ MoveAside(c) \/ MoveAsideFails(c)
    \/ Swap(c) \/ SwapFails(c) \/ Restore(c)
    \/ DropOldBegins(c) \/ DropOldEnds(c) \/ DropOldFails(c)

MigrateByRemoveFirst(c) ==
    \/ RemoveBegins(c) \/ RemoveEnds(c) \/ RemoveFails(c)
    \/ Abandon(c) \/ Install(c) \/ InstallFails(c)

Environment ==
    \/ \E x \in Archives \cup {Absent} : TempBecomes(x)
    \/ PhotonCreatesIndex
    \/ AgentRestarts

Next ==
    \/ \E c \in Callers :
          Status(c) \/ Gatekeeping(c) \/ MigrateByReplace(c) \/ MigrateByRemoveFirst(c)
    \/ Environment

Spec == Init /\ [][Next]_vars

-----------------------------------------------------------------------------
(* Two migrations overlap only if a reset let the second one in: the check *)
(* of the state under its mutex keeps them apart, and one that ends opens  *)
(* the gate for one more at most.                                          *)
OverlapNeedsReset ==
    Cardinality(Migrating) <= resets + (IF state = "migrating" THEN 1 ELSE 0)

Gate == INSTANCE MigrationGate
            WITH gate <- (IF state = "migrating" THEN "closed" ELSE "open"),
                 holders <- Migrating

(* The migrator is a gate: a status query never opens or closes it, and    *)
(* only a migration that succeeded, a reset or a restart opens it.         *)
ImplementsGate == Gate!Spec

(* MigrateByReplace never loses the index: once node_1 or node_1.old is a  *)
(* whole one, one of them is at every later moment, whatever fails, when   *)
(* the agent dies, and even if resets let migrations overlap.              *)
HasIndex == dir["node_1"] \in Archives \/ dir["node_1.old"] \in Archives

IndexSurvives ==
    [][strategy = "parallel" /\ HasIndex => HasIndex']_vars

(* A migration about to report success has a whole index in place, unless  *)
(* a reset let another one work on the same directory.                     *)
ReportedIndexIsInPlace ==
    \A c \in Callers :
        phase[c] \in {"dropped", "installed"} /\ resets = 0
            => dir["node_1"] \in Archives
=============================================================================
