-------------------------- MODULE UpdateStepsProofs --------------------------
(***************************************************************************)
(* What holds of the updates of either strategy, for any number of         *)
(* requests, processes, resets and restarts: they use the photon manager   *)
(* and the migrator the way these work; and as long as no two run at once, *)
(* the index changes only while photon is stopped, a running photon serves *)
(* the index on the disk, and an update reports only an index that is all  *)
(* of the archive it asked for.                                            *)
(*                                                                         *)
(* The two strategies differ in the order of their steps, so the           *)
(* invariants name the places of one strategy where the other has none.    *)
(* SequentialUpdaterProofs and ParallelUpdaterProofs show that every step  *)
(* of theirs is an UpdateNext, and take the theorems from here.            *)
(***************************************************************************)
EXTENDS UpdateSteps, TLAPS

ServerTheorems == INSTANCE PhotonServerProofs WITH Callers <- Requests, ForkMayFail <- FALSE

MigratorTheorems ==
    INSTANCE MigratorProofs
        WITH Callers <- Requests, Archives <- Extracted, Strategies <- {Strategy}

(* The steps a strategy has of its own: the claim, whose refusal a         *)
(* sequential request leaves at once and a parallel one after its cleanup, *)
(* and the removal and the installation of one strategy or the replacement *)
(* of the other.                                                           *)
Sequentially == Strategy = "sequential"

Claims(r) ==
    /\ \/ M!Claim(r) /\ Moves(r, "claim", "migrate")
       \/ M!ClaimRefused(r) /\ Moves(r, "claim", IF Sequentially THEN "over" ELSE "clean")
    /\ OnlyMigrator

Removes(r) ==
    /\ Sequentially
    /\ \/ M!RemoveBegins(r) /\ Moves(r, "migrate", "migrate")
       \/ M!RemoveEnds(r)
          /\ Moves(r, "migrate", IF kind[r] = "download" THEN "fetch" ELSE "extract")
       \/ M!RemoveFails(r) /\ Moves(r, "migrate", "over")
    /\ OnlyMigrator

Installs(r) ==
    /\ Sequentially
    /\ \/ M!Install(r) /\ Moves(r, "install", "install")
       \/ M!InstallFails(r) /\ Moves(r, "install", "clean")
       \/ M!Finish(r) /\ Moves(r, "install", "start")
    /\ OnlyMigrator

Replaces(r) ==
    /\ ~ Sequentially
    /\ \/ /\ \/ M!MoveAside(r) \/ M!Swap(r) \/ M!SwapFails(r)
             \/ M!DropOldBegins(r) \/ M!DropOldEnds(r) \/ M!DropOldFails(r)
          /\ Moves(r, "migrate", "migrate")
       \/ (M!MoveAsideFails(r) \/ M!Restore(r)) /\ Moves(r, "migrate", "clean")
       \/ M!Finish(r) /\ Moves(r, "migrate", "start")
    /\ OnlyMigrator

UpdateNext ==
    \/ Photon \/ Agent
    \/ \E r \in Requests :
          \/ \E k \in Kinds : Arrives(r, k)
          \/ SharedStep(r)
          \/ Claims(r) \/ Removes(r) \/ Installs(r) \/ Replaces(r)

UpdateSpec == Init /\ [][UpdateNext]_vars

(* Every step is one of these.                                             *)
LEMMA NextCases ==
    ASSUME UpdateNext, NEW Q,
           Boot => Q, PhotonOpens => Q, PhotonDies \/ PhotonKilled => Q,
           AgentCancelled => Q, AgentRestarts => Q,
           ASSUME NEW r \in Requests, NEW k \in Kinds, Arrives(r, k) PROVE Q,
           ASSUME NEW r \in Requests, StopPhoton(r) PROVE Q,
           ASSUME NEW r \in Requests, StartPhoton(r) PROVE Q,
           ASSUME NEW r \in Requests, ForceReset(r) \/ CheckMigratability(r) PROVE Q,
           ASSUME NEW r \in Requests, Fetch(r) \/ FetchFails(r) PROVE Q,
           ASSUME NEW r \in Requests, Open(r) \/ OpenFails(r) PROVE Q,
           ASSUME NEW r \in Requests, ExtractPart(r) \/ ExtractFails(r) PROVE Q,
           ASSUME NEW r \in Requests,
                  RemoveTempBegins(r) \/ RemoveTempEnds(r) \/ RemoveTempFails(r) PROVE Q,
           ASSUME NEW r \in Requests, RemoveArchive(r) \/ RemoveArchiveFails(r) PROVE Q,
           ASSUME NEW r \in Requests,
                  Claims(r) \/ Removes(r) \/ Installs(r) \/ Replaces(r) PROVE Q
    PROVE  Q
BY DEF UpdateNext, Photon, Agent, SharedStep

-----------------------------------------------------------------------------
(* What each request has.                                                  *)
Typed ==
    /\ strategy = Strategy
    /\ DOMAIN dir = M!Places
    /\ pc \in [Requests -> Steps]
    /\ archiveFile \in Requests \cup {Absent}
    /\ source \in [Requests -> Requests \cup {Nil}]
    /\ written \in [Requests -> 0..1]
    /\ kind \in [Requests -> Kinds \cup {Nil}]
    /\ phase \in [Requests -> M!Phases]
    /\ resets \in Nat

LEMMA TypedInit == Init => Typed
<1> SUFFICES ASSUME Init PROVE Typed
    OBVIOUS
<1>1. strategy = Strategy /\ DOMAIN dir = M!Places /\ resets \in Nat
    BY DEF Init, M!Init
<1>2. phase \in [Requests -> M!Phases]
    BY DEF Init, M!Init, M!Phases
<1> QED
    BY <1>1, <1>2 DEF Init, Typed, Steps

LEMMA TypedStep == Typed /\ [UpdateNext]_vars => Typed'
<1> SUFFICES ASSUME Typed, [UpdateNext]_vars PROVE Typed'
    OBVIOUS
<1> USE UpdaterConstants
<1> USE DEF Typed, Steps, Moves, M!Phases, M!ReplacePhases, M!RemovePhases, M!MigrationPhases
<1>1. CASE UNCHANGED vars
    BY <1>1 DEF vars, migratorVars, requestVars, history
<1>2. CASE UpdateNext
    <2>1. Boot => Typed'
        BY DEF Boot, OnlyServer, migratorVars, history
    <2>2. PhotonOpens => Typed'
        BY DEF PhotonOpens, M!PhotonCreatesIndex, migratorVars, requestVars, history
    <2>3. PhotonDies \/ PhotonKilled => Typed'
        BY DEF PhotonDies, PhotonKilled, migratorVars, requestVars, history
    <2>4. AgentCancelled => Typed'
        BY DEF AgentCancelled, migratorVars, requestVars, history
    <2>5. AgentRestarts => Typed'
        BY DEF AgentRestarts, M!AgentRestarts, InFlight, Littered
    <2>6. ASSUME NEW r \in Requests, NEW k \in Kinds, Arrives(r, k) PROVE Typed'
        BY <2>6 DEF Arrives, FirstStep, migratorVars, history
    <2>7. ASSUME NEW r \in Requests, ForceReset(r) PROVE Typed'
        BY <2>7 DEF ForceReset, OnlyMigrator, M!ResetLocks, M!ResetStores, M!Goes, FirstStep,
               history
    <2>8. ASSUME NEW r \in Requests, CheckMigratability(r) PROVE Typed'
        BY <2>8 DEF CheckMigratability, OnlyMigrator, M!StateAsks, M!StateStores, M!Goes, FirstStep,
               history
    <2>9. ASSUME NEW r \in Requests, StopPhoton(r) PROVE Typed'
        BY <2>9 DEF StopPhoton, OnlyServer, history, migratorVars
    <2>10. ASSUME NEW r \in Requests, StartPhoton(r) PROVE Typed'
        BY <2>10 DEF StartPhoton, OnlyServer, history, migratorVars
    <2>11. ASSUME NEW r \in Requests, Fetch(r) PROVE Typed'
        BY <2>11 DEF Fetch, migratorVars, history
    <2>12. ASSUME NEW r \in Requests, FetchFails(r) PROVE Typed'
        BY <2>12 DEF FetchFails, DropsClosure, M!Abandon, M!OnlyDirs, M!Goes, migratorVars, history
    <2>13. ASSUME NEW r \in Requests, Open(r) PROVE Typed'
        BY <2>13 DEF Open, migratorVars, history
    <2>14. ASSUME NEW r \in Requests, OpenFails(r) PROVE Typed'
        BY <2>14 DEF OpenFails, DropsClosure, M!Abandon, M!OnlyDirs, M!Goes, migratorVars, history
    <2>15. ASSUME NEW r \in Requests, ExtractPart(r) PROVE Typed'
        BY <2>15 DEF ExtractPart, M!TempBecomes, Temp, ForgetSource, AfterExtraction, PartCount,
               history
    <2>16. ASSUME NEW r \in Requests, ExtractFails(r) PROVE Typed'
        BY <2>16 DEF ExtractFails, DropsClosure, M!Abandon, M!OnlyDirs, M!Goes, ForgetSource,
               migratorVars, history
    <2>17. ASSUME NEW r \in Requests, RemoveTempBegins(r) PROVE Typed'
        BY <2>17 DEF RemoveTempBegins, M!TempBecomes, Temp, history
    <2>18. ASSUME NEW r \in Requests, RemoveTempEnds(r) PROVE Typed'
        BY <2>18 DEF RemoveTempEnds, M!TempBecomes, Temp, AfterCleanup, AfterDiscard
    <2>19. ASSUME NEW r \in Requests, RemoveTempFails(r) PROVE Typed'
        BY <2>19 DEF RemoveTempFails, migratorVars, Littered, Temp, AfterCleanup, AfterDiscard
    <2>20. ASSUME NEW r \in Requests, RemoveArchive(r) PROVE Typed'
        BY <2>20 DEF RemoveArchive, migratorVars, history
    <2>21. ASSUME NEW r \in Requests, RemoveArchiveFails(r) PROVE Typed'
        BY <2>21 DEF RemoveArchiveFails, migratorVars, history
    <2>22. ASSUME NEW r \in Requests, Claims(r) PROVE Typed'
        BY <2>22 DEF Claims, OnlyMigrator, M!Claim, M!ClaimRefused, M!Goes, M!vars, history
    <2>23. ASSUME NEW r \in Requests, Removes(r) PROVE Typed'
        BY <2>23 DEF Removes, OnlyMigrator, M!RemoveBegins, M!RemoveEnds, M!RemoveFails,
               M!RemovalBegins, M!RemovalEnds, M!RemovalFails, M!OnlyDirs, M!Goes, history
    <2>24. ASSUME NEW r \in Requests, Installs(r) PROVE Typed'
        BY <2>24 DEF Installs, OnlyMigrator, M!Install, M!InstallFails, M!Finish, M!Rename,
               M!RenameFails, M!CanRename, M!OnlyDirs, M!Goes, history
    <2>25. ASSUME NEW r \in Requests, Replaces(r) PROVE Typed'
        BY <2>25 DEF Replaces, OnlyMigrator, M!MoveAside, M!MoveAsideFails, M!Swap, M!SwapFails,
               M!Restore, M!DropOldBegins, M!DropOldEnds, M!DropOldFails, M!Finish, M!Rename,
               M!RenameFails, M!CanRename, M!RemovalBegins, M!RemovalEnds, M!RemovalFails,
               M!OnlyDirs, M!Goes, history
    <2> QED
        BY <1>2, <2>1, <2>2, <2>3, <2>4, <2>5, <2>6, <2>7, <2>8, <2>9, <2>10, <2>11, <2>12,
           <2>13, <2>14, <2>15, <2>16, <2>17, <2>18, <2>19, <2>20, <2>21, <2>22, <2>23, <2>24,
           <2>25, NextCases
<1> QED
    BY <1>1, <1>2

(* An upload has its archive until it has extracted it, a download once it *)
(* is open.                                                                *)
PlaceInv ==
    \A r \in Requests :
        /\ pc[r] = "reset" /\ kind[r] # "download" => source[r] = r
        /\ Sequentially /\ pc[r] \in {"stop", "stopping", "claim", "migrate"}
           /\ kind[r] # "download"
              => source[r] = r
        /\ pc[r] = "check" => kind[r] = "download"
        /\ pc[r] = "extract" => source[r] \in Requests
        /\ pc[r] # "extract" => written[r] = 0

LEMMA PlaceInit == Init => PlaceInv
BY DEF Init, PlaceInv

LEMMA PlaceInvStep == Typed /\ PlaceInv /\ [UpdateNext]_vars => PlaceInv'
<1> SUFFICES ASSUME Typed /\ PlaceInv, [UpdateNext]_vars PROVE PlaceInv'
    OBVIOUS
<1> USE UpdaterConstants
<1> USE DEF Typed, PlaceInv, Moves, Kinds, Sequentially
<1>1. CASE UNCHANGED vars
    BY <1>1 DEF vars, migratorVars, requestVars, history
<1>2. CASE UpdateNext
    <2>1. Boot => PlaceInv'
        BY DEF Boot, OnlyServer, migratorVars, history
    <2>2. PhotonOpens => PlaceInv'
        BY DEF PhotonOpens, M!PhotonCreatesIndex, migratorVars, requestVars, history
    <2>3. PhotonDies \/ PhotonKilled => PlaceInv'
        BY DEF PhotonDies, PhotonKilled, migratorVars, requestVars, history
    <2>4. AgentCancelled => PlaceInv'
        BY DEF AgentCancelled, migratorVars, requestVars, history
    <2>5. AgentRestarts => PlaceInv'
        BY DEF AgentRestarts, M!AgentRestarts, InFlight, Littered
    <2>6. ASSUME NEW r \in Requests, NEW k \in Kinds, Arrives(r, k) PROVE PlaceInv'
        BY <2>6 DEF Arrives, FirstStep, migratorVars, history
    <2>7. ASSUME NEW r \in Requests, ForceReset(r) PROVE PlaceInv'
        BY <2>7 DEF ForceReset, OnlyMigrator, M!ResetLocks, M!ResetStores, M!Goes, FirstStep,
               history
    <2>8. ASSUME NEW r \in Requests, CheckMigratability(r) PROVE PlaceInv'
        BY <2>8 DEF CheckMigratability, OnlyMigrator, M!StateAsks, M!StateStores, M!Goes, FirstStep,
               history
    <2>9. ASSUME NEW r \in Requests, StopPhoton(r) PROVE PlaceInv'
        BY <2>9 DEF StopPhoton, OnlyServer, history, migratorVars
    <2>10. ASSUME NEW r \in Requests, StartPhoton(r) PROVE PlaceInv'
        BY <2>10 DEF StartPhoton, OnlyServer, history, migratorVars
    <2>11. ASSUME NEW r \in Requests, Fetch(r) PROVE PlaceInv'
        BY <2>11 DEF Fetch, migratorVars, history
    <2>12. ASSUME NEW r \in Requests, FetchFails(r) PROVE PlaceInv'
        BY <2>12 DEF FetchFails, DropsClosure, M!Abandon, M!OnlyDirs, M!Goes, migratorVars, history
    <2>13. ASSUME NEW r \in Requests, Open(r) PROVE PlaceInv'
        BY <2>13 DEF Open, migratorVars, history
    <2>14. ASSUME NEW r \in Requests, OpenFails(r) PROVE PlaceInv'
        BY <2>14 DEF OpenFails, DropsClosure, M!Abandon, M!OnlyDirs, M!Goes, migratorVars, history
    <2>15. ASSUME NEW r \in Requests, ExtractPart(r) PROVE PlaceInv'
        BY <2>15 DEF ExtractPart, M!TempBecomes, Temp, ForgetSource, AfterExtraction, PartCount,
               history
    <2>16. ASSUME NEW r \in Requests, ExtractFails(r) PROVE PlaceInv'
        BY <2>16 DEF ExtractFails, DropsClosure, M!Abandon, M!OnlyDirs, M!Goes, ForgetSource,
               migratorVars, history
    <2>17. ASSUME NEW r \in Requests, RemoveTempBegins(r) PROVE PlaceInv'
        BY <2>17 DEF RemoveTempBegins, M!TempBecomes, Temp, history
    <2>18. ASSUME NEW r \in Requests, RemoveTempEnds(r) PROVE PlaceInv'
        BY <2>18 DEF RemoveTempEnds, M!TempBecomes, Temp, AfterCleanup, AfterDiscard
    <2>19. ASSUME NEW r \in Requests, RemoveTempFails(r) PROVE PlaceInv'
        BY <2>19 DEF RemoveTempFails, migratorVars, Littered, Temp, AfterCleanup, AfterDiscard
    <2>20. ASSUME NEW r \in Requests, RemoveArchive(r) PROVE PlaceInv'
        BY <2>20 DEF RemoveArchive, migratorVars, history
    <2>21. ASSUME NEW r \in Requests, RemoveArchiveFails(r) PROVE PlaceInv'
        BY <2>21 DEF RemoveArchiveFails, migratorVars, history
    <2>22. ASSUME NEW r \in Requests, Claims(r) PROVE PlaceInv'
        BY <2>22 DEF Claims, OnlyMigrator, M!Claim, M!ClaimRefused, M!Goes, M!vars, history
    <2>23. ASSUME NEW r \in Requests, Removes(r) PROVE PlaceInv'
        BY <2>23 DEF Removes, OnlyMigrator, M!RemoveBegins, M!RemoveEnds, M!RemoveFails,
               M!RemovalBegins, M!RemovalEnds, M!RemovalFails, M!OnlyDirs, M!Goes, history
    <2>24. ASSUME NEW r \in Requests, Installs(r) PROVE PlaceInv'
        BY <2>24 DEF Installs, OnlyMigrator, M!Install, M!InstallFails, M!Finish, M!Rename,
               M!RenameFails, M!CanRename, M!OnlyDirs, M!Goes, history
    <2>25. ASSUME NEW r \in Requests, Replaces(r) PROVE PlaceInv'
        BY <2>25 DEF Replaces, OnlyMigrator, M!MoveAside, M!MoveAsideFails, M!Swap, M!SwapFails,
               M!Restore, M!DropOldBegins, M!DropOldEnds, M!DropOldFails, M!Finish, M!Rename,
               M!RenameFails, M!CanRename, M!RemovalBegins, M!RemovalEnds, M!RemovalFails,
               M!OnlyDirs, M!Goes, history
    <2> QED
        BY <1>2, <2>1, <2>2, <2>3, <2>4, <2>5, <2>6, <2>7, <2>8, <2>9, <2>10, <2>11, <2>12,
           <2>13, <2>14, <2>15, <2>16, <2>17, <2>18, <2>19, <2>20, <2>21, <2>22, <2>23, <2>24,
           <2>25, NextCases
<1> QED
    BY <1>1, <1>2

(* What an update extracts goes to the temp directory.                     *)
TempInv == dir["temp"] \in Extracted \cup {Absent}

LEMMA TempInit == Init => TempInv
BY DEF Init, M!Init, TempInv, M!Places

LEMMA TempInvStep == Typed /\ PlaceInv /\ TempInv /\ [UpdateNext]_vars => TempInv'
<1> SUFFICES ASSUME Typed /\ PlaceInv /\ TempInv, [UpdateNext]_vars PROVE TempInv'
    OBVIOUS
<1> USE DEF Typed, PlaceInv, TempInv, Moves, M!Places
<1>1. CASE UNCHANGED vars
    BY <1>1 DEF vars, migratorVars, requestVars, history
<1>2. CASE UpdateNext
    <2>1. Boot => TempInv'
        BY DEF Boot, OnlyServer, migratorVars, history
    <2>2. PhotonOpens => TempInv'
        BY DEF PhotonOpens, M!PhotonCreatesIndex, migratorVars, requestVars, history
    <2>3. PhotonDies \/ PhotonKilled => TempInv'
        BY DEF PhotonDies, PhotonKilled, migratorVars, requestVars, history
    <2>4. AgentCancelled => TempInv'
        BY DEF AgentCancelled, migratorVars, requestVars, history
    <2>5. AgentRestarts => TempInv'
        BY DEF AgentRestarts, M!AgentRestarts, InFlight, Littered
    <2>6. ASSUME NEW r \in Requests, NEW k \in Kinds, Arrives(r, k) PROVE TempInv'
        BY <2>6 DEF Arrives, FirstStep, migratorVars, history
    <2>7. ASSUME NEW r \in Requests, ForceReset(r) PROVE TempInv'
        BY <2>7 DEF ForceReset, OnlyMigrator, M!ResetLocks, M!ResetStores, M!Goes, FirstStep,
               history
    <2>8. ASSUME NEW r \in Requests, CheckMigratability(r) PROVE TempInv'
        BY <2>8 DEF CheckMigratability, OnlyMigrator, M!StateAsks, M!StateStores, M!Goes, FirstStep,
               history
    <2>9. ASSUME NEW r \in Requests, StopPhoton(r) PROVE TempInv'
        BY <2>9 DEF StopPhoton, OnlyServer, history, migratorVars
    <2>10. ASSUME NEW r \in Requests, StartPhoton(r) PROVE TempInv'
        BY <2>10 DEF StartPhoton, OnlyServer, history, migratorVars
    <2>11. ASSUME NEW r \in Requests, Fetch(r) PROVE TempInv'
        BY <2>11 DEF Fetch, migratorVars, history
    <2>12. ASSUME NEW r \in Requests, FetchFails(r) PROVE TempInv'
        BY <2>12 DEF FetchFails, DropsClosure, M!Abandon, M!OnlyDirs, M!Goes, migratorVars, history
    <2>13. ASSUME NEW r \in Requests, Open(r) PROVE TempInv'
        BY <2>13 DEF Open, migratorVars, history
    <2>14. ASSUME NEW r \in Requests, OpenFails(r) PROVE TempInv'
        BY <2>14 DEF OpenFails, DropsClosure, M!Abandon, M!OnlyDirs, M!Goes, migratorVars, history
    <2>15. ASSUME NEW r \in Requests, ExtractPart(r) PROVE TempInv'
        <3>1. <<source[r], written[r] + 1>> \in Requests \X (1..PartCount)
            BY <2>15 DEF ExtractPart, PartCount
        <3>2. \E x \in Extracted : dir' = [dir EXCEPT !["temp"] = x]
            BY <2>15, <3>1 DEF ExtractPart, M!TempBecomes, Temp, Extracted
        <3> QED
            BY <3>2
    <2>16. ASSUME NEW r \in Requests, ExtractFails(r) PROVE TempInv'
        BY <2>16 DEF ExtractFails, DropsClosure, M!Abandon, M!OnlyDirs, M!Goes, ForgetSource,
               migratorVars, history
    <2>17. ASSUME NEW r \in Requests, RemoveTempBegins(r) PROVE TempInv'
        <3>1. {} \in Extracted
            BY DEF Extracted
        <3> QED
            BY <2>17, <3>1 DEF RemoveTempBegins, M!TempBecomes, Temp
    <2>18. ASSUME NEW r \in Requests, RemoveTempEnds(r) PROVE TempInv'
        BY <2>18 DEF RemoveTempEnds, M!TempBecomes, Temp, AfterCleanup, AfterDiscard
    <2>19. ASSUME NEW r \in Requests, RemoveTempFails(r) PROVE TempInv'
        BY <2>19 DEF RemoveTempFails, migratorVars, Littered, Temp, AfterCleanup, AfterDiscard
    <2>20. ASSUME NEW r \in Requests, RemoveArchive(r) PROVE TempInv'
        BY <2>20 DEF RemoveArchive, migratorVars, history
    <2>21. ASSUME NEW r \in Requests, RemoveArchiveFails(r) PROVE TempInv'
        BY <2>21 DEF RemoveArchiveFails, migratorVars, history
    <2>22. ASSUME NEW r \in Requests, Claims(r) PROVE TempInv'
        BY <2>22 DEF Claims, OnlyMigrator, M!Claim, M!ClaimRefused, M!Goes, M!vars, history
    <2>23. ASSUME NEW r \in Requests, Removes(r) PROVE TempInv'
        BY <2>23 DEF Removes, OnlyMigrator, M!RemoveBegins, M!RemoveEnds, M!RemoveFails,
               M!RemovalBegins, M!RemovalEnds, M!RemovalFails, M!OnlyDirs, M!Goes, history
    <2>24. ASSUME NEW r \in Requests, Installs(r) PROVE TempInv'
        BY <2>24 DEF Installs, OnlyMigrator, M!Install, M!InstallFails, M!Finish, M!Rename,
               M!RenameFails, M!CanRename, M!OnlyDirs, M!Goes, history
    <2>25. ASSUME NEW r \in Requests, Replaces(r) PROVE TempInv'
        BY <2>25 DEF Replaces, OnlyMigrator, M!MoveAside, M!MoveAsideFails, M!Swap, M!SwapFails,
               M!Restore, M!DropOldBegins, M!DropOldEnds, M!DropOldFails, M!Finish, M!Rename,
               M!RenameFails, M!CanRename, M!RemovalBegins, M!RemovalEnds, M!RemovalFails,
               M!OnlyDirs, M!Goes, history
    <2> QED
        BY <1>2, <2>1, <2>2, <2>3, <2>4, <2>5, <2>6, <2>7, <2>8, <2>9, <2>10, <2>11, <2>12,
           <2>13, <2>14, <2>15, <2>16, <2>17, <2>18, <2>19, <2>20, <2>21, <2>22, <2>23, <2>24,
           <2>25, NextCases
<1> QED
    BY <1>1, <1>2

(* What a step does to the directories and the migration state is a step of *)
(* the migrator, or one of those its environment may take.                 *)
LEMMA MigratorStep == Typed /\ PlaceInv /\ TempInv /\ [UpdateNext]_vars => [M!Next]_(M!vars)
<1> SUFFICES ASSUME Typed /\ PlaceInv /\ TempInv, [UpdateNext]_vars PROVE [M!Next]_(M!vars)
    OBVIOUS
<1>1. CASE UNCHANGED vars
    BY <1>1 DEF vars, migratorVars, M!vars
<1>2. CASE UpdateNext
    <2>1. Boot => [M!Next]_(M!vars)
        BY DEF Boot, OnlyServer, migratorVars, M!vars
    <2>2. PhotonOpens => [M!Next]_(M!vars)
        BY DEF PhotonOpens, migratorVars, M!vars, M!Next, M!Environment
    <2>3. PhotonDies \/ PhotonKilled => [M!Next]_(M!vars)
        BY DEF PhotonDies, PhotonKilled, migratorVars, M!vars
    <2>4. AgentCancelled => [M!Next]_(M!vars)
        BY DEF AgentCancelled, migratorVars, M!vars
    <2>5. AgentRestarts => [M!Next]_(M!vars)
        BY DEF AgentRestarts, M!Next, M!Environment
    <2>6. ASSUME NEW r \in Requests, NEW k \in Kinds, Arrives(r, k) PROVE [M!Next]_(M!vars)
        BY <2>6 DEF Arrives, migratorVars, M!vars
    <2>7. ASSUME NEW r \in Requests, ForceReset(r) PROVE [M!Next]_(M!vars)
        BY <2>7 DEF ForceReset, M!Next, M!Status
    <2>8. ASSUME NEW r \in Requests, CheckMigratability(r) PROVE [M!Next]_(M!vars)
        BY <2>8 DEF CheckMigratability, M!Next, M!Status
    <2>9. ASSUME NEW r \in Requests, StopPhoton(r) PROVE [M!Next]_(M!vars)
        BY <2>9 DEF StopPhoton, OnlyServer, migratorVars, M!vars
    <2>10. ASSUME NEW r \in Requests, StartPhoton(r) PROVE [M!Next]_(M!vars)
        BY <2>10 DEF StartPhoton, OnlyServer, migratorVars, M!vars
    <2>11. ASSUME NEW r \in Requests, Fetch(r) PROVE [M!Next]_(M!vars)
        BY <2>11 DEF Fetch, migratorVars, M!vars
    <2>12. ASSUME NEW r \in Requests, FetchFails(r) PROVE [M!Next]_(M!vars)
        BY <2>12 DEF FetchFails, DropsClosure, migratorVars, M!vars, M!Next,
                   M!MigrateByRemoveFirst
    <2>13. ASSUME NEW r \in Requests, Open(r) PROVE [M!Next]_(M!vars)
        BY <2>13 DEF Open, migratorVars, M!vars
    <2>14. ASSUME NEW r \in Requests, OpenFails(r) PROVE [M!Next]_(M!vars)
        BY <2>14 DEF OpenFails, DropsClosure, migratorVars, M!vars, M!Next,
                   M!MigrateByRemoveFirst
    <2>15. ASSUME NEW r \in Requests, ExtractPart(r) PROVE [M!Next]_(M!vars)
        <3>1. <<source[r], written[r] + 1>> \in Requests \X (1..PartCount)
            BY <2>15 DEF ExtractPart, PartCount, PlaceInv, Typed
        <3>2. \E x \in Extracted : M!TempBecomes(x)
            BY <2>15, <3>1 DEF ExtractPart, Temp, TempInv, Extracted
        <3> QED
            BY <3>2 DEF M!Next, M!Environment
    <2>16. ASSUME NEW r \in Requests, ExtractFails(r) PROVE [M!Next]_(M!vars)
        BY <2>16 DEF ExtractFails, DropsClosure, migratorVars, M!vars, M!Next,
                   M!MigrateByRemoveFirst
    <2>17. ASSUME NEW r \in Requests, RemoveTempBegins(r) PROVE [M!Next]_(M!vars)
        <3>1. {} \in Extracted
            BY DEF Extracted
        <3> QED
            BY <2>17, <3>1 DEF RemoveTempBegins, M!Next, M!Environment
    <2>18. ASSUME NEW r \in Requests, RemoveTempEnds(r) PROVE [M!Next]_(M!vars)
        BY <2>18 DEF RemoveTempEnds, Temp, TempInv, M!Next, M!Environment
    <2>19. ASSUME NEW r \in Requests, RemoveTempFails(r) PROVE [M!Next]_(M!vars)
        BY <2>19 DEF RemoveTempFails, migratorVars, M!vars
    <2>20. ASSUME NEW r \in Requests, RemoveArchive(r) PROVE [M!Next]_(M!vars)
        BY <2>20 DEF RemoveArchive, migratorVars, M!vars
    <2>21. ASSUME NEW r \in Requests, RemoveArchiveFails(r) PROVE [M!Next]_(M!vars)
        BY <2>21 DEF RemoveArchiveFails, migratorVars, M!vars
    <2>22. ASSUME NEW r \in Requests, Claims(r) PROVE [M!Next]_(M!vars)
        BY <2>22 DEF Claims, M!Next, M!Gatekeeping
    <2>23. ASSUME NEW r \in Requests, Removes(r) PROVE [M!Next]_(M!vars)
        BY <2>23 DEF Removes, M!Next, M!MigrateByRemoveFirst
    <2>24. ASSUME NEW r \in Requests, Installs(r) PROVE [M!Next]_(M!vars)
        BY <2>24 DEF Installs, M!Next, M!MigrateByRemoveFirst, M!Gatekeeping
    <2>25. ASSUME NEW r \in Requests, Replaces(r) PROVE [M!Next]_(M!vars)
        BY <2>25 DEF Replaces, M!Next, M!MigrateByReplace, M!Gatekeeping
    <2> QED
        BY <1>2, <2>1, <2>2, <2>3, <2>4, <2>5, <2>6, <2>7, <2>8, <2>9, <2>10, <2>11, <2>12,
           <2>13, <2>14, <2>15, <2>16, <2>17, <2>18, <2>19, <2>20, <2>21, <2>22, <2>23, <2>24,
           <2>25, NextCases
<1> QED
    BY <1>1, <1>2

(* The updates use the migrator the way it works: every step is one of the *)
(* migrator or leaves it alone.                                            *)
THEOREM UpdatesUseMigrator == UpdateSpec => ImplementsMigrator
<1>1. Init => M!Init /\ Typed /\ PlaceInv /\ TempInv
    BY TypedInit, PlaceInit, TempInit DEF Init
<1>2. Typed /\ PlaceInv /\ TempInv /\ [UpdateNext]_vars => (Typed /\ PlaceInv /\ TempInv)'
    BY TypedStep, PlaceInvStep, TempInvStep
<1> QED
    BY <1>1, <1>2, MigratorStep, PTL DEF UpdateSpec, ImplementsMigrator, M!Spec

-----------------------------------------------------------------------------
(* What is proved of the migrator alone holds of it here.  Two instances   *)
(* of it are the same system, with the same assumptions on the constants.  *)
LEMMA SameMigrator == [M!Next]_(M!vars) => [MigratorTheorems!Next]_(MigratorTheorems!vars)
<1>1. \A c \in Requests : M!Status(c) => MigratorTheorems!Status(c)
    BY DEF M!Status, MigratorTheorems!Status, M!StateAsks, MigratorTheorems!StateAsks,
           M!StateStores, MigratorTheorems!StateStores, M!ResetLocks,
           MigratorTheorems!ResetLocks, M!ResetStores, MigratorTheorems!ResetStores, M!Goes,
           MigratorTheorems!Goes
<1>2. \A c \in Requests : M!Gatekeeping(c) => MigratorTheorems!Gatekeeping(c)
    BY DEF M!Gatekeeping, MigratorTheorems!Gatekeeping, M!ClaimRefused,
           MigratorTheorems!ClaimRefused, M!Claim, MigratorTheorems!Claim, M!Finish,
           MigratorTheorems!Finish, M!Goes, MigratorTheorems!Goes, M!vars, MigratorTheorems!vars
<1>3. \A c \in Requests : M!MigrateByReplace(c) => MigratorTheorems!MigrateByReplace(c)
    BY DEF M!MigrateByReplace, MigratorTheorems!MigrateByReplace, M!MoveAside,
           MigratorTheorems!MoveAside, M!MoveAsideFails, MigratorTheorems!MoveAsideFails, M!Swap,
           MigratorTheorems!Swap, M!SwapFails, MigratorTheorems!SwapFails, M!Restore,
           MigratorTheorems!Restore, M!DropOldBegins, MigratorTheorems!DropOldBegins,
           M!DropOldEnds, MigratorTheorems!DropOldEnds, M!DropOldFails,
           MigratorTheorems!DropOldFails, M!Goes, MigratorTheorems!Goes, M!OnlyDirs,
           MigratorTheorems!OnlyDirs, M!Rename, MigratorTheorems!Rename, M!RenameFails,
           MigratorTheorems!RenameFails, M!CanRename, MigratorTheorems!CanRename,
           M!RemovalBegins, MigratorTheorems!RemovalBegins, M!RemovalEnds,
           MigratorTheorems!RemovalEnds, M!RemovalFails, MigratorTheorems!RemovalFails
<1>4. \A c \in Requests : M!MigrateByRemoveFirst(c) => MigratorTheorems!MigrateByRemoveFirst(c)
    BY DEF M!MigrateByRemoveFirst, MigratorTheorems!MigrateByRemoveFirst, M!RemoveBegins,
           MigratorTheorems!RemoveBegins, M!RemoveEnds, MigratorTheorems!RemoveEnds,
           M!RemoveFails, MigratorTheorems!RemoveFails, M!Abandon, MigratorTheorems!Abandon,
           M!Install, MigratorTheorems!Install, M!InstallFails, MigratorTheorems!InstallFails,
           M!Goes, MigratorTheorems!Goes, M!OnlyDirs, MigratorTheorems!OnlyDirs, M!Rename,
           MigratorTheorems!Rename, M!RenameFails, MigratorTheorems!RenameFails, M!CanRename,
           MigratorTheorems!CanRename, M!RemovalBegins, MigratorTheorems!RemovalBegins,
           M!RemovalEnds, MigratorTheorems!RemovalEnds, M!RemovalFails,
           MigratorTheorems!RemovalFails
<1>5. M!Environment => MigratorTheorems!Environment
    BY DEF M!Environment, MigratorTheorems!Environment, M!TempBecomes,
           MigratorTheorems!TempBecomes, M!PhotonCreatesIndex,
           MigratorTheorems!PhotonCreatesIndex, M!AgentRestarts, MigratorTheorems!AgentRestarts
<1> QED
    BY <1>1, <1>2, <1>3, <1>4, <1>5 DEF M!Next, MigratorTheorems!Next, M!vars, MigratorTheorems!vars

LEMMA MigratorAssumptions ==
    /\ {Strategy} \subseteq {"parallel", "sequential"}
    /\ Extracted \cap {Blank, Broken, Absent} = {}
    /\ Blank # Broken /\ Blank # Absent /\ Broken # Absent
    /\ Nil \notin Requests
    /\ FsMayFail \in BOOLEAN
    /\ MaxResets \in Nat
BY UpdaterConstants, ContentConstants, ServerConstants

LEMMA MigratorRuns == UpdateSpec => MigratorTheorems!Spec
<1>1. M!Init => MigratorTheorems!Init
    BY DEF M!Init, MigratorTheorems!Init, M!Contents, MigratorTheorems!Contents,
           M!Places, MigratorTheorems!Places
<1> QED
    BY <1>1, SameMigrator, UpdatesUseMigrator, PTL
       DEF ImplementsMigrator, M!Spec, MigratorTheorems!Spec

(* However many updates run at once, are refused, fail and are forced, no  *)
(* more of them are in a migration than there were resets, plus one while  *)
(* the state is migrating.                                                 *)
THEOREM UpdatesOverlapByResets == UpdateSpec => []M!OverlapNeedsReset
<1>1. MigratorTheorems!Spec => []MigratorTheorems!OverlapNeedsReset
    BY MigratorAssumptions, MigratorTheorems!OverlapBound
<1>2. MigratorTheorems!OverlapNeedsReset => M!OverlapNeedsReset
    BY DEF MigratorTheorems!OverlapNeedsReset, M!OverlapNeedsReset, MigratorTheorems!Migrating,
           M!Migrating, MigratorTheorems!MigrationPhases, M!MigrationPhases,
           MigratorTheorems!ReplacePhases, M!ReplacePhases, MigratorTheorems!RemovePhases,
           M!RemovePhases, MigratorTheorems!Cardinality, M!Cardinality
<1> QED
    BY <1>1, <1>2, MigratorRuns, PTL

(* Without a forced update, a migration about to report success has a      *)
(* directory of extracted files in place.                                  *)
THEOREM UpdatesReportWhatIsInPlace == UpdateSpec => []M!ReportedIndexIsInPlace
<1>1. MigratorTheorems!Spec => []MigratorTheorems!ReportedIndexIsInPlace
    BY MigratorAssumptions, MigratorTheorems!ReportsAreTrue
<1>2. MigratorTheorems!ReportedIndexIsInPlace => M!ReportedIndexIsInPlace
    BY DEF MigratorTheorems!ReportedIndexIsInPlace, M!ReportedIndexIsInPlace
<1> QED
    BY <1>1, <1>2, MigratorRuns, PTL

(* A parallel update never leaves photon without an index once there was   *)
(* an extracted one: node_1 or node_1.old is such at every later moment.   *)
THEOREM UpdatesKeepTheIndex == UpdateSpec => M!IndexSurvives
<1>1. MigratorTheorems!Spec => MigratorTheorems!IndexSurvives
    BY MigratorAssumptions, MigratorTheorems!IndexIsNeverLost
<1>2. MigratorTheorems!IndexSurvives => M!IndexSurvives
    BY DEF MigratorTheorems!IndexSurvives, M!IndexSurvives, MigratorTheorems!HasIndex, M!HasIndex,
           MigratorTheorems!vars, M!vars
<1> QED
    BY <1>1, <1>2, MigratorRuns, PTL

LEMMA MigratorTyped == UpdateSpec => []M!TypeOK
<1>1. MigratorTheorems!Spec => []MigratorTheorems!TypeOK
    BY MigratorAssumptions, MigratorTheorems!TypeCorrect
<1>2. MigratorTheorems!TypeOK => M!TypeOK
    BY DEF MigratorTheorems!TypeOK, M!TypeOK, MigratorTheorems!States, M!States,
           MigratorTheorems!Phases, M!Phases, MigratorTheorems!MigrationPhases, M!MigrationPhases,
           MigratorTheorems!ReplacePhases, M!ReplacePhases, MigratorTheorems!RemovePhases,
           M!RemovePhases, MigratorTheorems!Places, M!Places, MigratorTheorems!Contents,
           M!Contents
<1> QED
    BY <1>1, <1>2, MigratorRuns, PTL

-----------------------------------------------------------------------------
(* What a step does to photon's manager is a step of the manager.          *)
LEMMA ForkIsLaunch ==
    ASSUME Fork
    PROVE  \E p \in Pids : PS!StartLaunch(p)
BY DEF Fork

(* Where photon is stopped: from the stop to the start, or to the error.   *)
StoppedSteps ==
    {"claim", "migrate", "install"}
        \cup (IF Sequentially THEN {"fetch", "open", "extract"} ELSE {})

(* Where a request is about to start photon, or to stop it for its claim.  *)
OnTheWay == {"stop", "stopping", "claim", "start"}

(* A forced parallel update opens the gate long before it starts photon.   *)
Unforced == Sequentially \/ resets = 0

(* A step of a request that leaves photon alone.  It comes between the     *)
(* stop and the start only if it was there, and changes the index only     *)
(* there; it leaves the way to a start, or the state of a migration, only  *)
(* for the other of the two.                                               *)
LeavesPhoton(r) ==
    /\ UNCHANGED <<serverVars, served, overlapped, restarts>>
    /\ litter' \in {litter, {}, Littered}
    /\ pc[r] \in Steps \ {"new", "over"}
    /\ \E to \in Steps \ {"new"} :
          /\ pc' = [pc EXCEPT ![r] = to]
          /\ to \in StoppedSteps => pc[r] \in StoppedSteps
          /\ pc[r] \in OnTheWay => to \in OnTheWay \/ state' = "migrating"
          /\ state = "migrating" /\ Unforced' => state' = "migrating" \/ to \in OnTheWay
    /\ Unforced' => Unforced
    /\ DOMAIN dir' = DOMAIN dir
    /\ dir'["node_1"] # dir["node_1"] => pc[r] \in StoppedSteps

LEMMA RequestSteps ==
    ASSUME Typed, NEW r \in Requests,
           \/ ForceReset(r) \/ CheckMigratability(r)
           \/ Fetch(r) \/ FetchFails(r) \/ Open(r) \/ OpenFails(r)
           \/ ExtractPart(r) \/ ExtractFails(r)
           \/ RemoveTempBegins(r) \/ RemoveTempEnds(r) \/ RemoveTempFails(r)
           \/ RemoveArchive(r) \/ RemoveArchiveFails(r)
           \/ Claims(r) \/ Removes(r) \/ Installs(r) \/ Replaces(r)
    PROVE  LeavesPhoton(r)
<1> USE UpdaterConstants
<1> USE DEF Typed, LeavesPhoton, StoppedSteps, OnTheWay, Unforced, Sequentially, Steps, Moves,
            M!Places
<1>1. CASE ForceReset(r)
    BY <1>1 DEF ForceReset, OnlyMigrator, M!ResetLocks, M!ResetStores, M!Goes, FirstStep, history
<1>2. CASE CheckMigratability(r)
    BY <1>2 DEF CheckMigratability, OnlyMigrator, M!StateAsks, M!StateStores, M!Goes, FirstStep,
              history
<1>3. CASE Fetch(r)
    BY <1>3 DEF Fetch, migratorVars, history
<1>4. CASE FetchFails(r)
    BY <1>4 DEF FetchFails, DropsClosure, M!Abandon, M!OnlyDirs, M!Goes, migratorVars, history
<1>5. CASE Open(r)
    BY <1>5 DEF Open, migratorVars, history
<1>6. CASE OpenFails(r)
    BY <1>6 DEF OpenFails, DropsClosure, M!Abandon, M!OnlyDirs, M!Goes, migratorVars, history
<1>7. CASE ExtractPart(r)
    <2>1. /\ UNCHANGED <<serverVars, served, overlapped, restarts, litter, state, resets>>
          /\ pc[r] = "extract"
          /\ pc' = pc \/ pc' = [pc EXCEPT ![r] = AfterExtraction]
          /\ DOMAIN dir' = DOMAIN dir /\ dir'["node_1"] = dir["node_1"]
        BY <1>7 DEF ExtractPart, M!TempBecomes, history
    <2>2. pc' = pc => pc' = [pc EXCEPT ![r] = "extract"]
        BY <2>1
    <2> QED
        BY <2>1, <2>2 DEF AfterExtraction
<1>8. CASE ExtractFails(r)
    BY <1>8 DEF ExtractFails, DropsClosure, M!Abandon, M!OnlyDirs, M!Goes, ForgetSource,
              migratorVars, history
<1>9. CASE RemoveTempBegins(r)
    BY <1>9 DEF RemoveTempBegins, M!TempBecomes, Temp, history
<1>10. CASE RemoveTempEnds(r)
    BY <1>10 DEF RemoveTempEnds, M!TempBecomes, Temp, AfterCleanup, AfterDiscard
<1>11. CASE RemoveTempFails(r)
    BY <1>11 DEF RemoveTempFails, migratorVars, Littered, Temp, AfterCleanup, AfterDiscard
<1>12. CASE RemoveArchive(r)
    BY <1>12 DEF RemoveArchive, migratorVars, history
<1>13. CASE RemoveArchiveFails(r)
    BY <1>13 DEF RemoveArchiveFails, migratorVars, history
<1>14. CASE Claims(r)
    BY <1>14 DEF Claims, OnlyMigrator, M!Claim, M!ClaimRefused, M!Goes, M!vars, history
<1>15. CASE Removes(r)
    BY <1>15 DEF Removes, OnlyMigrator, M!RemoveBegins, M!RemoveEnds, M!RemoveFails,
              M!RemovalBegins, M!RemovalEnds, M!RemovalFails, M!OnlyDirs, M!Goes, history
<1>16. CASE Installs(r)
    BY <1>16 DEF Installs, OnlyMigrator, M!Install, M!InstallFails, M!Finish, M!Rename,
              M!RenameFails, M!CanRename, M!OnlyDirs, M!Goes, history
<1>17. CASE Replaces(r)
    BY <1>17 DEF Replaces, OnlyMigrator, M!MoveAside, M!MoveAsideFails, M!Swap, M!SwapFails,
              M!Restore, M!DropOldBegins, M!DropOldEnds, M!DropOldFails, M!Finish, M!Rename,
              M!RenameFails, M!CanRename, M!RemovalBegins, M!RemovalEnds, M!RemovalFails,
              M!OnlyDirs, M!Goes, history
<1> QED
    BY <1>1, <1>2, <1>3, <1>4, <1>5, <1>6, <1>7, <1>8, <1>9, <1>10, <1>11, <1>12, <1>13, <1>14,
       <1>15, <1>16, <1>17

-----------------------------------------------------------------------------
(* The photon manager, as the updates use it.                              *)
LEMMA ServerStep ==
    ASSUME Typed, [UpdateNext]_vars
    PROVE  [PS!Next]_(PS!vars)
<1>1. CASE UNCHANGED vars
    BY <1>1 DEF vars, serverVars, PS!vars
<1>2. CASE UpdateNext
    <2> USE DEF PS!Next, PS!Start, PS!Stop, PS!Environment, PS!vars, serverVars
    <2>1. Boot => [PS!Next]_(PS!vars)
        BY ForkIsLaunch DEF Boot
    <2>2. PhotonOpens => [PS!Next]_(PS!vars)
        BY DEF PhotonOpens
    <2>3. PhotonDies \/ PhotonKilled => [PS!Next]_(PS!vars)
        BY DEF PhotonDies, PhotonKilled
    <2>4. AgentCancelled => [PS!Next]_(PS!vars)
        BY DEF AgentCancelled
    <2>5. AgentRestarts => [PS!Next]_(PS!vars)
        BY DEF AgentRestarts
    <2>6. ASSUME NEW r \in Requests, NEW k \in Kinds, Arrives(r, k) PROVE [PS!Next]_(PS!vars)
        BY <2>6 DEF Arrives
    <2>7. ASSUME NEW r \in Requests, StopPhoton(r) PROVE [PS!Next]_(PS!vars)
        BY <2>7 DEF StopPhoton
    <2>8. ASSUME NEW r \in Requests, StartPhoton(r) PROVE [PS!Next]_(PS!vars)
        BY <2>8, ForkIsLaunch DEF StartPhoton
    <2>9. ASSUME NEW r \in Requests, LeavesPhoton(r) PROVE [PS!Next]_(PS!vars)
        BY <2>9 DEF LeavesPhoton
    <2> QED
        BY <1>2, <2>1, <2>2, <2>3, <2>4, <2>5, <2>6, <2>7, <2>8, <2>9, RequestSteps, NextCases
<1> QED
    BY <1>1, <1>2

(* Every behaviour of the updates is one of the photon manager.            *)
THEOREM UpdatesUsePhotonServer == UpdateSpec => ImplementsPhotonServer
<1>1. Init => PS!Init
    BY DEF Init
<1> QED
    BY <1>1, TypedInit, TypedStep, ServerStep, PTL
       DEF UpdateSpec, ImplementsPhotonServer, PS!SafetySpec

(* What is proved of the photon manager alone holds of it here.            *)
LEMMA SameServer == [PS!Next]_(PS!vars) => [ServerTheorems!Next]_(ServerTheorems!vars)
    BY DEF PS!Next, PS!Start, PS!Stop, PS!Environment, PS!vars, PS!StartNoOp, PS!StartLaunch,
           PS!StartFails, PS!StopUnused, PS!StopNothingToWait, PS!StopBegin, PS!StopReturn,
           PS!ChildEnds, PS!WaitDelayKill, PS!AgentCancelled, PS!AgentExits, PS!AgentRestarts,
           PS!Unlocked, PS!SaysAlreadyRunning, PS!Startable, PS!CommandToStart, PS!NewCommand,
           PS!Waitable,
           ServerTheorems!Next, ServerTheorems!Start, ServerTheorems!Stop,
           ServerTheorems!Environment, ServerTheorems!vars, ServerTheorems!StartNoOp,
           ServerTheorems!StartLaunch, ServerTheorems!StartFails, ServerTheorems!StopUnused,
           ServerTheorems!StopNothingToWait, ServerTheorems!StopBegin,
           ServerTheorems!StopReturn, ServerTheorems!ChildEnds, ServerTheorems!WaitDelayKill,
           ServerTheorems!AgentCancelled, ServerTheorems!AgentExits,
           ServerTheorems!AgentRestarts, ServerTheorems!Unlocked,
           ServerTheorems!SaysAlreadyRunning, ServerTheorems!Startable,
           ServerTheorems!CommandToStart, ServerTheorems!NewCommand, ServerTheorems!Waitable

LEMMA ServerAssumptions ==
    /\ Nil \notin Requests \cup Pids \cup ServerTheorems!Commands
    /\ FALSE \in BOOLEAN
BY ServerConstants
   DEF PS!Commands, ServerTheorems!Commands, PS!ExitStates, ServerTheorems!ExitStates

LEMMA ServerRuns == UpdateSpec => ServerTheorems!SafetySpec
<1>1. PS!Init => ServerTheorems!Init
    BY DEF PS!Init, ServerTheorems!Init
<1> QED
    BY <1>1, SameServer, UpdatesUsePhotonServer, PTL
       DEF ImplementsPhotonServer, PS!SafetySpec, ServerTheorems!SafetySpec

(* In particular its inductive invariant.                                  *)
ServerInv == ServerTheorems!CommandInv

LEMMA ServerInvHolds == UpdateSpec => []ServerInv
<1>1. ServerTheorems!SafetySpec => []ServerTheorems!CommandInv
    BY ServerAssumptions, ServerTheorems!CommandInvariant
<1> QED
    BY <1>1, ServerRuns, PTL DEF ServerInv

LEMMA ServerFacts ==
    ASSUME ServerInv
    PROVE  /\ \A p \in Pids : children[p] = "alive" =>
                 cmd # Nil /\ cmd.process = p /\ p # Nil /\ cmd.exit = "none"
           /\ cmd # Nil => cmd \in PS!Commands
           /\ children \in [Pids -> {"unborn", "alive", "exited", "signaled"}]
           /\ serverMutex # Nil => cmd # Nil /\ cmd.process \in Pids
BY ServerConstants
   DEF ServerInv, ServerTheorems!CommandInv, ServerTheorems!LiveChildIsOwned,
       ServerTheorems!Alive, ServerTheorems!TypeOK, ServerTheorems!Commands,
       ServerTheorems!ExitStates, ServerTheorems!LockedInWait, ServerTheorems!Waitable,
       PS!Commands, PS!ExitStates

(* So whatever updates run, at once or not, no two photons ever do.        *)
THEOREM UpdatesRunOnePhoton == UpdateSpec => []PS!OneLiveChild
<1>1. ServerInv => PS!OneLiveChild
    BY ServerFacts DEF PS!OneLiveChild, PS!Alive
<1> QED
    BY <1>1, ServerInvHolds, PTL

(* When a Stop that waited is back, no photon runs, and the update that    *)
(* called it claims the state and touches the index next.                  *)
THEOREM UpdatesStopPhoton == UpdateSpec => PS!StopLeavesNoChild
<1>1. ServerTheorems!SafetySpec => ServerTheorems!StopLeavesNoChild
    BY ServerAssumptions, ServerTheorems!NoChildAfterStop
<1>2. ServerTheorems!StopLeavesNoChild => PS!StopLeavesNoChild
    BY DEF ServerTheorems!StopLeavesNoChild, PS!StopLeavesNoChild, ServerTheorems!Alive,
           PS!Alive, ServerTheorems!vars, PS!vars
<1> QED
    BY <1>1, <1>2, ServerRuns, PTL

(* A photon killed by a signal and then stopped is down for good: no       *)
(* update, forced or not, and no failure of one brings it back.            *)
THEOREM UpdatesCannotRevive == UpdateSpec => PS!StuckUntilRestart
<1>1. ServerTheorems!SafetySpec => ServerTheorems!StuckUntilRestart
    BY ServerAssumptions, ServerTheorems!OutageLasts
<1>2. ServerTheorems!StuckUntilRestart => PS!StuckUntilRestart
    BY DEF ServerTheorems!StuckUntilRestart, PS!StuckUntilRestart, ServerTheorems!Stuck,
           PS!Stuck, ServerTheorems!SaysAlreadyRunning, PS!SaysAlreadyRunning,
           ServerTheorems!Alive, PS!Alive, ServerTheorems!vars, PS!vars
<1> QED
    BY <1>1, <1>2, ServerRuns, PTL

-----------------------------------------------------------------------------
(* No request runs with another, photon has been started before any, none  *)
(* runs between the stop of one and its start, and what photon serves is   *)
(* what it found and nobody has touched since.                             *)
Alone == ~ overlapped => \A q, r \in InFlight : q = r

Booted == InFlight # {} => cmd # Nil

Stopped == ~ overlapped => \A r \in Requests : pc[r] \in StoppedSteps => ~ PhotonAlive

ServedByPhoton == served # Nil => PhotonAlive

LoneInv == Typed /\ Alone /\ Booted /\ Stopped /\ ServedByPhoton /\ ServesWhatIsOnDisk

LEMMA LoneInit == Init => LoneInv
BY TypedInit
   DEF Init, LoneInv, Alone, Booted, Stopped, StoppedSteps, ServedByPhoton, ServesWhatIsOnDisk,
       InFlight

(* A request that leaves photon alone keeps all of it, and swaps the index *)
(* only while photon is stopped.                                           *)
LEMMA LeavesPhotonStep ==
    ASSUME LoneInv, Typed', NEW r \in Requests, LeavesPhoton(r)
    PROVE  LoneInv' /\ (~ overlapped /\ Swapped => ~ PhotonAlive)
<1> USE DEF LoneInv, Typed, LeavesPhoton, serverVars
<1>1. PhotonAlive' = PhotonAlive
    BY DEF PhotonAlive, PS!Alive
<1>2. InFlight' \subseteq InFlight /\ r \in InFlight
    BY DEF InFlight
<1>3. \A q \in Requests : pc'[q] \in StoppedSteps => pc[q] \in StoppedSteps
    OBVIOUS
<1>4. ~ overlapped /\ Swapped => ~ PhotonAlive
    BY DEF Swapped, Stopped
<1>5. Alone' /\ Booted'
    BY <1>2 DEF Alone, Booted
<1>6. Stopped'
    BY <1>1, <1>3 DEF Stopped
<1>7. ServedByPhoton'
    BY <1>1 DEF ServedByPhoton
<1>8. ServesWhatIsOnDisk'
    BY DEF ServesWhatIsOnDisk, ServedByPhoton, Stopped
<1> QED
    BY <1>4, <1>5, <1>6, <1>7, <1>8

(* Stop leaves no photon, for what it does not wait for is not alive.      *)
LEMMA StopPhotonStep ==
    ASSUME LoneInv, Typed', ServerInv, NEW r \in Requests, StopPhoton(r)
    PROVE  LoneInv'
<1> USE DEF LoneInv, Typed
<1>1. UNCHANGED <<children, served, dir, overlapped>> /\ pc[r] \in {"stop", "stopping"}
    BY DEF StopPhoton, PS!StopNothingToWait, PS!StopBegin, PS!StopReturn, Moves, OnlyServer,
           migratorVars, history
<1>2. \E to \in {"stopping", "claim"} : pc' = [pc EXCEPT ![r] = to]
    BY DEF StopPhoton, Moves
<1>3. pc'[r] = "claim" => ~ PhotonAlive
    <2>1. CASE PS!StopNothingToWait
        BY <2>1, ServerFacts DEF PS!StopNothingToWait, PS!Waitable, PhotonAlive, PS!Alive
    <2>2. CASE PS!StopBegin(r) /\ Moves(r, "stop", "stopping")
        BY <2>2 DEF Moves
    <2>3. CASE PS!StopReturn(r)
        BY <2>3, ServerFacts, ServerConstants DEF PS!StopReturn, PhotonAlive, PS!Alive
    <2> QED
        BY <2>1, <2>2, <2>3 DEF StopPhoton
<1>4. InFlight' = InFlight
    BY <1>1, <1>2 DEF InFlight
<1>5. cmd # Nil => cmd' # Nil
    <2> SUFFICES ASSUME cmd # Nil PROVE cmd' \in PS!Commands
        BY ServerConstants
    <2>1. cmd \in PS!Commands
        BY ServerFacts
    <2>2. CASE PS!StopNothingToWait \/ PS!StopBegin(r)
        BY <2>1, <2>2 DEF PS!StopNothingToWait, PS!StopBegin, PS!Commands
    <2>3. CASE PS!StopReturn(r)
        BY <2>1, <2>3 DEF PS!StopReturn, PS!Commands, PS!ExitStates
    <2> QED
        BY <2>2, <2>3 DEF StopPhoton
<1>6. PhotonAlive' = PhotonAlive
    BY <1>1 DEF PhotonAlive, PS!Alive
<1>7. Alone' /\ Booted'
    BY <1>1, <1>4, <1>5 DEF Alone, Booted
<1>8. Stopped'
    BY <1>1, <1>2, <1>3, <1>6 DEF Stopped, StoppedSteps
<1>9. ServedByPhoton' /\ ServesWhatIsOnDisk'
    BY <1>1, <1>6 DEF ServedByPhoton, ServesWhatIsOnDisk
<1> QED
    BY <1>7, <1>8, <1>9

(* A fork gives a command, for the process or the old command's error.     *)
LEMMA StartGivesCommand ==
    ASSUME ServerInv, cmd # Nil,
           Fork \/ PS!StartNoOp \/ PS!StartFails
    PROVE  cmd' # Nil
<1>1. cmd \in PS!Commands
    BY ServerFacts
<1>2. PS!NewCommand \in PS!Commands
    BY DEF PS!NewCommand, PS!Commands, PS!ExitStates
<1>3. PS!CommandToStart \in PS!Commands
    BY <1>1, <1>2 DEF PS!CommandToStart
<1>4. \A p \in Pids : [PS!CommandToStart EXCEPT !.process = p] \in PS!Commands
    BY <1>3 DEF PS!Commands
<1>5. CASE Fork
    BY <1>4, <1>5, ForkIsLaunch, ServerConstants DEF PS!StartLaunch
<1>6. CASE PS!StartNoOp \/ PS!StartFails
    BY <1>3, <1>6, ServerConstants DEF PS!StartNoOp, PS!StartFails, PS!vars
<1> QED
    BY <1>5, <1>6

LEMMA StartPhotonStep ==
    ASSUME LoneInv, Typed', ServerInv, NEW r \in Requests, StartPhoton(r)
    PROVE  LoneInv'
<1> USE DEF LoneInv, Typed
<1>1. /\ pc[r] = "start" /\ pc' = [pc EXCEPT ![r] = "clean"]
      /\ UNCHANGED <<dir, overlapped>>
    BY DEF StartPhoton, Moves, OnlyServer, migratorVars, history
<1>2. InFlight' = InFlight /\ r \in InFlight
    BY <1>1 DEF InFlight
<1>3. cmd # Nil /\ cmd' # Nil
    BY <1>2, StartGivesCommand DEF Booted, StartPhoton
<1>4. Alone' /\ Booted'
    BY <1>1, <1>2, <1>3 DEF Alone, Booted
<1>5. ~ overlapped => \A q \in Requests : pc'[q] \notin StoppedSteps
    BY <1>1, <1>2 DEF Alone, InFlight, StoppedSteps
<1>6. Stopped'
    BY <1>1, <1>5 DEF Stopped
<1>7. served' = Nil \/ UNCHANGED <<served, children>>
    BY DEF StartPhoton, PS!StartNoOp, PS!StartFails, PS!vars
<1>8. ServedByPhoton' /\ ServesWhatIsOnDisk'
    BY <1>1, <1>7 DEF ServedByPhoton, ServesWhatIsOnDisk, PhotonAlive, PS!Alive
<1> QED
    BY <1>4, <1>6, <1>8

LEMMA BootStep ==
    ASSUME LoneInv, Typed', ServerInv, Boot
    PROVE  LoneInv'
<1> USE DEF LoneInv, Typed
<1>1. cmd = Nil /\ UNCHANGED <<pc, served, dir, overlapped>>
    BY DEF Boot, OnlyServer, migratorVars, history
<1>2. InFlight = {} /\ InFlight' = {}
    BY <1>1 DEF Booted, InFlight
<1>3. \A r \in Requests : pc'[r] \notin StoppedSteps
    BY <1>1, <1>2 DEF InFlight, StoppedSteps
<1>4. served' = Nil
    BY <1>1, ServerFacts DEF ServedByPhoton, PhotonAlive, PS!Alive
<1> QED
    BY <1>2, <1>3, <1>4 DEF Alone, Booted, Stopped, ServedByPhoton, ServesWhatIsOnDisk

LEMMA ArrivesStep ==
    ASSUME LoneInv, Typed', NEW r \in Requests, NEW k \in Kinds, Arrives(r, k)
    PROVE  LoneInv'
<1> USE DEF LoneInv, Typed
<1>1. /\ cmd # Nil /\ UNCHANGED <<cmd, children, served, dir>>
      /\ pc[r] = "new"
      /\ \E to \in Steps \ (StoppedSteps \cup {"new", "over"}) : pc' = [pc EXCEPT ![r] = to]
    BY UpdaterConstants
       DEF Arrives, serverVars, migratorVars, FirstStep, Steps, StoppedSteps, Sequentially
<1>2. ~ overlapped' => ~ overlapped /\ InFlight = {}
    BY Zenon DEF Arrives
<1>3. InFlight' = InFlight \cup {r}
    BY <1>1 DEF InFlight, Steps
<1>4. Alone' /\ Booted'
    BY <1>1, <1>2, <1>3 DEF Alone, Booted
<1>5. \A q \in Requests : pc'[q] \in StoppedSteps => pc[q] \in StoppedSteps
    BY <1>1 DEF StoppedSteps
<1>6. PhotonAlive' = PhotonAlive
    BY <1>1 DEF PhotonAlive, PS!Alive
<1>7. Stopped'
    BY <1>2, <1>5, <1>6 DEF Stopped
<1>8. ServedByPhoton' /\ ServesWhatIsOnDisk'
    BY <1>1, <1>2, <1>6 DEF ServedByPhoton, ServesWhatIsOnDisk
<1> QED
    BY <1>4, <1>7, <1>8

LEMMA PhotonStep ==
    ASSUME LoneInv, Typed', ServerInv, PhotonOpens \/ PhotonDies \/ PhotonKilled \/ AgentCancelled
    PROVE  LoneInv'
<1> USE DEF LoneInv, Typed
<1>1. UNCHANGED <<pc, cmd, overlapped>>
    BY DEF PhotonOpens, PhotonDies, PhotonKilled, AgentCancelled, PS!ChildEnds, PS!WaitDelayKill,
           PS!AgentCancelled, serverVars, requestVars, history
<1>2. Alone' /\ Booted'
    BY <1>1 DEF Alone, Booted, InFlight
<1>3. PhotonAlive' => PhotonAlive
    BY ServerFacts
       DEF PhotonOpens, PhotonDies, PhotonKilled, AgentCancelled, PS!ChildEnds, PS!WaitDelayKill,
           PS!AgentCancelled, serverVars, PhotonAlive, PS!Alive
<1>4. Stopped'
    BY <1>1, <1>3 DEF Stopped
<1>5. PhotonOpens => ServedByPhoton' /\ ServesWhatIsOnDisk'
    BY <1>1
       DEF PhotonOpens, M!PhotonCreatesIndex, M!Places, serverVars, migratorVars, ServedByPhoton,
           ServesWhatIsOnDisk, PhotonAlive, PS!Alive
<1>6. PhotonDies \/ PhotonKilled => ServedByPhoton' /\ ServesWhatIsOnDisk'
    BY DEF PhotonDies, PhotonKilled, ServedByPhoton, ServesWhatIsOnDisk
<1>7. AgentCancelled => ServedByPhoton' /\ ServesWhatIsOnDisk'
    BY <1>1
       DEF AgentCancelled, PS!AgentCancelled, migratorVars, ServedByPhoton, ServesWhatIsOnDisk,
           PhotonAlive, PS!Alive
<1>8. ServedByPhoton' /\ ServesWhatIsOnDisk'
    BY <1>5, <1>6, <1>7, <1>1
<1> QED
    BY <1>2, <1>4, <1>8

LEMMA RestartStep ==
    ASSUME LoneInv, Typed', AgentRestarts
    PROVE  LoneInv'
<1> USE DEF LoneInv, Typed
<1>1. served' = Nil /\ ~ PhotonAlive'
    BY DEF AgentRestarts, PS!AgentRestarts, PhotonAlive, PS!Alive
<1>2. InFlight' = {}
    BY DEF AgentRestarts, InFlight
<1> QED
    BY <1>1, <1>2 DEF Alone, Booted, Stopped, ServedByPhoton, ServesWhatIsOnDisk

(* The step of a swap, and all others.                                     *)
LEMMA LoneStep ==
    ASSUME LoneInv, Typed', ServerInv, [UpdateNext]_vars
    PROVE  LoneInv' /\ (~ overlapped /\ Swapped => ~ PhotonAlive)
<1> DEFINE Goal == LoneInv' /\ (~ overlapped /\ Swapped => ~ PhotonAlive)
<1>1. CASE UNCHANGED vars
    BY <1>1 DEF vars, serverVars, migratorVars, requestVars, history, LoneInv, Alone, Booted,
               Stopped, ServedByPhoton, ServesWhatIsOnDisk, InFlight, PhotonAlive, PS!Alive,
               Swapped
<1>2. ASSUME UpdateNext PROVE Goal
    <2>1. Boot \/ PhotonDies \/ PhotonKilled \/ AgentCancelled \/ AgentRestarts => ~ Swapped
        BY DEF Boot, PhotonDies, PhotonKilled, AgentCancelled, AgentRestarts, OnlyServer,
               M!AgentRestarts, migratorVars, Swapped
    <2>2. PhotonOpens => ~ Swapped
        BY DEF PhotonOpens, M!PhotonCreatesIndex, migratorVars, Swapped, LoneInv, Typed, M!Places
    <2>3. ASSUME NEW r \in Requests, StopPhoton(r) \/ StartPhoton(r) PROVE ~ Swapped
        BY <2>3 DEF StopPhoton, StartPhoton, OnlyServer, migratorVars, Swapped
    <2>4. ASSUME NEW r \in Requests, NEW k \in Kinds, Arrives(r, k) PROVE ~ Swapped
        BY <2>4 DEF Arrives, migratorVars, Swapped
    <2>5. ASSUME NEW r \in Requests, LeavesPhoton(r) PROVE Goal
        BY <2>5, LeavesPhotonStep
    <2>6. Boot => Goal
        BY <2>1, BootStep
    <2>7. PhotonOpens => Goal
        BY <2>2, PhotonStep
    <2>8. PhotonDies \/ PhotonKilled => Goal
        BY <2>1, PhotonStep
    <2>9. AgentCancelled => Goal
        BY <2>1, PhotonStep
    <2>10. AgentRestarts => Goal
        BY <2>1, RestartStep
    <2>11. ASSUME NEW r \in Requests, NEW k \in Kinds, Arrives(r, k) PROVE Goal
        BY <2>4, <2>11, ArrivesStep
    <2>12. ASSUME NEW r \in Requests, StopPhoton(r) PROVE Goal
        BY <2>3, <2>12, StopPhotonStep
    <2>13. ASSUME NEW r \in Requests, StartPhoton(r) PROVE Goal
        BY <2>3, <2>13, StartPhotonStep
    <2> HIDE DEF Goal
    <2>14. Typed
        BY DEF LoneInv
    <2> QED
        BY <1>2, <2>5, <2>6, <2>7, <2>8, <2>9, <2>10, <2>11, <2>12, <2>13, <2>14,
           RequestSteps, NextCases
<1> QED
    BY <1>1, <1>2

LEMMA LoneInvHolds == UpdateSpec => [](LoneInv /\ ServerInv)
<1>1. LoneInv /\ ServerInv /\ [UpdateNext]_vars => LoneInv'
    BY LoneStep, TypedStep DEF LoneInv
<1> QED
    BY <1>1, LoneInit, ServerInvHolds, PTL DEF UpdateSpec

(* A running photon serves the index on the disk as long as no two updates *)
(* have run at once, whatever fails and wherever the agent dies.           *)
THEOREM UpdatesServeTheDisk == UpdateSpec => []ServesWhatIsOnDisk
<1>1. LoneInv => ServesWhatIsOnDisk
    BY DEF LoneInv
<1> QED
    BY <1>1, LoneInvHolds, PTL

(* And the index changes only while no photon runs.                        *)
THEOREM UpdatesSwapWhenStopped == UpdateSpec => LoneSwapWhenStopped
<1>1. LoneInv /\ ServerInv /\ [UpdateNext]_vars => [~ overlapped /\ Swapped => ~ PhotonAlive]_vars
    BY LoneStep, TypedStep DEF LoneInv
<1> QED
    BY <1>1, LoneInvHolds, PTL DEF UpdateSpec, LoneSwapWhenStopped

-----------------------------------------------------------------------------
(* The place of a request in its update gives its place in the migrator.   *)
PhaseInv ==
    \A r \in Requests :
        /\ pc[r] = "migrate" =>
              phase[r] \in IF Sequentially THEN {"removing", "emptying"} ELSE M!ReplacePhases
        /\ pc[r] \in {"fetch", "open", "extract"} =>
              phase[r] = IF Sequentially THEN "removed" ELSE "idle"
        /\ pc[r] = "install" => Sequentially /\ phase[r] \in {"removed", "installed"}
        /\ pc[r] = "check" => phase[r] \in {"idle", "answered"}
        /\ pc[r] = "reset" => phase[r] \in {"idle", "resetting"}
        /\ pc[r] \notin {"migrate", "fetch", "open", "extract", "install", "check", "reset"}
              => phase[r] = "idle"

LEMMA PhaseInvStep == Typed /\ PhaseInv /\ [UpdateNext]_vars => PhaseInv'
<1> SUFFICES ASSUME Typed /\ PhaseInv, [UpdateNext]_vars PROVE PhaseInv'
    OBVIOUS
<1> USE UpdaterConstants
<1> USE DEF Typed, PhaseInv, Moves, Sequentially, M!ReplacePhases
<1>1. CASE UNCHANGED vars
    BY <1>1 DEF vars, migratorVars, requestVars, history
<1>2. CASE UpdateNext
    <2>1. Boot => PhaseInv'
        BY DEF Boot, OnlyServer, migratorVars, history
    <2>2. PhotonOpens => PhaseInv'
        BY DEF PhotonOpens, M!PhotonCreatesIndex, migratorVars, requestVars, history
    <2>3. PhotonDies \/ PhotonKilled => PhaseInv'
        BY DEF PhotonDies, PhotonKilled, migratorVars, requestVars, history
    <2>4. AgentCancelled => PhaseInv'
        BY DEF AgentCancelled, migratorVars, requestVars, history
    <2>5. AgentRestarts => PhaseInv'
        BY DEF AgentRestarts, M!AgentRestarts, InFlight, Littered
    <2>6. ASSUME NEW r \in Requests, NEW k \in Kinds, Arrives(r, k) PROVE PhaseInv'
        BY <2>6 DEF Arrives, FirstStep, migratorVars, history
    <2>7. ASSUME NEW r \in Requests, ForceReset(r) PROVE PhaseInv'
        BY <2>7 DEF ForceReset, OnlyMigrator, M!ResetLocks, M!ResetStores, M!Goes, FirstStep,
               history
    <2>8. ASSUME NEW r \in Requests, CheckMigratability(r) PROVE PhaseInv'
        BY <2>8 DEF CheckMigratability, OnlyMigrator, M!StateAsks, M!StateStores, M!Goes, FirstStep,
               history
    <2>9. ASSUME NEW r \in Requests, StopPhoton(r) PROVE PhaseInv'
        BY <2>9 DEF StopPhoton, OnlyServer, history, migratorVars
    <2>10. ASSUME NEW r \in Requests, StartPhoton(r) PROVE PhaseInv'
        BY <2>10 DEF StartPhoton, OnlyServer, history, migratorVars
    <2>11. ASSUME NEW r \in Requests, Fetch(r) PROVE PhaseInv'
        BY <2>11 DEF Fetch, migratorVars, history
    <2>12. ASSUME NEW r \in Requests, FetchFails(r) PROVE PhaseInv'
        BY <2>12 DEF FetchFails, DropsClosure, M!Abandon, M!OnlyDirs, M!Goes, migratorVars, history
    <2>13. ASSUME NEW r \in Requests, Open(r) PROVE PhaseInv'
        BY <2>13 DEF Open, migratorVars, history
    <2>14. ASSUME NEW r \in Requests, OpenFails(r) PROVE PhaseInv'
        BY <2>14 DEF OpenFails, DropsClosure, M!Abandon, M!OnlyDirs, M!Goes, migratorVars, history
    <2>15. ASSUME NEW r \in Requests, ExtractPart(r) PROVE PhaseInv'
        BY <2>15 DEF ExtractPart, M!TempBecomes, Temp, ForgetSource, AfterExtraction, PartCount,
               history
    <2>16. ASSUME NEW r \in Requests, ExtractFails(r) PROVE PhaseInv'
        BY <2>16 DEF ExtractFails, DropsClosure, M!Abandon, M!OnlyDirs, M!Goes, ForgetSource,
               migratorVars, history
    <2>17. ASSUME NEW r \in Requests, RemoveTempBegins(r) PROVE PhaseInv'
        BY <2>17 DEF RemoveTempBegins, M!TempBecomes, Temp, history
    <2>18. ASSUME NEW r \in Requests, RemoveTempEnds(r) PROVE PhaseInv'
        BY <2>18 DEF RemoveTempEnds, M!TempBecomes, Temp, AfterCleanup, AfterDiscard
    <2>19. ASSUME NEW r \in Requests, RemoveTempFails(r) PROVE PhaseInv'
        BY <2>19 DEF RemoveTempFails, migratorVars, Littered, Temp, AfterCleanup, AfterDiscard
    <2>20. ASSUME NEW r \in Requests, RemoveArchive(r) PROVE PhaseInv'
        BY <2>20 DEF RemoveArchive, migratorVars, history
    <2>21. ASSUME NEW r \in Requests, RemoveArchiveFails(r) PROVE PhaseInv'
        BY <2>21 DEF RemoveArchiveFails, migratorVars, history
    <2>22. ASSUME NEW r \in Requests, Claims(r) PROVE PhaseInv'
        BY <2>22 DEF Claims, OnlyMigrator, M!Claim, M!ClaimRefused, M!Goes, M!vars, history
    <2>23. ASSUME NEW r \in Requests, Removes(r) PROVE PhaseInv'
        BY <2>23 DEF Removes, OnlyMigrator, M!RemoveBegins, M!RemoveEnds, M!RemoveFails,
               M!RemovalBegins, M!RemovalEnds, M!RemovalFails, M!OnlyDirs, M!Goes, history
    <2>24. ASSUME NEW r \in Requests, Installs(r) PROVE PhaseInv'
        BY <2>24 DEF Installs, OnlyMigrator, M!Install, M!InstallFails, M!Finish, M!Rename,
               M!RenameFails, M!CanRename, M!OnlyDirs, M!Goes, history
    <2>25. ASSUME NEW r \in Requests, Replaces(r) PROVE PhaseInv'
        BY <2>25 DEF Replaces, OnlyMigrator, M!MoveAside, M!MoveAsideFails, M!Swap, M!SwapFails,
               M!Restore, M!DropOldBegins, M!DropOldEnds, M!DropOldFails, M!Finish, M!Rename,
               M!RenameFails, M!CanRename, M!RemovalBegins, M!RemovalEnds, M!RemovalFails,
               M!OnlyDirs, M!Goes, history
    <2> QED
        BY <1>2, <2>1, <2>2, <2>3, <2>4, <2>5, <2>6, <2>7, <2>8, <2>9, <2>10, <2>11, <2>12,
           <2>13, <2>14, <2>15, <2>16, <2>17, <2>18, <2>19, <2>20, <2>21, <2>22, <2>23, <2>24,
           <2>25, NextCases
<1> QED
    BY <1>1, <1>2

(* What is in the temp directory: what a removal has left there, unless the *)
(* one request there is has written its own to it and not cleaned up yet.  *)
(* A parallel request extracts before its claim and a sequential one after *)
(* it, so they leave and install what they extracted at different places.  *)
Clean == Temp # Absent => Temp \subseteq litter

Dirty ==
    {"extract", "install", "start", "clean", "cleaning", "discard", "discarding"}
        \cup (IF Sequentially THEN {} ELSE {"stop", "stopping", "claim", "migrate"})

HoldsWhole(p, r) ==
    /\ dir[p] \in Extracted
    /\ Whole(r) \subseteq dir[p]
    /\ dir[p] \subseteq Whole(r) \cup litter

LoneTemp ==
    ~ overlapped =>
        /\ (\A r \in Requests : pc[r] \notin Dirty) => Clean
        /\ \A r \in Requests :
              /\ pc[r] = "open" => archiveFile = r
              /\ pc[r] = "extract" =>
                    /\ source[r] = r
                    /\ written[r] = 0 => Clean
                    /\ written[r] = 1 =>
                          /\ Temp # Absent /\ <<r, 1>> \in Temp
                          /\ Temp \subseteq {<<r, 1>>} \cup litter
              /\ pc[r] = "install" /\ phase[r] = "removed" => HoldsWhole("temp", r)
              /\ ~ Sequentially /\ pc[r] \in {"stop", "stopping", "claim"}
                    => HoldsWhole("temp", r)
              /\ phase[r] \in {"replacing", "aside"} => HoldsWhole("temp", r)
              /\ phase[r] \in {"installed", "swapped", "dropping", "dropped"}
                    => HoldsWhole("node_1", r)
              /\ pc[r] \in {"cleaning", "discarding"} => Temp \in {{}, Absent}

LEMMA LoneTempStep ==
    Typed /\ Alone /\ PlaceInv /\ TempInv /\ PhaseInv /\ LoneTemp /\ [UpdateNext]_vars
        => LoneTemp'
<1> SUFFICES ASSUME Typed /\ Alone /\ PlaceInv /\ TempInv /\ PhaseInv /\ LoneTemp,
                    [UpdateNext]_vars
             PROVE  LoneTemp'
    OBVIOUS
<1> USE UpdaterConstants, ContentConstants
<1> USE DEF Typed, Alone, InFlight, PlaceInv, TempInv, PhaseInv, LoneTemp, Moves, M!Places,
            M!ReplacePhases, Sequentially, Clean, Dirty, HoldsWhole, Temp, Extracted, Whole,
            PartCount, Kinds
<1>1. CASE UNCHANGED vars
    BY <1>1 DEF vars, migratorVars, requestVars, history
<1>2. CASE UpdateNext
    <2>1. Boot => LoneTemp'
        BY DEF Boot, OnlyServer, migratorVars, history
    <2>2. PhotonOpens => LoneTemp'
        BY DEF PhotonOpens, M!PhotonCreatesIndex, migratorVars, requestVars, history
    <2>3. PhotonDies \/ PhotonKilled => LoneTemp'
        BY DEF PhotonDies, PhotonKilled, migratorVars, requestVars, history
    <2>4. AgentCancelled => LoneTemp'
        BY DEF AgentCancelled, migratorVars, requestVars, history
    <2>5. AgentRestarts => LoneTemp'
        BY DEF AgentRestarts, M!AgentRestarts, InFlight, Littered
    <2>6. ASSUME NEW r \in Requests, NEW k \in Kinds, Arrives(r, k) PROVE LoneTemp'
        <3>1. CASE overlapped'
            BY <3>1
        <3>2. CASE ~ overlapped'
            <4>1. ~ overlapped /\ \A q \in Requests : pc[q] \in {"new", "over"}
                BY <2>6, <3>2 DEF Arrives
            <4>2. UNCHANGED <<phase, dir, litter, written>>
                BY <2>6 DEF Arrives, migratorVars
            <4>3. \A q \in Requests : q # r => pc'[q] \in {"new", "over"}
                BY <2>6, <4>1 DEF Arrives
            <4>4. /\ pc'[r] \in {"reset", "check", "stop", "fetch", "extract"}
                  /\ pc'[r] = "stop" => Sequentially
                  /\ pc'[r] = "extract" => source'[r] = r
                BY <2>6, <4>1 DEF Arrives, FirstStep
            <4>5. Clean'
                BY <4>1, <4>2
            <4>6. \A q \in Requests : phase'[q] = "idle"
                BY <4>1, <4>2
            <4>7. \A q \in Requests :
                      /\ pc'[q] \in {"new", "over", "reset", "check", "stop", "fetch", "extract"}
                      /\ pc'[q] = "stop" => Sequentially
                      /\ pc'[q] = "extract" => source'[q] = q /\ written'[q] = 0
                BY <4>1, <4>2, <4>3, <4>4
            <4> HIDE DEF Clean
            <4> QED
                BY <4>5, <4>6, <4>7
        <3> QED
            BY <3>1, <3>2
    <2>7. ASSUME NEW r \in Requests, ForceReset(r) PROVE LoneTemp'
        BY <2>7 DEF ForceReset, OnlyMigrator, M!ResetLocks, M!ResetStores, M!Goes, FirstStep,
               history
    <2>8. ASSUME NEW r \in Requests, CheckMigratability(r) PROVE LoneTemp'
        BY <2>8 DEF CheckMigratability, OnlyMigrator, M!StateAsks, M!StateStores, M!Goes, FirstStep,
               history
    <2>9. ASSUME NEW r \in Requests, StopPhoton(r) PROVE LoneTemp'
        BY <2>9 DEF StopPhoton, OnlyServer, history, migratorVars
    <2>10. ASSUME NEW r \in Requests, StartPhoton(r) PROVE LoneTemp'
        BY <2>10 DEF StartPhoton, OnlyServer, history, migratorVars
    <2>11. ASSUME NEW r \in Requests, Fetch(r) PROVE LoneTemp'
        BY <2>11 DEF Fetch, migratorVars, history
    <2>12. ASSUME NEW r \in Requests, FetchFails(r) PROVE LoneTemp'
        BY <2>12 DEF FetchFails, DropsClosure, M!Abandon, M!OnlyDirs, M!Goes, migratorVars, history
    <2>13. ASSUME NEW r \in Requests, Open(r) PROVE LoneTemp'
        BY <2>13 DEF Open, migratorVars, history
    <2>14. ASSUME NEW r \in Requests, OpenFails(r) PROVE LoneTemp'
        BY <2>14 DEF OpenFails, DropsClosure, M!Abandon, M!OnlyDirs, M!Goes, migratorVars, history
    <2>15. ASSUME NEW r \in Requests, ExtractPart(r) PROVE LoneTemp'
        BY <2>15 DEF ExtractPart, M!TempBecomes, Temp, ForgetSource, AfterExtraction, PartCount,
               history
    <2>16. ASSUME NEW r \in Requests, ExtractFails(r) PROVE LoneTemp'
        BY <2>16 DEF ExtractFails, DropsClosure, M!Abandon, M!OnlyDirs, M!Goes, ForgetSource,
               migratorVars, history
    <2>17. ASSUME NEW r \in Requests, RemoveTempBegins(r) PROVE LoneTemp'
        BY <2>17 DEF RemoveTempBegins, M!TempBecomes, Temp, history
    <2>18. ASSUME NEW r \in Requests, RemoveTempEnds(r) PROVE LoneTemp'
        <3>1. overlapped' = overlapped /\ pc[r] \in {"cleaning", "discarding"}
            BY <2>18 DEF RemoveTempEnds
        <3>2. CASE ~ overlapped
            <4>1. dir'["temp"] = Absent
                BY <2>18, <3>1, <3>2 DEF RemoveTempEnds, M!TempBecomes
            <4>2. pc' \in [Requests -> Steps] /\ pc'[r] \in {"tidy", "over", "clean"}
                BY <2>18 DEF RemoveTempEnds, AfterCleanup, AfterDiscard, Steps
            <4>3. \A q \in Requests : q # r => pc'[q] \in {"new", "over"}
                BY <2>18, <3>1, <3>2 DEF RemoveTempEnds
            <4>4. \A q \in Requests : pc'[q] \in {"new", "over", "tidy", "clean"}
                BY <4>2, <4>3
            <4>5. \A q \in Requests : phase'[q] = "idle"
                BY <2>18, <3>1, <3>2 DEF RemoveTempEnds, M!TempBecomes
            <4> QED
                BY <4>1, <4>4, <4>5
        <3> QED
            BY <3>1, <3>2
    <2>19. ASSUME NEW r \in Requests, RemoveTempFails(r) PROVE LoneTemp'
        BY <2>19 DEF RemoveTempFails, migratorVars, Littered, Temp, AfterCleanup, AfterDiscard
    <2>20. ASSUME NEW r \in Requests, RemoveArchive(r) PROVE LoneTemp'
        BY <2>20 DEF RemoveArchive, migratorVars, history
    <2>21. ASSUME NEW r \in Requests, RemoveArchiveFails(r) PROVE LoneTemp'
        BY <2>21 DEF RemoveArchiveFails, migratorVars, history
    <2>22. ASSUME NEW r \in Requests, Claims(r) PROVE LoneTemp'
        BY <2>22 DEF Claims, OnlyMigrator, M!Claim, M!ClaimRefused, M!Goes, M!vars, history
    <2>23. ASSUME NEW r \in Requests, Removes(r) PROVE LoneTemp'
        BY <2>23 DEF Removes, OnlyMigrator, M!RemoveBegins, M!RemoveEnds, M!RemoveFails,
               M!RemovalBegins, M!RemovalEnds, M!RemovalFails, M!OnlyDirs, M!Goes, history
    <2>24. ASSUME NEW r \in Requests, Installs(r) PROVE LoneTemp'
        BY <2>24 DEF Installs, OnlyMigrator, M!Install, M!InstallFails, M!Finish, M!Rename,
               M!RenameFails, M!CanRename, M!OnlyDirs, M!Goes, history
    <2>25. ASSUME NEW r \in Requests, Replaces(r) PROVE LoneTemp'
        BY <2>25 DEF Replaces, OnlyMigrator, M!MoveAside, M!MoveAsideFails, M!Swap, M!SwapFails,
               M!Restore, M!DropOldBegins, M!DropOldEnds, M!DropOldFails, M!Finish, M!Rename,
               M!RenameFails, M!CanRename, M!RemovalBegins, M!RemovalEnds, M!RemovalFails,
               M!OnlyDirs, M!Goes, history
    <2> HIDE DEF Typed, Alone, PlaceInv, TempInv, PhaseInv, LoneTemp
    <2> QED
        BY <1>2, <2>1, <2>2, <2>3, <2>4, <2>5, <2>6, <2>7, <2>8, <2>9, <2>10, <2>11, <2>12,
           <2>13, <2>14, <2>15, <2>16, <2>17, <2>18, <2>19, <2>20, <2>21, <2>22, <2>23, <2>24,
           <2>25, NextCases
<1> QED
    BY <1>1, <1>2

LEMMA LoneTempInit == Init => PhaseInv /\ LoneTemp
BY DEF Init, M!Init, PhaseInv, LoneTemp, Clean, Dirty, Temp, M!Places

(* What a lone update reports as installed is the whole archive it asked   *)
(* for, and nothing else but what a failed removal left in temp.           *)
THEOREM UpdatesInstallAll == UpdateSpec => []LoneInstallIsWhole
<1> DEFINE Inv == Typed /\ PlaceInv /\ TempInv /\ PhaseInv /\ LoneTemp
<1>1. Init => Inv
    BY TypedInit, PlaceInit, TempInit, LoneTempInit
<1>2. Alone /\ Inv /\ [UpdateNext]_vars => Inv'
    BY TypedStep, PlaceInvStep, TempInvStep, PhaseInvStep, LoneTempStep
<1>3. Inv => LoneInstallIsWhole
    BY DEF PhaseInv, LoneTemp, HoldsWhole, LoneInstallIsWhole, InstalledIsWhole
<1>4. LoneInv => Alone
    BY DEF LoneInv
<1> HIDE DEF Inv
<1> QED
    BY <1>1, <1>2, <1>3, <1>4, LoneInvHolds, PTL DEF UpdateSpec

-----------------------------------------------------------------------------
(* While the agent is up its command has a process, as no fork fails here. *)
(* When that process has been waited for, the state shows it, or somebody  *)
(* is on the way to the claim of the state or to a start: whoever opens    *)
(* the gate starts photon next, or stops it to claim the state.            *)
OutageInv ==
    agent = "up" /\ cmd # Nil =>
        /\ cmd.process # Nil
        /\ cmd.exit = "exited" /\ Unforced
              => state = "migrating" \/ \E q \in Requests : pc[q] \in OnTheWay

(* A start that returns while the agent is up leaves a command that has a  *)
(* process and has not been seen to exit.                                  *)
LEMMA StartedCommand ==
    ASSUME ServerInv, OutageInv, agent' = "up",
           \/ Fork
           \/ cmd # Nil /\ (PS!StartNoOp \/ PS!StartFails)
    PROVE  cmd'.process # Nil /\ cmd'.exit # "exited"
<1> USE DEF OutageInv, PS!CommandToStart, PS!NewCommand
<1>1. cmd # Nil => cmd \in PS!Commands
    BY ServerFacts
<1>2. CASE Fork
    <2>1. PICK p \in Pids : PS!StartLaunch(p)
        BY <1>2, ForkIsLaunch
    <2>2. cmd' = [PS!CommandToStart EXCEPT !.process = p] /\ p # Nil
        BY <2>1, ServerConstants DEF PS!StartLaunch
    <2> QED
        BY <1>1, <2>2 DEF PS!Commands
<1>3. CASE cmd # Nil /\ PS!StartNoOp
    BY <1>3 DEF PS!StartNoOp, PS!SaysAlreadyRunning, PS!vars
<1>4. CASE cmd # Nil /\ PS!StartFails
    <2>1. agent = "up" /\ cmd' = PS!CommandToStart /\ ~ PS!Startable /\ cmd.process # Nil
        BY <1>4 DEF PS!StartFails
    <2> QED
        BY <2>1 DEF PS!Startable
<1> QED
    BY <1>2, <1>3, <1>4

LEMMA OutageStep == LoneInv /\ ServerInv /\ OutageInv /\ [UpdateNext]_vars => OutageInv'
<1> SUFFICES ASSUME LoneInv /\ ServerInv /\ OutageInv, [UpdateNext]_vars PROVE OutageInv'
    OBVIOUS
<1> USE UpdaterConstants
<1>. Typed
    BY DEF LoneInv
<1>1. CASE UNCHANGED vars
    BY <1>1 DEF vars, serverVars, migratorVars, requestVars, OutageInv, Unforced
<1>2. CASE UpdateNext
    <2>1. Boot => OutageInv'
        <3> SUFFICES ASSUME Boot, agent' = "up" PROVE cmd'.process # Nil /\ cmd'.exit # "exited"
            BY DEF OutageInv
        <3> QED
            BY StartedCommand DEF Boot
    <2>2. PhotonOpens => OutageInv'
        BY DEF PhotonOpens, M!PhotonCreatesIndex, serverVars, migratorVars, requestVars, OutageInv,
               Unforced
    <2>3. PhotonDies \/ PhotonKilled => OutageInv'
        BY DEF PhotonDies, PhotonKilled, PS!ChildEnds, PS!WaitDelayKill, migratorVars,
               requestVars, OutageInv, Unforced
    <2>4. AgentCancelled => OutageInv'
        BY DEF AgentCancelled, PS!AgentCancelled, OutageInv
    <2>5. AgentRestarts => OutageInv'
        BY DEF AgentRestarts, PS!AgentRestarts, OutageInv
    <2>6. ASSUME NEW r \in Requests, NEW k \in Kinds, Arrives(r, k) PROVE OutageInv'
        <3>1. /\ UNCHANGED <<cmd, agent, state, resets>>
              /\ \E to \in Steps : pc' = [pc EXCEPT ![r] = to]
              /\ pc[r] = "new"
            BY <2>6 DEF Arrives, FirstStep, Steps, serverVars, migratorVars
        <3> QED
            BY <3>1 DEF OutageInv, OnTheWay, Unforced, Typed
    <2>7. ASSUME NEW r \in Requests, StopPhoton(r) PROVE OutageInv'
        <3>1. agent' = agent /\ cmd # Nil
            BY <2>7, ServerFacts, ServerConstants
               DEF StopPhoton, PS!StopNothingToWait, PS!StopBegin, PS!StopReturn
        <3>2. pc'[r] \in OnTheWay
            BY <2>7 DEF StopPhoton, Moves, OnTheWay, Typed
        <3>3. cmd \in PS!Commands
            BY <3>1, ServerFacts
        <3>4. cmd'.process = cmd.process
            BY <2>7, <3>3
               DEF StopPhoton, PS!StopNothingToWait, PS!StopBegin, PS!StopReturn, PS!Commands
        <3> QED
            BY <3>1, <3>2, <3>4 DEF OutageInv
    <2>8. ASSUME NEW r \in Requests, StartPhoton(r) PROVE OutageInv'
        <3>1. pc' = [pc EXCEPT ![r] = "clean"] /\ pc[r] = "start"
            BY <2>8 DEF StartPhoton, Moves
        <3>2. ASSUME agent' = "up", cmd' # Nil PROVE cmd'.process # Nil /\ cmd'.exit # "exited"
            <4>1. cmd # Nil
                BY <3>1 DEF LoneInv, Booted, InFlight
            <4> QED
                BY <2>8, <3>2, <4>1, StartedCommand DEF StartPhoton
        <3> QED
            BY <3>2 DEF OutageInv
    <2>9. ASSUME NEW r \in Requests, LeavesPhoton(r) PROVE OutageInv'
        BY <2>9 DEF LeavesPhoton, OutageInv, Typed, serverVars
    <2> QED
        BY <1>2, <2>1, <2>2, <2>3, <2>4, <2>5, <2>6, <2>7, <2>8, <2>9, RequestSteps, NextCases
<1> QED
    BY <1>1, <1>2

(* A photon that updates have left stopped shows in the status, for any    *)
(* number of requests, at once or not, with every failure, and with every  *)
(* reset of a sequential update.                                           *)
THEOREM UpdatesShowOutage == UpdateSpec => []StatusShowsOutage
<1>1. Init => OutageInv
    BY DEF Init, PS!Init, OutageInv
<1>2. ServerInv /\ OutageInv => StatusShowsOutage
    <2> SUFFICES ASSUME ServerInv, OutageInv, Quiet, agent = "up", cmd # Nil,
                        state # "migrating", Strategy = "parallel" => resets = 0
                 PROVE  PS!Waitable \/ cmd.exit = "signaled"
        BY DEF StatusShowsOutage
    <2>1. cmd.exit \in {"none", "exited", "signaled"}
        BY ServerFacts DEF PS!Commands, PS!ExitStates
    <2>2. \A q \in Requests : pc[q] \notin OnTheWay
        BY DEF Quiet, OnTheWay
    <2>3. Unforced
        BY UpdaterConstants DEF Unforced, Sequentially
    <2> QED
        BY <2>1, <2>2, <2>3 DEF OutageInv, PS!Waitable
<1> QED
    BY <1>1, <1>2, OutageStep, LoneInvHolds, PTL DEF UpdateSpec

-----------------------------------------------------------------------------
(* What photon serves and what a removal leaves has its type because what  *)
(* the directories hold has.                                               *)
Counted ==
    /\ served \in M!Contents \cup {Nil}
    /\ litter \in Extracted
    /\ restarts \in 0..MaxRestarts

LEMMA CountedStep == Typed /\ M!TypeOK /\ TempInv /\ Counted /\ [UpdateNext]_vars => Counted'
<1> SUFFICES ASSUME Typed, M!TypeOK, TempInv, Counted, [UpdateNext]_vars PROVE Counted'
    OBVIOUS
<1> USE UpdaterConstants DEF Counted
<1>1. CASE UNCHANGED vars
    BY <1>1 DEF vars, history
<1>2. CASE UpdateNext
    <2>1. Littered \in Extracted /\ {} \in Extracted
        BY DEF TempInv, Littered, Temp, Extracted
    <2>2. Boot => Counted'
        BY DEF Boot, OnlyServer, history
    <2>3. PhotonOpens => Counted'
        BY DEF PhotonOpens, M!TypeOK, M!Places, M!Contents, history
    <2>4. PhotonDies \/ PhotonKilled => Counted'
        BY DEF PhotonDies, PhotonKilled, history
    <2>5. AgentCancelled => Counted'
        BY DEF AgentCancelled, history
    <2>6. AgentRestarts => Counted'
        BY <2>1 DEF AgentRestarts
    <2>7. ASSUME NEW r \in Requests, NEW k \in Kinds, Arrives(r, k) PROVE Counted'
        BY <2>7 DEF Arrives
    <2>8. ASSUME NEW r \in Requests, StopPhoton(r) \/ StartPhoton(r) PROVE Counted'
        BY <2>8 DEF StopPhoton, StartPhoton, OnlyServer, history
    <2>9. ASSUME NEW r \in Requests, LeavesPhoton(r) PROVE Counted'
        BY <2>1, <2>9 DEF LeavesPhoton
    <2> QED
        BY <1>2, <2>2, <2>3, <2>4, <2>5, <2>6, <2>7, <2>8, <2>9, RequestSteps, NextCases
<1> QED
    BY <1>1, <1>2

LEMMA OverlappedStep == Typed /\ overlapped \in BOOLEAN /\ [UpdateNext]_vars => overlapped' \in BOOLEAN
<1> SUFFICES ASSUME Typed, overlapped \in BOOLEAN, [UpdateNext]_vars PROVE overlapped' \in BOOLEAN
    OBVIOUS
<1>1. CASE UNCHANGED vars
    BY <1>1 DEF vars, history
<1>2. CASE UpdateNext
    <2>1. Boot => overlapped' = overlapped
        BY DEF Boot, OnlyServer, history
    <2>2. PhotonOpens => overlapped' = overlapped
        BY DEF PhotonOpens, history
    <2>3. PhotonDies \/ PhotonKilled => overlapped' = overlapped
        BY DEF PhotonDies, PhotonKilled, history
    <2>4. AgentCancelled \/ AgentRestarts => overlapped' = overlapped
        BY DEF AgentCancelled, AgentRestarts, history
    <2>5. ASSUME NEW r \in Requests, NEW k \in Kinds, Arrives(r, k) PROVE overlapped' \in BOOLEAN
        BY <2>5, Zenon DEF Arrives
    <2>6. ASSUME NEW r \in Requests, StopPhoton(r) \/ StartPhoton(r) PROVE overlapped' = overlapped
        BY <2>6 DEF StopPhoton, StartPhoton, OnlyServer, history
    <2>7. ASSUME NEW r \in Requests, LeavesPhoton(r) PROVE overlapped' = overlapped
        BY <2>7 DEF LeavesPhoton
    <2> QED
        BY <1>2, <2>1, <2>2, <2>3, <2>4, <2>5, <2>6, <2>7, RequestSteps, NextCases
<1> QED
    BY <1>1, <1>2

(* Type correctness of the updates with the components they are made of.   *)
THEOREM UpdatesTyped == UpdateSpec => []TypeOK
<1> DEFINE Inv == Typed /\ PlaceInv /\ TempInv /\ Counted /\ overlapped \in BOOLEAN
<1>1. Init => Inv
    <2>1. Init => Counted
        BY UpdaterConstants DEF Init, Counted, Extracted
    <2> QED
        BY <2>1, TypedInit, PlaceInit, TempInit DEF Init
<1>2. M!TypeOK /\ Inv /\ [UpdateNext]_vars => Inv'
    BY TypedStep, PlaceInvStep, TempInvStep, CountedStep, OverlappedStep
<1>3. ServerInv => PS!TypeOK
    BY DEF ServerInv, ServerTheorems!CommandInv, ServerTheorems!TypeOK, PS!TypeOK,
           ServerTheorems!Commands, PS!Commands, ServerTheorems!ExitStates, PS!ExitStates
<1>4. PS!TypeOK /\ M!TypeOK /\ Inv => TypeOK
    BY DEF TypeOK, Typed, Counted, PartCount
<1> HIDE DEF Inv
<1> QED
    BY <1>1, <1>2, <1>3, <1>4, ServerInvHolds, MigratorTyped, PTL DEF UpdateSpec

=============================================================================
