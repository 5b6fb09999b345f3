------------------------- MODULE SequentialUpdater -------------------------
(***************************************************************************)
(* The update strategy "sequential": internal/updater/sequential.go.       *)
(*                                                                         *)
(* Photon is stopped, the state claimed and the index removed; then the    *)
(* archive is extracted (after its download, if it is not uploaded) and    *)
(* moved into place, the state set to migrated and photon started.  Only   *)
(* the part from the claim to the report is behind the migration state:    *)
(* the stop before it, and the start and the cleanup after it, are not.    *)
(***************************************************************************)
EXTENDS UpdateSteps

ASSUME SequentialAssumption == Strategy = "sequential"

(* Mutants: a request goes on although it was refused; the index is        *)
(* removed and replaced before photon is stopped.                          *)
ClaimStateAnyway(r) ==
    /\ \/ M!Claim(r) /\ Moves(r, "claim", "migrate")
       \/ /\ state = "migrating"
          /\ M!Goes(r, {"idle"}, "removing")
          /\ M!OnlyDirs
          /\ UNCHANGED dir
          /\ Moves(r, "claim", "migrate")
    /\ OnlyMigrator

ClaimStateFirst(r) ==
    /\ \/ M!Claim(r) /\ Moves(r, "stop", "migrate")
       \/ M!ClaimRefused(r) /\ Moves(r, "stop", "over")
    /\ OnlyMigrator

(* Refused, the request returns and leaves photon stopped.                 *)
ClaimState(r) ==
    /\ \/ M!Claim(r) /\ Moves(r, "claim", "migrate")
       \/ M!ClaimRefused(r) /\ Moves(r, "claim", "over")
    /\ OnlyMigrator

AfterRemoval(r) == IF kind[r] = "download" THEN "fetch" ELSE "extract"

(* MigrateByRemoveFirst up to its return of the closure.                   *)
RemoveIndex(r) ==
    /\ \/ M!RemoveBegins(r) /\ Moves(r, "migrate", "migrate")
       \/ M!RemoveEnds(r) /\ Moves(r, "migrate", AfterRemoval(r))
       \/ M!RemoveFails(r) /\ Moves(r, "migrate", "over")
    /\ OnlyMigrator

(* Mutant: the state is set to migrated on the way out of a failure, too.  *)
RunMigrationResetsOnError(r) ==
    /\ \/ M!Install(r) /\ Moves(r, "install", "install")
       \/ /\ M!Goes(r, {"removed"}, "idle")
          /\ state' = "migrated"
          /\ UNCHANGED <<strategy, stateMutex, cachedModTime, answer, dir, resets>>
          /\ Moves(r, "install", "clean")
       \/ M!Finish(r) /\ Moves(r, "install", "start")
    /\ OnlyMigrator

(* The closure; photon is started only if it succeeds.                     *)
RunMigration(r) ==
    /\ \/ M!Install(r) /\ Moves(r, "install", "install")
       \/ M!InstallFails(r) /\ Moves(r, "install", "clean")
       \/ M!Finish(r) /\ Moves(r, "install", "start")
    /\ OnlyMigrator

Step(r) ==
    \/ SharedStep(r)
    \/ ClaimState(r) \/ RemoveIndex(r) \/ RunMigration(r)

Next == Photon \/ Agent \/ \E r \in Requests : (\E k \in Kinds : Arrives(r, k)) \/ Step(r)

(* Goroutines keep running, downloads and uploads come to an end, photon's *)
(* answer to a reset comes, and the kill after WaitDelay happens.          *)
Fairness ==
    /\ \A r \in Requests : WF_vars(Step(r))
    /\ WF_vars(PhotonKilled)

Spec == Init /\ [][Next]_vars /\ Fairness
=============================================================================
