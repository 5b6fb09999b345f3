-------------------------- MODULE ParallelUpdater --------------------------
(***************************************************************************)
(* The update strategy "parallel": internal/updater/parallel.go.           *)
(*                                                                         *)
(* The archive is extracted (after its download, if it is not uploaded)    *)
(* while photon runs; restartPhotonServer then stops photon, replaces the  *)
(* index by MigrateByReplace and starts photon.  Only MigrateByReplace is  *)
(* behind the migration state: two requests extract into the same temp     *)
(* directory at the same time, and each cleans it up when it ends.         *)
(***************************************************************************)
EXTENDS UpdateSteps

ASSUME ParallelAssumption == Strategy = "parallel"

(* Mutants: photon is not stopped before the replacement; a request goes   *)
(* on although it was refused.                                             *)
ClaimStateFirst(r) ==
    /\ \/ M!Claim(r) /\ Moves(r, "stop", "migrate")
       \/ M!ClaimRefused(r) /\ Moves(r, "stop", "clean")
    /\ OnlyMigrator

ClaimStateAnyway(r) ==
    /\ \/ M!Claim(r) /\ Moves(r, "claim", "migrate")
       \/ /\ state = "migrating"
          /\ M!Goes(r, {"idle"}, "replacing")
          /\ M!OnlyDirs
          /\ UNCHANGED dir
          /\ Moves(r, "claim", "migrate")
    /\ OnlyMigrator

(* Refused, the request cleans up and leaves photon stopped.               *)
ClaimState(r) ==
    /\ \/ M!Claim(r) /\ Moves(r, "claim", "migrate")
       \/ M!ClaimRefused(r) /\ Moves(r, "claim", "clean")
    /\ OnlyMigrator

(* Mutant: the state is set to migrated on the way out of a failure, too.  *)
ReplaceIndexResetsOnError(r) ==
    /\ \/ /\ \/ M!MoveAside(r) \/ M!Swap(r) \/ M!SwapFails(r)
             \/ M!DropOldBegins(r) \/ M!DropOldEnds(r) \/ M!DropOldFails(r)
          /\ Moves(r, "migrate", "migrate")
       \/ /\ M!Goes(r, {"replacing", "restoring"}, "idle")
          /\ state' = "migrated"
          /\ UNCHANGED <<strategy, stateMutex, cachedModTime, answer, dir, resets>>
          /\ Moves(r, "migrate", "clean")
       \/ M!Finish(r) /\ Moves(r, "migrate", "start")
    /\ OnlyMigrator

(* MigrateByReplace after its claim; photon is started only if it succeeds.*)
ReplaceIndex(r) ==
    /\ \/ /\ \/ M!MoveAside(r) \/ M!Swap(r) \/ M!SwapFails(r)
             \/ M!DropOldBegins(r) \/ M!DropOldEnds(r) \/ M!DropOldFails(r)
          /\ Moves(r, "migrate", "migrate")
       \/ (M!MoveAsideFails(r) \/ M!Restore(r)) /\ Moves(r, "migrate", "clean")
       \/ M!Finish(r) /\ Moves(r, "migrate", "start")
    /\ OnlyMigrator

Step(r) ==
    \/ SharedStep(r)
    \/ ClaimState(r) \/ ReplaceIndex(r)

Next == Photon \/ Agent \/ \E r \in Requests : (\E k \in Kinds : Arrives(r, k)) \/ Step(r)

(* As in SequentialUpdater.                                                *)
Fairness ==
    /\ \A r \in Requests : WF_vars(Step(r))
    /\ WF_vars(PhotonKilled)

Spec == Init /\ [][Next]_vars /\ Fairness
=============================================================================
