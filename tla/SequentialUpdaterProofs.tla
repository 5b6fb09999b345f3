---------------------- MODULE SequentialUpdaterProofs -----------------------
(***************************************************************************)
(* The strategy "sequential", for any number of requests, processes,       *)
(* resets and restarts: its steps are those UpdateStepsProofs is about, so *)
(* what is proved there holds of it.                                       *)
(***************************************************************************)
EXTENDS SequentialUpdater, UpdateStepsProofs

LEMMA StepsAreShared == [Next]_vars => [UpdateNext]_vars
BY SequentialAssumption
   DEF Next, Step, ClaimState, RemoveIndex, RunMigration, AfterRemoval,
       UpdateNext, Claims, Removes, Installs, Sequentially

LEMMA SequentialRuns == Spec => UpdateSpec
BY StepsAreShared, PTL DEF Spec, UpdateSpec

(* Every step of a sequential update is one of the manager or leaves       *)
(* it alone: the updates start and stop photon by Start and Stop only.     *)
THEOREM UsesPhotonServer == Spec => ImplementsPhotonServer
BY SequentialRuns, UpdatesUsePhotonServer, PTL

(* Every step is one of the migrator or leaves it alone.                   *)
THEOREM UsesMigrator == Spec => ImplementsMigrator
BY SequentialRuns, UpdatesUseMigrator, PTL

(* Types of the updates, of the manager and of the migrator together.      *)
THEOREM TypeCorrect == Spec => []TypeOK
BY SequentialRuns, UpdatesTyped, PTL

(* A running photon serves the index on the disk as long as no two updates *)
(* have run at once, whatever fails and wherever the agent dies.           *)
THEOREM LoneUpdatesServeTheDisk == Spec => []ServesWhatIsOnDisk
BY SequentialRuns, UpdatesServeTheDisk, PTL

(* And the index changes only while no photon runs.                        *)
THEOREM LoneUpdatesSwapWhenStopped == Spec => LoneSwapWhenStopped
BY SequentialRuns, UpdatesSwapWhenStopped, PTL

(* What a lone update reports as installed is the whole archive it asked   *)
(* for, and nothing else but what a failed removal left in temp.           *)
THEOREM LoneUpdatesInstallAll == Spec => []LoneInstallIsWhole
BY SequentialRuns, UpdatesInstallAll, PTL

(* A photon that updates have left stopped shows in the status, for any    *)
(* number of requests, at once or not.                                     *)
THEOREM OutageShows == Spec => []StatusShowsOutage
BY SequentialRuns, UpdatesShowOutage, PTL
=============================================================================
