----------------------- MODULE ParallelUpdaterProofs ------------------------
(***************************************************************************)
(* The strategy "parallel", for any number of requests, processes, resets  *)
(* and restarts: its steps are those UpdateStepsProofs is about, so what   *)
(* is proved there holds of it.  One result is about this strategy only:   *)
(* an extracted index is never lost.                                       *)
(***************************************************************************)
EXTENDS ParallelUpdater, UpdateStepsProofs

LEMMA StepsAreShared == [Next]_vars => [UpdateNext]_vars
BY ParallelAssumption
   DEF Next, Step, ClaimState, ReplaceIndex,
       UpdateNext, Claims, Replaces, Sequentially

LEMMA ParallelRuns == Spec => UpdateSpec
BY StepsAreShared, PTL DEF Spec, UpdateSpec

(* Every step of a parallel update is one of the manager or leaves         *)
(* it alone: the updates start and stop photon by Start and Stop only.     *)
THEOREM UsesPhotonServer == Spec => ImplementsPhotonServer
BY ParallelRuns, UpdatesUsePhotonServer, PTL

(* Every step is one of the migrator or leaves it alone.                   *)
THEOREM UsesMigrator == Spec => ImplementsMigrator
BY ParallelRuns, UpdatesUseMigrator, PTL

(* Types of the updates, of the manager and of the migrator together.      *)
THEOREM TypeCorrect == Spec => []TypeOK
BY ParallelRuns, UpdatesTyped, PTL

(* A running photon serves the index on the disk as long as no two updates *)
(* have run at once, whatever fails and wherever the agent dies.           *)
THEOREM LoneUpdatesServeTheDisk == Spec => []ServesWhatIsOnDisk
BY ParallelRuns, UpdatesServeTheDisk, PTL

(* And the index changes only while no photon runs.                        *)
THEOREM LoneUpdatesSwapWhenStopped == Spec => LoneSwapWhenStopped
BY ParallelRuns, UpdatesSwapWhenStopped, PTL

(* What a lone update reports as installed is the whole archive it asked   *)
(* for, and nothing else but what a failed removal left in temp.           *)
THEOREM LoneUpdatesInstallAll == Spec => []LoneInstallIsWhole
BY ParallelRuns, UpdatesInstallAll, PTL

(* A photon that updates have left stopped shows in the status, for any    *)
(* number of requests, at once or not.                                     *)
THEOREM OutageShows == Spec => []StatusShowsOutage
BY ParallelRuns, UpdatesShowOutage, PTL

(* Once node_1 or node_1.old is what an extraction made, one of the two is *)
(* such at every later moment, and never both of them missing, emptied by  *)
(* photon or half removed: whatever fails, wherever the agent dies and     *)
(* however many updates run at once.                                       *)
THEOREM ParallelUpdatesKeepTheIndex == Spec => M!IndexSurvives
BY ParallelRuns, UpdatesKeepTheIndex, PTL
=============================================================================
