---------------------------- MODULE UpdateSteps ----------------------------
(***************************************************************************)
(* What the two update strategies of internal/updater have in common: the  *)
(* requests and how they come in, the photon manager (PhotonServer) and    *)
(* the migrator (Migrator) they share, the download and the extraction to  *)
(* the shared paths photon-db.tar.bz2 and temp, the cleanup of both, and   *)
(* photon itself.  SequentialUpdater and ParallelUpdater extend this       *)
(* module and put the steps in their own order.                            *)
(*                                                                         *)
(* A request is an upload (UpdateAsync) or a download (DownloadAndUpdate)  *)
(* and runs in a goroutine of its own.  Nothing but the migration state    *)
(* and the mutex of PhotonServer keeps two requests apart.                 *)
(*                                                                         *)
(* What is extracted is a set of parts <<r, k>>: file k of the archive     *)
(* that request r asks for.  Two parts are enough to tell a whole index    *)
(* from a partial and from a mixed one.                                    *)
(***************************************************************************)
EXTENDS Naturals, FiniteSets

CONSTANTS
    Strategy,       \* "sequential" or "parallel"
    Requests,       \* update requests, each made once
    Pids,           \* processes: one for main and one for each request
    Nil,
    Blank,          \* the index there before the first update, or an empty one
    Broken, Absent,
    Times, NoTime,  \* import dates photon can report, and the zero time
    FsMayFail,      \* whether the migrator's system calls can fail
    InputMayFail,   \* whether a download or an archive can be bad
    MaxInFlight,    \* requests the operator lets run at once
    MaxResets,      \* bound on forced requests
    MaxRestarts     \* bound on ends of the agent

ASSUME UpdaterConstants ==
    /\ Strategy \in {"sequential", "parallel"}
    /\ FsMayFail \in BOOLEAN /\ InputMayFail \in BOOLEAN
    /\ MaxInFlight \in Nat /\ MaxResets \in Nat /\ MaxRestarts \in Nat

VARIABLES
    serverMutex, cmd, children, agent,  \* PhotonServer
    strategy, state, stateMutex, cachedModTime, phase, answer, dir, resets, \* Migrator
    pc,             \* where each request is in its update
    kind,           \* upload or download
    archiveFile,    \* whose archive photon-db.tar.bz2 is
    source,         \* whose archive each request is reading
    written,        \* how many parts each request has extracted
    served,         \* the content photon opened, Nil until it has
    litter,         \* history: what was left in temp by a removal that failed
                    \* or never came
    overlapped,     \* history: whether two requests have run at once
    restarts        \* history: how often the agent was started anew

serverVars == <<serverMutex, cmd, children, agent>>
migratorVars == <<strategy, state, stateMutex, cachedModTime, phase, answer, dir, resets>>
requestVars == <<pc, kind, archiveFile, source, written>>
history == <<litter, overlapped, restarts>>
vars == <<serverVars, migratorVars, requestVars, served, history>>

PartCount == 2
Extracted == SUBSET (Requests \X (1..PartCount))
Whole(r) == {r} \X (1..PartCount)

Kinds == {"upload", "download"}

PS == INSTANCE PhotonServer WITH Callers <- Requests, ForkMayFail <- FALSE

ASSUME ServerConstants == Nil \notin Requests \cup Pids \cup PS!Commands
ASSUME ContentConstants ==
    /\ \A x \in Extracted : x \notin {Blank, Broken, Absent}
    /\ Blank # Broken /\ Blank # Absent /\ Broken # Absent

M == INSTANCE Migrator
        WITH Callers <- Requests, Archives <- Extracted,
             Strategies <- {Strategy}

Steps == {"new", "reset", "check", "stop", "stopping", "claim", "migrate", "fetch", "open",
          "extract", "discard", "discarding", "install", "start",
          "clean", "cleaning", "tidy", "over"}

TypeOK ==
    /\ PS!TypeOK
    /\ M!TypeOK
    /\ pc \in [Requests -> Steps]
    /\ kind \in [Requests -> Kinds \cup {Nil}]
    /\ archiveFile \in Requests \cup {Absent}
    /\ source \in [Requests -> Requests \cup {Nil}]
    /\ written \in [Requests -> 0..PartCount]
    /\ served \in M!Contents \cup {Nil}
    /\ litter \in Extracted
    /\ overlapped \in BOOLEAN
    /\ restarts \in 0..MaxRestarts

Init ==
    /\ PS!Init
    /\ M!Init
    /\ dir["node_1"] \in {Absent, Blank, Broken}
    /\ pc = [r \in Requests |-> "new"]
    /\ kind = [r \in Requests |-> Nil]
    /\ archiveFile = Absent
    /\ source = [r \in Requests |-> Nil]
    /\ written = [r \in Requests |-> 0]
    /\ served = Nil
    /\ litter = {}
    /\ overlapped = FALSE
    /\ restarts = 0

InFlight == {r \in Requests : pc[r] \notin {"new", "over"}}

(* A request that is over is forgotten.                                    *)
Moves(r, from, to) ==
    /\ pc[r] = from
    /\ pc' = [pc EXCEPT ![r] = to]
    /\ kind' = [kind EXCEPT ![r] = IF to = "over" THEN Nil ELSE @]

OnlyServer == UNCHANGED <<migratorVars, archiveFile, source, written, history>>
OnlyMigrator ==
    UNCHANGED <<serverVars, archiveFile, source, written, served, history>>

-----------------------------------------------------------------------------
(* Start forks a process.  Which one does not matter: a fresh one is chosen. *)
Fork ==
    /\ \E p \in Pids : children[p] = "unborn"
    /\ PS!StartLaunch(CHOOSE p \in Pids : children[p] = "unborn")

(* main starts photon before it listens.                                   *)
Boot ==
    /\ cmd = Nil
    /\ Fork
    /\ OnlyServer
    /\ UNCHANGED <<pc, kind, served>>

(* A sequential update begins with the stop, a parallel one with its input.*)
FirstStep(k) ==
    IF Strategy = "sequential" THEN "stop"
    ELSE IF k = "download" THEN "fetch" ELSE "extract"

Forced == {r \in Requests : pc[r] = "reset"}

(* A request comes in.  A forced one resets the migration state first; a   *)
(* download that is not forced is checked to be worth its while.           *)
Arrives(r, k) ==
    /\ cmd # Nil /\ agent = "up"
    /\ Cardinality(InFlight) < MaxInFlight
    /\ pc[r] = "new"
    /\ \/ pc' = [pc EXCEPT ![r] = IF k = "download" THEN "check" ELSE FirstStep(k)]
       \/ /\ resets + Cardinality(Forced) < MaxResets
          /\ pc' = [pc EXCEPT ![r] = "reset"]
    /\ kind' = [kind EXCEPT ![r] = k]
    /\ source' = [source EXCEPT ![r] = IF k = "upload" THEN r ELSE Nil]
    /\ overlapped' = (overlapped \/ InFlight # {})
    /\ UNCHANGED <<serverVars, migratorVars, archiveFile, written, served, litter, restarts>>

ForceReset(r) ==
    /\ \/ M!ResetLocks(r) /\ Moves(r, "reset", "reset")
       \/ M!ResetStores(r) /\ Moves(r, "reset", FirstStep(kind[r]))
    /\ OnlyMigrator

PhotonAlive == \E p \in Pids : PS!Alive(p)

(* checkMigratability asks for the state, which gives the import date last *)
(* heard of, and compares that date with the archive's.  Without a date    *)
(* every archive is newer; a photon that does not run gives none.          *)
CheckMigratability(r) ==
    /\ \/ /\ \E t \in Times \cup {NoTime} :
                 (t # NoTime => PhotonAlive) /\ M!StateAsks(r, t)
          /\ Moves(r, "check", "check")
       \/ /\ M!StateStores(r)
          /\ \/ Moves(r, "check", FirstStep(kind[r]))
             \/ /\ cachedModTime' # NoTime \/ InputMayFail \/ agent = "stopping"
                /\ Moves(r, "check", "over")
    /\ OnlyMigrator

(* Mutant: the stop does not wait for photon.                              *)
StopWithoutWait(r) ==
    /\ Moves(r, "stop", "claim")
    /\ cmd' = [cmd EXCEPT !.cancelled = TRUE]
    /\ UNCHANGED <<serverMutex, children, agent, served>>
    /\ OnlyServer

StopPhoton(r) ==
    /\ \/ PS!StopNothingToWait /\ Moves(r, "stop", "claim")
       \/ PS!StopBegin(r) /\ Moves(r, "stop", "stopping")
       \/ PS!StopReturn(r) /\ Moves(r, "stopping", "claim")
    /\ OnlyServer
    /\ UNCHANGED served

(* Mutant: photon is started by a new command whatever became of the last. *)
StartAfresh(r) ==
    /\ Moves(r, "start", "clean")
    /\ \E p \in Pids :
          /\ children[p] = "unborn"
          /\ cmd' = [PS!NewCommand EXCEPT !.process = p]
          /\ children' = [children EXCEPT ![p] = "alive"]
    /\ served' = Nil
    /\ UNCHANGED <<serverMutex, agent>>
    /\ OnlyServer

StartPhoton(r) ==
    /\ Moves(r, "start", "clean")
    /\ \/ Fork /\ served' = Nil
       \/ (PS!StartNoOp \/ PS!StartFails) /\ UNCHANGED served
    /\ OnlyServer

-----------------------------------------------------------------------------
(* A return with an error leaves the closure of MigrateByRemoveFirst, which *)
(* only a sequential request holds, uncalled.                              *)
DropsClosure(r) ==
    IF Strategy = "sequential" THEN M!Abandon(r) ELSE UNCHANGED migratorVars

(* Download to the shared path.  A failed one leaves what is there, and    *)
(* the removal of the archive is not deferred yet.                         *)
Fetch(r) ==
    /\ Moves(r, "fetch", "open")
    /\ archiveFile' = r
    /\ UNCHANGED <<serverVars, migratorVars, source, written, served, history>>

FetchFails(r) ==
    /\ InputMayFail \/ agent = "stopping"
    /\ Moves(r, "fetch", "over")
    /\ DropsClosure(r)
    /\ UNCHANGED <<serverVars, archiveFile, source, written, served, history>>

(* The file opened is whatever is there by then.                           *)
Open(r) ==
    /\ archiveFile # Absent
    /\ Moves(r, "open", "extract")
    /\ source' = [source EXCEPT ![r] = archiveFile]
    /\ UNCHANGED <<serverVars, migratorVars, archiveFile, written, served, history>>

OpenFails(r) ==
    /\ archiveFile = Absent
    /\ Moves(r, "open", "tidy")
    /\ DropsClosure(r)
    /\ UNCHANGED <<serverVars, archiveFile, source, written, served, history>>

Temp == dir["temp"]

AfterExtraction == IF Strategy = "sequential" THEN "install" ELSE "stop"

(* After the extraction nothing asks for these any more.                   *)
ForgetSource(r) ==
    /\ source' = [source EXCEPT ![r] = Nil]
    /\ written' = [written EXCEPT ![r] = 0]

(* Unarchive: the first entry makes the directory, or finds one and adds   *)
(* to it; a later one fails when the directory has been removed.           *)
(* Mutant: the loop over the entries goes round once too often.            *)
ExtractPartTooMany(r) ==
    /\ pc[r] = "extract"
    /\ written[r] = 0 \/ Temp # Absent
    /\ LET part == <<source[r], written[r] + 1>>
       IN  M!TempBecomes(IF Temp = Absent THEN {part} ELSE Temp \cup {part})
    /\ IF written[r] + 1 <= PartCount
         THEN /\ written' = [written EXCEPT ![r] = @ + 1]
              /\ UNCHANGED <<pc, kind, source>>
         ELSE Moves(r, "extract", AfterExtraction) /\ ForgetSource(r)
    /\ UNCHANGED <<serverVars, archiveFile, served, history>>

ExtractPart(r) ==
    /\ pc[r] = "extract"
    /\ written[r] = 0 \/ Temp # Absent
    /\ LET part == <<source[r], written[r] + 1>>
       IN  M!TempBecomes(IF Temp = Absent THEN {part} ELSE Temp \cup {part})
    /\ IF written[r] + 1 < PartCount
         THEN /\ written' = [written EXCEPT ![r] = @ + 1]
              /\ UNCHANGED <<pc, kind, source>>
         ELSE Moves(r, "extract", AfterExtraction) /\ ForgetSource(r)
    /\ UNCHANGED <<serverVars, archiveFile, served, history>>

ExtractionCanFail(r) ==
    InputMayFail \/ agent = "stopping" \/ (written[r] > 0 /\ Temp = Absent)

(* Mutant: the error path of Unarchive leaves what was extracted.          *)
ExtractFailsUncleaned(r) ==
    /\ ExtractionCanFail(r)
    /\ Moves(r, "extract", "over")
    /\ DropsClosure(r)
    /\ ForgetSource(r)
    /\ UNCHANGED <<serverVars, archiveFile, served, history>>

ExtractFails(r) ==
    /\ ExtractionCanFail(r)
    /\ Moves(r, "extract", "discard")
    /\ DropsClosure(r)
    /\ ForgetSource(r)
    /\ UNCHANGED <<serverVars, archiveFile, served, history>>

-----------------------------------------------------------------------------
(* os.RemoveAll of the temp directory, whoever is using it: on the error   *)
(* path of Unarchive ("discard") and at the end of an update ("clean").    *)

(* The files are unlinked first.                                           *)
RemoveTempBegins(r) ==
    /\ Moves(r, "clean", "cleaning") \/ Moves(r, "discard", "discarding")
    /\ M!TempBecomes(IF Temp = Absent THEN Absent ELSE {})
    /\ UNCHANGED <<serverVars, archiveFile, source, written, served, history>>

(* A download goes on to its deferred removal of the archive.              *)
AfterCleanup(r) == IF kind[r] = "download" THEN "tidy" ELSE "over"

(* After a failed extraction temp is removed a second time, except by a    *)
(* sequential download, which has not deferred that yet.                   *)
AfterDiscard(r) ==
    IF kind[r] = "download" /\ Strategy = "sequential" THEN "tidy" ELSE "clean"

Littered == litter \cup (IF Temp = Absent THEN {} ELSE Temp)

(* The directory goes if nothing was written to it in the meantime.        *)
RemoveTempEnds(r) ==
    /\ \/ Moves(r, "cleaning", AfterCleanup(r))
       \/ Moves(r, "discarding", AfterDiscard(r))
    /\ M!TempBecomes(IF Temp = {} THEN Absent ELSE Temp)
    /\ litter' = IF dir'["temp"] = Absent THEN {} ELSE litter
    /\ UNCHANGED <<serverVars, archiveFile, source, written, served, overlapped, restarts>>

(* A removal that fails is a warning, except in Unarchive, which fails      *)
(* anyway: what is there stays.                                            *)
RemoveTempFails(r) ==
    /\ FsMayFail
    /\ \/ Moves(r, "clean", AfterCleanup(r)) \/ Moves(r, "cleaning", AfterCleanup(r))
       \/ Moves(r, "discard", AfterDiscard(r)) \/ Moves(r, "discarding", AfterDiscard(r))
    /\ litter' = Littered
    /\ UNCHANGED <<serverVars, migratorVars, archiveFile, source, written, served,
                   overlapped, restarts>>

RemoveArchiveFails(r) ==
    /\ FsMayFail
    /\ Moves(r, "tidy", "over")
    /\ UNCHANGED <<serverVars, migratorVars, archiveFile, source, written, served, history>>

RemoveArchive(r) ==
    /\ Moves(r, "tidy", "over")
    /\ archiveFile' = Absent
    /\ UNCHANGED <<serverVars, migratorVars, source, written, served, history>>

-----------------------------------------------------------------------------
(* Photon opens the index some time after its start, or makes an empty one *)
(* when there is none.                                                     *)
PhotonOpens ==
    /\ served = Nil
    /\ \E p \in Pids : PS!Alive(p)
    /\ \/ /\ dir["node_1"] # Absent
          /\ served' = dir["node_1"]
          /\ UNCHANGED migratorVars
       \/ /\ M!PhotonCreatesIndex
          /\ served' = Blank
    /\ UNCHANGED <<serverVars, requestVars, history>>

(* Photon ends by itself or is killed ten seconds after a cancellation.    *)
PhotonDies ==
    /\ \E p \in Pids : PS!ChildEnds(p)
    /\ served' = Nil
    /\ UNCHANGED <<migratorVars, requestVars, history>>

(* Mutant: no WaitDelay.                                                   *)
PhotonKilledAtShutdown ==
    /\ agent # "up"
    /\ \E p \in Pids : PS!WaitDelayKill(p)
    /\ served' = Nil
    /\ UNCHANGED <<migratorVars, requestVars, history>>

PhotonKilled ==
    /\ \E p \in Pids : PS!WaitDelayKill(p)
    /\ served' = Nil
    /\ UNCHANGED <<migratorVars, requestVars, history>>

(* A signal to the agent cancels the context of photon and of the updates. *)
AgentCancelled ==
    /\ restarts < MaxRestarts
    /\ PS!AgentCancelled
    /\ UNCHANGED <<migratorVars, requestVars, served, history>>

(* Cancelled or not, the agent ends between any two steps of its updates   *)
(* and comes back: only the directories and the archive are still there.   *)
AgentRestarts ==
    /\ restarts < MaxRestarts
    /\ PS!AgentRestarts
    /\ M!AgentRestarts
    /\ pc' = [r \in Requests |-> IF r \in InFlight THEN "over" ELSE pc[r]]
    /\ served' = Nil
    /\ litter' = Littered
    /\ restarts' = restarts + 1
    /\ source' = [r \in Requests |-> Nil]
    /\ written' = [r \in Requests |-> 0]
    /\ kind' = [r \in Requests |-> Nil]
    /\ UNCHANGED <<archiveFile, overlapped>>

Photon == Boot \/ PhotonOpens \/ PhotonDies \/ PhotonKilled

Agent == AgentCancelled \/ AgentRestarts

(* The steps both strategies have, in the order their pc gives them.       *)
SharedStep(r) ==
    \/ ForceReset(r) \/ CheckMigratability(r)
    \/ StopPhoton(r) \/ StartPhoton(r)
    \/ Fetch(r) \/ FetchFails(r) \/ Open(r) \/ OpenFails(r)
    \/ ExtractPart(r) \/ ExtractFails(r)
    \/ RemoveTempBegins(r) \/ RemoveTempEnds(r) \/ RemoveTempFails(r)
    \/ RemoveArchive(r) \/ RemoveArchiveFails(r)

-----------------------------------------------------------------------------
(* The update uses the two components the way they work: every step is a   *)
(* step of theirs or leaves them alone.                                    *)
ImplementsMigrator == M!Spec
ImplementsPhotonServer == PS!SafetySpec

(* README.md has both strategies stop photon before they touch the index   *)
(* and start it afterwards.  The index changes only while no photon runs   *)
(* (except that a photon without one makes it).                            *)
Swapped == dir'["node_1"] # dir["node_1"] /\ dir'["node_1"] # Blank

SwapOnlyWhenStopped == [][Swapped => ~ PhotonAlive]_vars

(* It does as long as no two requests run at once, whatever fails and      *)
(* wherever the agent dies.                                                *)
LoneSwapWhenStopped == [][~ overlapped /\ Swapped => ~ PhotonAlive]_vars

(* Nor does a running photon then serve an index that was removed or       *)
(* replaced under it.                                                      *)
ServesWhatIsOnDisk == ~ overlapped /\ served # Nil => served = dir["node_1"]

(* What a request reports as migrated is the whole of the archive it asked *)
(* for, with no file of another one in it but what a removal that failed   *)
(* or a crash left in temp.                                                *)
InstalledIsWhole ==
    \A r \in Requests :
        phase[r] \in {"dropped", "installed"} =>
            /\ dir["node_1"] \in Extracted
            /\ Whole(r) \subseteq dir["node_1"]
            /\ dir["node_1"] \subseteq Whole(r) \cup litter

LoneInstallIsWhole == overlapped \/ InstalledIsWhole

(* No request between its stop and its start of photon.                    *)
Quiet ==
    \A r \in Requests :
        pc[r] \notin {"stop", "stopping", "claim", "migrate", "install", "start"}

(* A photon that updates have left stopped shows in the status: when no    *)
(* request is about to start it and the state is not migrating, it has     *)
(* been started since the last stop (and not ended by a signal, which      *)
(* Start takes for running).  This is so although a request that is        *)
(* refused stops photon first: the one that refuses it has yet to start it.*)
(* A forced parallel update opens the gate hours before it starts photon.  *)
StatusShowsOutage ==
    /\ Quiet /\ agent = "up" /\ cmd # Nil
    /\ state # "migrating" /\ (Strategy = "parallel" => resets = 0)
    => PS!Waitable \/ cmd.exit = "signaled"

(* Every request ends: no time comes from which on there is always one.    *)
RequestsEnd == []<>(InFlight = {})
=============================================================================
