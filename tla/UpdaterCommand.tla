--------------------------- MODULE UpdaterCommand ---------------------------
(***************************************************************************)
(* The command photon-db-updater (cmd/photon-db-updater/main.go) with its  *)
(* client (internal/client/photonagent), and the agent's upload handler at *)
(* the other end of the connection: the file is read through Progress, its *)
(* units arrive at Unarchiver one after the other, the handler answers     *)
(* when all is extracted, and the strategy goes on in a goroutine while    *)
(* the command, if told to, polls the status until it reads "migrated".    *)
(*                                                                         *)
(* The strategy is reduced to its order of steps and the migration state;  *)
(* UpdateSteps and Migrator have the detail.  No other update runs.        *)
(***************************************************************************)
EXTENDS Naturals

CONSTANTS
    WholeEntries,   \* the number of entries of a whole archive
    Files,          \* archives the operator may have, whole or cut
    MaxBlock,
    Strategies,     \* of the agents considered
    Old,            \* the index from before
    Absent,         \* no directory, or the blank index
    Unknown,
    FsMayFail,
    MaxResets, MaxRestarts  \* bounds, by hand and of the agent

ASSUME CommandConstants ==
    /\ WholeEntries \in Nat \ {0}
    /\ MaxBlock \in Nat
    /\ Unknown \notin Nat
    /\ Old # Absent
    /\ \A entries \in SUBSET (1..WholeEntries) : entries \notin {Old, Absent}
    /\ Strategies \subseteq {"sequential", "parallel"}
    /\ FsMayFail \in BOOLEAN
    /\ MaxResets \in Nat /\ MaxRestarts \in Nat

VARIABLES
    totalBytes, left, block, bytesRead, locked, reader, ticker,  \* Progress
    file, noCompression, body,                                   \* Unarchiver
    unarchiving, taken, temp, tmpFile,
    command,        \* where the command is
    flags,          \* what it was told: [archive, downloadOnly, wait, force]
    response,       \* what its request was answered
    strategy,       \* the agent's
    handler,        \* where the handler and its goroutine are
    state,          \* Migrator.state
    photon,         \* whether photon runs
    index,          \* node_1: Old, Absent, or the entries installed
    extracted,      \* history: whether the agent extracted what it was sent
    resets, restarts

progressVars == <<totalBytes, left, block, bytesRead, locked, reader, ticker>>
callVars == <<unarchiving, taken, temp, tmpFile>>
commandVars == <<command, flags, file, noCompression>>
agentVars == <<strategy, handler, state, photon, index, extracted>>
bounds == <<resets, restarts>>
vars == <<progressVars, callVars, commandVars, body, response, agentVars, bounds>>

P == INSTANCE Progress
(* What has been read of the file can be read at the other end from then on. *)
U == INSTANCE Unarchiver WITH arrived <- bytesRead

WholeFile == [entries |-> WholeEntries, end |-> "marked", compressed |-> TRUE]

ASSUME FilesAssumption ==
    /\ Files \subseteq [entries : 0..WholeEntries, end : U!Ends, compressed : BOOLEAN]
    /\ WholeFile \in Files
Flags == [archive : BOOLEAN, downloadOnly : BOOLEAN, wait : BOOLEAN, force : BOOLEAN]

CommandSteps == {"start", "open", "sending", "polling", "done", "failed"}
HandlerSteps == {"none", "reset", "stop", "claim", "remove", "unarchive", "install",
                 "run", "clean", "over"}

TypeOK ==
    /\ P!TypeOK /\ U!TypeOK
    /\ command \in CommandSteps
    /\ flags \in Flags
    /\ response \in {"none", "ok", "error"}
    /\ strategy \in Strategies
    /\ handler \in HandlerSteps
    /\ state \in {"unknown", "migrated", "migrating"}
    /\ photon \in BOOLEAN
    /\ index \in {Old, Absent} \cup SUBSET (1..WholeEntries)
    /\ extracted \in BOOLEAN
    /\ resets \in 0..MaxResets /\ restarts \in 0..MaxRestarts

(* An agent with an index or none, which may have been updated before or   *)
(* have failed to, and a file that may be cut or of either format.         *)
Init ==
    /\ P!InitWith(0, 0)
    /\ flags \in Flags
    /\ file \in Files /\ noCompression \in BOOLEAN
    /\ ~ flags.archive => file = WholeFile
    /\ body = "eof"
    /\ unarchiving = "idle" /\ taken = 0 /\ temp = Absent /\ tmpFile = FALSE
    /\ command = "start"
    /\ response = "none"
    /\ strategy \in Strategies
    /\ handler = "none"
    /\ state \in {"unknown", "migrated", "migrating"}
    /\ photon = TRUE
    /\ index \in {Old, Absent}
    /\ extracted = FALSE
    /\ resets = 0 /\ restarts = 0

Goes(from, to) == command = from /\ command' = to
Handles(from, to) == handler = from /\ handler' = to

OnlyCommand ==
    UNCHANGED <<progressVars, callVars, body, response, agentVars, bounds>>

-----------------------------------------------------------------------------
(* innerMain *)

(* Without -archive one is downloaded, compressed and verified.            *)
Download ==
    /\ ~ flags.archive
    /\ file' = WholeFile
    /\ Goes("start", IF flags.downloadOnly THEN "done" ELSE "open")
    /\ UNCHANGED <<flags, noCompression>>
    /\ OnlyCommand

UseArchive ==
    /\ flags.archive
    /\ Goes("start", IF flags.downloadOnly THEN "done" ELSE "open")
    /\ UNCHANGED <<flags, file, noCompression>>
    /\ OnlyCommand

(* The download fails, there is no such file, or a signal comes.           *)
FailsEarly ==
    /\ Goes("start", "failed") \/ Goes("open", "failed")
    /\ UNCHANGED <<flags, file, noCompression>>
    /\ OnlyCommand

(* MigrateStart opens the file and posts it; the handler comes to life.    *)
FirstHandlerStep == IF strategy = "sequential" THEN "stop" ELSE "unarchive"

MigrateStart ==
    /\ Goes("open", "sending")
    /\ totalBytes' = U!Units(file) /\ left' = U!Units(file)
    /\ block' = 0 /\ bytesRead' = 0
    /\ locked' = FALSE /\ reader' = "reading" /\ ticker' = "waiting"
    /\ body' = "open"
    /\ handler' = IF flags.force THEN "reset" ELSE FirstHandlerStep
    /\ unarchiving' = IF handler' = "unarchive" THEN "prepare" ELSE "idle"
    /\ UNCHANGED <<flags, file, noCompression, taken, temp, tmpFile, response,
                   strategy, state, photon, index, extracted, bounds>>

(* The transport reads the file through Progress and sends what it got.    *)
SendFile ==
    /\ command = "sending"
    /\ P!Read \/ P!Count
    /\ UNCHANGED <<callVars, commandVars, body, response, agentVars, bounds>>

SendingFails ==
    /\ command = "sending"
    /\ P!ReadFails
    /\ UNCHANGED <<callVars, commandVars, body, response, agentVars, bounds>>

ProgressGoroutine ==
    /\ P!Goroutine
    /\ UNCHANGED <<callVars, commandVars, body, response, agentVars, bounds>>

(* A body that is read to its end is finished, another is broken off.      *)
BodyEnds ==
    /\ body = "open" /\ reader = "ended"
    /\ body' = IF left = 0 THEN "eof" ELSE "broken"
    /\ UNCHANGED <<progressVars, callVars, commandVars, response, agentVars, bounds>>

(* Mutant: the status code is not looked at.                               *)
UploadAnsweredAnyhow ==
    /\ response # "none"
    /\ Goes("sending", IF flags.wait THEN "polling" ELSE "done")
    /\ response' = "none"
    /\ P!Stop
    /\ UNCHANGED <<callVars, flags, file, noCompression, body, agentVars, bounds>>

(* The response to the upload.  Without -wait this is the end.             *)
UploadAnswered ==
    /\ response # "none"
    /\ Goes("sending", IF response = "error" THEN "failed"
                       ELSE IF flags.wait THEN "polling" ELSE "done")
    /\ response' = "none"
    /\ P!Stop
    /\ UNCHANGED <<callVars, flags, file, noCompression, body, agentVars, bounds>>

(* The connection breaks, or a signal cancels the request.                 *)
UploadBreaks ==
    /\ Goes("sending", "failed")
    /\ P!Stop
    /\ body' = IF body = "open" THEN "broken" ELSE body
    /\ response' = "none"
    /\ UNCHANGED <<callVars, flags, file, noCompression, agentVars, bounds>>

(* MigrateStatus: the GET handler returns what State does, which takes an  *)
(* answer from photon for a migration if it knows of none.  Photon answers *)
(* with a date only if it has an index.                                    *)
StatusAnswer ==
    {state} \cup (IF state = "unknown" /\ photon /\ index # Absent THEN {"migrated"} ELSE {})

Poll ==
    /\ state' \in StatusAnswer
    /\ Goes("polling", IF state' = "migrated" THEN "done" ELSE "polling")
    /\ UNCHANGED <<flags, file, noCompression, progressVars, callVars, body, response,
                   strategy, handler, photon, index, extracted, bounds>>

(* The agent cannot be reached, or a signal ends the wait.                 *)
PollFails ==
    /\ Goes("polling", "failed")
    /\ UNCHANGED <<flags, file, noCompression>>
    /\ OnlyCommand

Command ==
    \/ Download \/ UseArchive \/ FailsEarly \/ MigrateStart
    \/ SendFile \/ SendingFails \/ BodyEnds \/ UploadAnswered \/ UploadBreaks
    \/ Poll \/ PollFails

-----------------------------------------------------------------------------
(* MigrateHandler and UpdateAsync *)

OnlyAgent == UNCHANGED <<progressVars, commandVars, body, bounds>>

(* The query of a forced upload makes Updater.UpdateAsync reset the state. *)
ForceReset ==
    /\ Handles("reset", FirstHandlerStep)
    /\ state' \in {"unknown"} \cup (IF photon /\ index # Absent THEN {"migrated"} ELSE {})
    /\ unarchiving' = IF handler' = "unarchive" THEN "prepare" ELSE "idle"
    /\ UNCHANGED <<taken, temp, tmpFile, response, strategy, photon, index, extracted>>
    /\ OnlyAgent

(* The answer is lost on a command that no longer waits for it.            *)
Answers(what) == response' = IF command = "sending" THEN what ELSE "none"

(* Mutant: the handler answers first and leaves the rest to a goroutine.   *)
StopPhotonAnswered ==
    /\ Handles("stop", "claim")
    /\ photon' = FALSE
    /\ Answers("ok")
    /\ UNCHANGED <<callVars, strategy, state, index, extracted>>
    /\ OnlyAgent

StopPhoton ==
    /\ Handles("stop", "claim")
    /\ photon' = FALSE
    /\ UNCHANGED <<callVars, response, strategy, state, index, extracted>>
    /\ OnlyAgent

(* A refused sequential upload is answered, a parallel one has been.       *)
ClaimRefused ==
    /\ state = "migrating"
    /\ IF strategy = "sequential"
         THEN Handles("claim", "over") /\ Answers("error")
         ELSE Handles("claim", "clean") /\ UNCHANGED response
    /\ UNCHANGED <<callVars, strategy, state, photon, index, extracted>>
    /\ OnlyAgent

Claim ==
    /\ state # "migrating"
    /\ state' = "migrating"
    /\ Handles("claim", IF strategy = "sequential" THEN "remove" ELSE "install")
    /\ UNCHANGED <<callVars, response, strategy, photon, index, extracted>>
    /\ OnlyAgent

(* A removal that fails may have removed a part.                           *)
RemoveIndex ==
    /\ \/ /\ Handles("remove", "unarchive")
          /\ unarchiving' = "prepare"
          /\ UNCHANGED response
       \/ /\ FsMayFail
          /\ Handles("remove", "over") /\ Answers("error")
          /\ UNCHANGED unarchiving
    /\ index' = Absent
    /\ UNCHANGED <<taken, temp, tmpFile, strategy, state, photon, extracted>>
    /\ OnlyAgent

Unarchive ==
    /\ handler = "unarchive"
    /\ U!Next
    /\ UNCHANGED <<progressVars, command, flags, response, agentVars, bounds>>

(* UpdateAsync returns when all is extracted, or with an error after a     *)
(* second removal of temp, which is the one of Unarchive again.            *)
Extracted ==
    /\ unarchiving = "done"
    /\ Handles("unarchive", IF strategy = "sequential" THEN "install" ELSE "stop")
    /\ unarchiving' = "idle" /\ taken' = 0
    /\ Answers("ok")
    /\ extracted' = TRUE
    /\ UNCHANGED <<temp, tmpFile, strategy, state, photon, index>>
    /\ OnlyAgent

NotExtracted ==
    /\ unarchiving = "failed"
    /\ Handles("unarchive", "over")
    /\ \/ temp' = Absent /\ tmpFile' = FALSE
       \/ FsMayFail /\ UNCHANGED <<temp, tmpFile>>
    /\ unarchiving' = "idle" /\ taken' = 0
    /\ Answers("error")
    /\ UNCHANGED <<strategy, state, photon, index, extracted>>
    /\ OnlyAgent

(* What was extracted takes the place of the index.  It has to have an     *)
(* index in it, and a parallel update one to replace; what fails leaves    *)
(* the state at migrating, and a parallel update the old index.            *)
Install ==
    /\ temp \notin {Absent, {}}
    /\ strategy = "parallel" => index # Absent
    /\ Handles("install", "run")
    /\ index' = temp /\ temp' = Absent
    /\ state' = "migrated"
    /\ UNCHANGED <<unarchiving, taken, tmpFile, response, strategy, photon, extracted>>
    /\ OnlyAgent

InstallFails ==
    /\ \/ temp \in {Absent, {}} \/ FsMayFail
       \/ strategy = "parallel" /\ index = Absent
    /\ Handles("install", "clean")
    /\ UNCHANGED <<callVars, response, strategy, state, photon, index, extracted>>
    /\ OnlyAgent

StartPhoton ==
    /\ Handles("run", "clean")
    /\ photon' \in {photon, TRUE}
    /\ UNCHANGED <<callVars, response, strategy, state, index, extracted>>
    /\ OnlyAgent

CleanTemp ==
    /\ Handles("clean", "over")
    /\ \/ temp' = Absent /\ tmpFile' = FALSE
       \/ FsMayFail /\ UNCHANGED <<temp, tmpFile>>
    /\ UNCHANGED <<unarchiving, taken, response, strategy, state, photon, index, extracted>>
    /\ OnlyAgent

Handler ==
    \/ ForceReset \/ StopPhoton \/ ClaimRefused \/ Claim \/ RemoveIndex
    \/ Unarchive \/ Extracted \/ NotExtracted
    \/ Install \/ InstallFails \/ StartPhoton \/ CleanTemp

-----------------------------------------------------------------------------
(* Around both *)

(* DELETE of the status, by somebody.                                      *)
ResetByHand ==
    /\ resets < MaxResets
    /\ resets' = resets + 1
    /\ state' \in {"unknown"} \cup (IF photon /\ index # Absent THEN {"migrated"} ELSE {})
    /\ UNCHANGED <<progressVars, callVars, commandVars, body, response,
                   strategy, handler, photon, index, extracted, restarts>>

(* The agent ends, with it the upload and its goroutine; it comes back     *)
(* with photon.  Between its renames a parallel update has no index.       *)
AgentRestarts ==
    /\ restarts < MaxRestarts
    /\ restarts' = restarts + 1
    /\ state' = "unknown"
    /\ photon' = TRUE
    /\ handler' = IF handler = "none" THEN "none" ELSE "over"
    /\ index' \in {index} \cup (IF handler = "install" THEN {Absent} ELSE {})
    /\ unarchiving' = "idle" /\ taken' = 0
    /\ body' = IF body = "open" THEN "broken" ELSE body
    /\ Answers("error")
    /\ UNCHANGED <<progressVars, commandVars, temp, tmpFile, strategy, extracted, resets>>

Next ==
    \/ Command \/ ProgressGoroutine
    \/ Handler
    \/ ResetByHand \/ AgentRestarts

(* Both processes keep running, files are read and what is sent arrives.   *)
(* A lock of the mutex is had in the end by one who waits for it while the *)
(* goroutine takes it on every tick (Go's mutexes are fair to starving     *)
(* waiters).  Nothing is assumed of ticks, signals and failures.           *)
Fairness ==
    /\ WF_vars(Download \/ UseArchive \/ MigrateStart)
    /\ SF_vars(SendFile)
    /\ WF_vars(P!ReportsNoMore /\ ProgressGoroutine)
    /\ WF_vars(P!Reports /\ ProgressGoroutine)
    /\ WF_vars(BodyEnds)
    /\ WF_vars(UploadAnswered)
    /\ WF_vars(Poll)
    /\ WF_vars(Handler)

Spec == Init /\ [][Next]_vars /\ Fairness

-----------------------------------------------------------------------------
(* "wait until the migration is done": when a command that waits ends with *)
(* success, the index it uploaded is in place.                             *)
Waited == flags.wait /\ ~ flags.downloadOnly /\ command = "done"

WaitEndsInstalled == Waited => index \notin {Old, Absent}

(* With a sequential agent it is, as long as nobody resets the state and   *)
(* the agent does not die: the state is claimed before the upload is       *)
(* answered.  A parallel agent claims it afterwards.                       *)
SequentialWaitEndsInstalled ==
    strategy = "sequential" /\ resets = 0 /\ restarts = 0 => WaitEndsInstalled

(* Success of the command means that the agent has extracted all it was    *)
(* sent, however the connection, the agent and the file behaved.           *)
SuccessMeansExtracted ==
    command = "done" /\ ~ flags.downloadOnly => extracted

(* What is installed is the file, entry by entry, and the file was whole   *)
(* or an uncompressed one cut between two entries: nothing that breaks off *)
(* on its way, or is cut elsewhere, gets that far.                         *)
InstalledIsTheFile ==
    index \notin {Old, Absent} =>
        /\ index = 1..file.entries
        /\ file.end = "marked" \/ (file.end = "boundary" /\ ~ file.compressed)

(* The goroutine of the progress returns with the mutex locked only when    *)
(* nothing of the file is left to be read or counted: no Read waits for it *)
(* for good.                                                               *)
LockedAtTheEnd == P!LeftLockedAtTheEnd

(* The command ends, unless it waits and the state is not migrated any     *)
(* more; in particular no upload hangs.                                    *)
CommandEnds ==
    /\ []<>(command # "sending")
    /\ <>[](state = "migrated") => <>(command \in {"done", "failed"})
=============================================================================
