------------------------ MODULE UpdaterCommandProofs ------------------------
(***************************************************************************)
(* For archives of any size, read in blocks of any size, cut anywhere, and *)
(* any number of resets and restarts: what the success of the command      *)
(* means, what gets installed, and that the mutex of the progress is left  *)
(* locked only when nobody wants it any more.                              *)
(***************************************************************************)
EXTENDS UpdaterCommand, TLAPS

(* Every step is one of these, by who takes it.                            *)
LEMMA NextCases ==
    ASSUME Next, NEW Q,
           Download \/ UseArchive \/ FailsEarly => Q,
           MigrateStart => Q,
           SendFile \/ SendingFails \/ BodyEnds => Q,
           UploadAnswered \/ UploadBreaks => Q,
           Poll \/ PollFails => Q,
           ProgressGoroutine => Q,
           ForceReset \/ StopPhoton \/ ClaimRefused \/ Claim \/ RemoveIndex => Q,
           Unarchive => Q,
           Extracted \/ NotExtracted => Q,
           Install \/ InstallFails \/ StartPhoton \/ CleanTemp => Q,
           ResetByHand => Q,
           AgentRestarts => Q
    PROVE  Q
BY DEF Next, Command, Handler

Typed ==
    /\ totalBytes \in Nat /\ left \in Nat /\ block \in Nat /\ bytesRead \in Nat
    /\ reader \in {"reading", "counting", "ended", "stopped"}
    /\ ticker \in {"waiting", "reporting", "gone"}
    /\ file \in Files
    /\ body \in {"open", "eof", "broken"}
    /\ unarchiving \in {"idle", "prepare", "header", "copy", "remove", "done", "failed"}
    /\ taken \in Nat
    /\ command \in CommandSteps
    /\ flags \in Flags
    /\ response \in {"none", "ok", "error"}
    /\ strategy \in Strategies
    /\ handler \in HandlerSteps
    /\ state \in {"unknown", "migrated", "migrating"}
    /\ resets \in 0..MaxResets /\ restarts \in 0..MaxRestarts

BooleansTyped ==
    /\ locked \in BOOLEAN /\ noCompression \in BOOLEAN /\ tmpFile \in BOOLEAN
    /\ photon \in BOOLEAN /\ extracted \in BOOLEAN

(* The directories hold entries of the file, if they are there.            *)
DirsTyped ==
    /\ temp = Absent \/ temp \subseteq 1..file.entries
    /\ index \in {Old, Absent} \/ index \subseteq 1..WholeEntries

(* The handler comes to life with the request.                             *)
NotSent == command \in {"start", "open"}

StageInv ==
    /\ ~ flags.archive => file = WholeFile
    /\ NotSent => handler = "none" /\ body = "eof" /\ ~ extracted /\ response = "none"
    /\ handler = "none" => unarchiving = "idle" /\ taken = 0 /\ temp = Absent
    /\ handler # "unarchive" => unarchiving = "idle" /\ taken = 0

(* Of the size the file had, everything is read and counted, read, or      *)
(* still to be read.  A body that has come to its end was all read.        *)
ProgressInv ==
    /\ totalBytes = bytesRead + block + left
    /\ handler # "none" => totalBytes = U!Units(file)
    /\ totalBytes \in {0, U!Units(file)}
    /\ reader \in {"reading", "ended"} => block = 0
    /\ body = "eof" => left = 0 /\ block = 0
    /\ ticker = "waiting" => ~ locked
    /\ ticker = "gone" /\ locked => bytesRead = totalBytes

LEMMA FileFacts ==
    ASSUME file \in Files
    PROVE  /\ file.entries \in 0..WholeEntries /\ file.entries \in Nat
           /\ file.end \in U!Ends /\ file.compressed \in BOOLEAN
           /\ U!Units(file) \in Nat
           /\ U!Units(file) = file.entries \/ U!Units(file) = file.entries + 1
           /\ file \in [entries : Nat, end : U!Ends, compressed : BOOLEAN]
           /\ 1..file.entries \subseteq 1..WholeEntries
BY FilesAssumption, CommandConstants DEF U!Units, U!Ends

(* What an update may put in place: nothing that has no index in it, and   *)
(* otherwise every entry of a file that is whole or cut between two.       *)
Good(entries) ==
    /\ entries = 1..file.entries
    /\ file.end = "marked" \/ (file.end = "boundary" /\ ~ file.compressed)

Installable == temp \in {Absent, {}} \/ Good(temp)

(* How far the call is says what lies in its destination.                  *)
ArchiveInv ==
    /\ taken <= bytesRead
    /\ handler \in {"none", "reset", "remove"} => temp = Absent
    /\ strategy = "sequential" /\ handler \in {"stop", "claim"} => temp = Absent
    /\ unarchiving = "prepare" => taken = 0 /\ temp = Absent
    /\ unarchiving \in {"header", "copy"} =>
          /\ taken <= file.entries /\ temp = 1..taken
          /\ taken > 0 => U!Readable
    /\ unarchiving = "copy" => taken < file.entries /\ taken < bytesRead /\ U!Readable
    /\ unarchiving = "done" => Installable
    /\ strategy = "parallel" /\ handler \in {"stop", "claim"} => Installable
    /\ handler = "install" => Installable

Guarded == Typed /\ DirsTyped /\ StageInv /\ ProgressInv /\ ArchiveInv /\ InstalledIsTheFile

LEMMA GuardedInit == Init => Guarded
<1> SUFFICES ASSUME Init PROVE Guarded
    OBVIOUS
<1> USE CommandConstants
<1>1. Typed
    BY DEF Init, Typed, P!InitWith, CommandSteps, HandlerSteps
<1>6. DirsTyped
    BY DEF Init, DirsTyped
<1>2. StageInv
    BY DEF Init, StageInv, NotSent
<1>3. ProgressInv
    BY DEF Init, ProgressInv, P!InitWith
<1>4. ArchiveInv
    BY DEF Init, ArchiveInv, P!InitWith
<1>5. InstalledIsTheFile
    BY DEF Init, InstalledIsTheFile
<1> QED
    BY <1>1, <1>2, <1>3, <1>4, <1>5, <1>6 DEF Guarded

(* The Booleans are left to Zenon, and apart from the rest.                *)
LEMMA BooleansStep == BooleansTyped /\ [Next]_vars => BooleansTyped'
<1> SUFFICES ASSUME BooleansTyped, [Next]_vars PROVE BooleansTyped'
    OBVIOUS
<1> USE DEF BooleansTyped, OnlyCommand, OnlyAgent, progressVars, callVars, commandVars, agentVars
<1>1. CASE UNCHANGED vars
    BY <1>1, Zenon DEF vars
<1>2. CASE Next
    <2>1. Download \/ UseArchive \/ FailsEarly => BooleansTyped'
        BY Zenon DEF Download, UseArchive, FailsEarly
    <2>2. MigrateStart => BooleansTyped'
        BY Zenon DEF MigrateStart
    <2>3. SendFile \/ SendingFails \/ BodyEnds => BooleansTyped'
        BY Zenon DEF SendFile, SendingFails, BodyEnds, P!Read, P!Count, P!ReadFails, P!goroutine
    <2>4. UploadAnswered \/ UploadBreaks => BooleansTyped'
        BY Zenon DEF UploadAnswered, UploadBreaks, P!Stop, P!goroutine
    <2>5. Poll \/ PollFails => BooleansTyped'
        BY Zenon DEF Poll, PollFails
    <2>6. ProgressGoroutine => BooleansTyped'
        BY Zenon DEF ProgressGoroutine, P!Goroutine, P!Tick, P!ReportsNoMore, P!Reports, P!Stopped
    <2>7. ForceReset \/ StopPhoton \/ ClaimRefused \/ Claim \/ RemoveIndex => BooleansTyped'
        BY Zenon DEF ForceReset, StopPhoton, ClaimRefused, Claim, RemoveIndex
    <2>8. Unarchive => BooleansTyped'
        BY Zenon DEF Unarchive, U!Next, U!Prepare, U!PrepareFails, U!ReadHeader, U!CopyAndRename,
               U!WriteFails, U!Finish, U!StreamFails, U!RemoveDestination, U!streamVars
    <2>9. Extracted \/ NotExtracted => BooleansTyped'
        BY Zenon DEF Extracted, NotExtracted
    <2>10. Install \/ InstallFails \/ StartPhoton \/ CleanTemp => BooleansTyped'
        <3>1. Install \/ InstallFails \/ CleanTemp => BooleansTyped'
            BY Zenon DEF Install, InstallFails, CleanTemp
        <3>2. StartPhoton => BooleansTyped'
            <4> SUFFICES ASSUME StartPhoton PROVE BooleansTyped'
                OBVIOUS
            <4>1. photon' \in BOOLEAN
                BY Zenon DEF StartPhoton
            <4> QED
                BY <4>1, Zenon DEF StartPhoton
        <3> QED
            BY <3>1, <3>2
    <2>11. ResetByHand => BooleansTyped'
        BY Zenon DEF ResetByHand
    <2>12. AgentRestarts => BooleansTyped'
        BY Zenon DEF AgentRestarts
    <2> QED
        BY <1>2, <2>1, <2>2, <2>3, <2>4, <2>5, <2>6, <2>7, <2>8, <2>9, <2>10, <2>11, <2>12,
           NextCases
<1> QED
    BY <1>1, <1>2

LEMMA TypedStep == Guarded /\ [Next]_vars => Typed'
<1> SUFFICES ASSUME Guarded, [Next]_vars PROVE Typed'
    OBVIOUS
<1> USE CommandConstants
<1> USE DEF Guarded, Typed, StageInv, NotSent, OnlyCommand, OnlyAgent, Goes, Handles, Answers,
        progressVars, callVars, commandVars, agentVars, bounds, CommandSteps, HandlerSteps
<1>1. CASE UNCHANGED vars
    BY <1>1 DEF vars
<1>2. CASE Next
    <2>1. Download \/ UseArchive \/ FailsEarly => Typed'
        BY DEF Download, UseArchive, FailsEarly
    <2>2. MigrateStart => Typed'
        BY FileFacts DEF MigrateStart, FirstHandlerStep
    <2>3. SendFile \/ SendingFails \/ BodyEnds => Typed'
        BY DEF SendFile, SendingFails, BodyEnds, P!Read, P!Count, P!ReadFails, P!goroutine
    <2>4. UploadAnswered \/ UploadBreaks => Typed'
        BY DEF UploadAnswered, UploadBreaks, P!Stop, P!goroutine
    <2>5. Poll \/ PollFails => Typed'
        BY DEF Poll, PollFails, StatusAnswer
    <2>6. ProgressGoroutine => Typed'
        BY DEF ProgressGoroutine, P!Goroutine, P!Tick, P!ReportsNoMore, P!Reports, P!Stopped
    <2>7. ForceReset \/ StopPhoton \/ ClaimRefused \/ Claim \/ RemoveIndex => Typed'
        BY DEF ForceReset, StopPhoton, ClaimRefused, Claim, RemoveIndex, FirstHandlerStep
    <2>8. Unarchive => Typed'
        <3> SUFFICES ASSUME Unarchive PROVE Typed'
            OBVIOUS
        <3>2. taken' \in Nat
            BY DEF Unarchive, U!Next, U!Prepare, U!PrepareFails, U!ReadHeader, U!CopyAndRename,
                   U!WriteFails, U!Finish, U!StreamFails, U!RemoveDestination, U!streamVars
        <3>4. unarchiving' \in {"idle", "prepare", "header", "copy", "remove", "done", "failed"}
            BY DEF Unarchive, U!Next, U!Prepare, U!PrepareFails, U!ReadHeader, U!CopyAndRename,
                   U!WriteFails, U!Finish, U!StreamFails, U!RemoveDestination, U!Goes
        <3>6. UNCHANGED <<file, noCompression, body, bytesRead>>
            BY DEF Unarchive, U!Next, U!Prepare, U!PrepareFails, U!ReadHeader, U!CopyAndRename,
                   U!WriteFails, U!Finish, U!StreamFails, U!RemoveDestination, U!streamVars
        <3> QED
            BY <3>2, <3>4, <3>6 DEF Unarchive
    <2>9. Extracted \/ NotExtracted => Typed'
        BY DEF Extracted, NotExtracted
    <2>10. Install \/ InstallFails \/ StartPhoton \/ CleanTemp => Typed'
        BY DEF Install, InstallFails, StartPhoton, CleanTemp
    <2>11. ResetByHand => Typed'
        BY DEF ResetByHand
    <2>12. AgentRestarts => Typed'
        BY DEF AgentRestarts
    <2> QED
        BY <1>2, <2>1, <2>2, <2>3, <2>4, <2>5, <2>6, <2>7, <2>8, <2>9, <2>10, <2>11, <2>12,
           NextCases
<1> QED
    BY <1>1, <1>2

(* What a step of the call leaves alone.                                   *)
LEMMA UnarchiveFrame ==
    ASSUME Unarchive
    PROVE  /\ UNCHANGED <<progressVars, command, flags, response, agentVars, bounds>>
           /\ UNCHANGED <<file, noCompression, body>>
           /\ handler = "unarchive"
BY DEF Unarchive, U!Next, U!Prepare, U!PrepareFails, U!ReadHeader, U!CopyAndRename,
       U!WriteFails, U!Finish, U!StreamFails, U!RemoveDestination, U!streamVars

LEMMA StageStep == Typed /\ StageInv /\ [Next]_vars => StageInv'
<1> SUFFICES ASSUME Typed /\ StageInv, [Next]_vars PROVE StageInv'
    OBVIOUS
<1> USE DEF StageInv, NotSent, OnlyCommand, OnlyAgent, Goes, Handles, Answers, progressVars,
        callVars, commandVars, agentVars, bounds
<1>1. CASE UNCHANGED vars
    BY <1>1 DEF vars
<1>2. CASE Next
    <2>1. Download \/ UseArchive \/ FailsEarly => StageInv'
        BY DEF Download, UseArchive, FailsEarly
    <2>2. MigrateStart => StageInv'
        BY DEF MigrateStart, FirstHandlerStep
    <2>3. SendFile \/ SendingFails \/ BodyEnds => StageInv'
        BY DEF SendFile, SendingFails, BodyEnds, P!Read, P!Count, P!ReadFails, P!goroutine
    <2>4. UploadAnswered \/ UploadBreaks => StageInv'
        BY DEF UploadAnswered, UploadBreaks, P!Stop, P!goroutine
    <2>5. Poll \/ PollFails => StageInv'
        BY DEF Poll, PollFails, StatusAnswer
    <2>6. ProgressGoroutine => StageInv'
        BY DEF ProgressGoroutine, P!Goroutine, P!Tick, P!ReportsNoMore, P!Reports, P!Stopped
    <2>7. ForceReset \/ StopPhoton \/ ClaimRefused \/ Claim \/ RemoveIndex => StageInv'
        BY DEF ForceReset, StopPhoton, ClaimRefused, Claim, RemoveIndex, FirstHandlerStep
    <2>8. Unarchive => StageInv'
        BY UnarchiveFrame
    <2>9. Extracted \/ NotExtracted => StageInv'
        BY DEF Extracted, NotExtracted
    <2>10. Install \/ InstallFails \/ StartPhoton \/ CleanTemp => StageInv'
        BY DEF Install, InstallFails, StartPhoton, CleanTemp
    <2>11. ResetByHand => StageInv'
        BY DEF ResetByHand
    <2>12. AgentRestarts => StageInv'
        BY DEF AgentRestarts
    <2> QED
        BY <1>2, <2>1, <2>2, <2>3, <2>4, <2>5, <2>6, <2>7, <2>8, <2>9, <2>10, <2>11, <2>12,
           NextCases
<1> QED
    BY <1>1, <1>2


LEMMA ProgressStep == Typed /\ StageInv /\ ProgressInv /\ [Next]_vars => ProgressInv'
<1> SUFFICES ASSUME Typed /\ StageInv /\ ProgressInv, [Next]_vars PROVE ProgressInv'
    OBVIOUS
<1> USE CommandConstants, FileFacts
<1> USE DEF Typed, StageInv, NotSent, ProgressInv, OnlyCommand, OnlyAgent, Goes, Handles, Answers,
        progressVars, callVars, commandVars, agentVars, bounds
<1>1. CASE UNCHANGED vars
    BY <1>1 DEF vars
<1>2. CASE Next
    <2>1. Download \/ UseArchive \/ FailsEarly => ProgressInv'
        BY DEF Download, UseArchive, FailsEarly
    <2>2. MigrateStart => ProgressInv'
        BY DEF MigrateStart, FirstHandlerStep
    <2>3. SendFile \/ SendingFails \/ BodyEnds => ProgressInv'
        BY DEF SendFile, SendingFails, BodyEnds, P!Read, P!Count, P!ReadFails, P!goroutine
    <2>4. UploadAnswered \/ UploadBreaks => ProgressInv'
        BY DEF UploadAnswered, UploadBreaks, P!Stop, P!goroutine
    <2>5. Poll \/ PollFails => ProgressInv'
        BY DEF Poll, PollFails, StatusAnswer
    <2>6. ProgressGoroutine => ProgressInv'
        BY DEF ProgressGoroutine, P!Goroutine, P!Tick, P!ReportsNoMore, P!Reports, P!Stopped
    <2>7. ForceReset \/ StopPhoton \/ ClaimRefused \/ Claim \/ RemoveIndex => ProgressInv'
        BY DEF ForceReset, StopPhoton, ClaimRefused, Claim, RemoveIndex, FirstHandlerStep
    <2>8. Unarchive => ProgressInv'
        BY UnarchiveFrame
    <2>9. Extracted \/ NotExtracted => ProgressInv'
        BY DEF Extracted, NotExtracted
    <2>10. Install \/ InstallFails \/ StartPhoton \/ CleanTemp => ProgressInv'
        <3> SUFFICES ASSUME Install \/ InstallFails \/ StartPhoton \/ CleanTemp PROVE ProgressInv'
            OBVIOUS
        <3>1. handler # "none" /\ OnlyAgent
            BY DEF Install, InstallFails, StartPhoton, CleanTemp
        <3> QED
            BY <3>1
    <2>11. ResetByHand => ProgressInv'
        BY DEF ResetByHand
    <2>12. AgentRestarts => ProgressInv'
        BY DEF AgentRestarts
    <2> QED
        BY <1>2, <2>1, <2>2, <2>3, <2>4, <2>5, <2>6, <2>7, <2>8, <2>9, <2>10, <2>11, <2>12,
           NextCases
<1> QED
    BY <1>1, <1>2

LEMMA ArchiveStep == Typed /\ StageInv /\ ProgressInv /\ ArchiveInv /\ [Next]_vars => ArchiveInv'
<1> SUFFICES ASSUME Typed /\ StageInv /\ ProgressInv /\ ArchiveInv, [Next]_vars PROVE ArchiveInv'
    OBVIOUS
<1> USE CommandConstants
<1> USE DEF Typed, StageInv, NotSent, ArchiveInv, Installable, Good, U!Readable, OnlyCommand,
        OnlyAgent, Goes, Handles, Answers, progressVars, callVars, commandVars, agentVars,
        bounds
<1>1. CASE UNCHANGED vars
    BY <1>1 DEF vars
<1>2. CASE Next
    <2>1. Download \/ UseArchive \/ FailsEarly => ArchiveInv'
        BY DEF Download, UseArchive, FailsEarly
    <2>2. MigrateStart => ArchiveInv'
        BY DEF MigrateStart, FirstHandlerStep
    <2>3. SendFile \/ SendingFails \/ BodyEnds => ArchiveInv'
        BY DEF SendFile, SendingFails, BodyEnds, P!Read, P!Count, P!ReadFails, P!goroutine
    <2>4. UploadAnswered \/ UploadBreaks => ArchiveInv'
        BY DEF UploadAnswered, UploadBreaks, P!Stop, P!goroutine
    <2>5. Poll \/ PollFails => ArchiveInv'
        BY DEF Poll, PollFails, StatusAnswer
    <2>6. ProgressGoroutine => ArchiveInv'
        BY DEF ProgressGoroutine, P!Goroutine, P!Tick, P!ReportsNoMore, P!Reports, P!Stopped
    <2>7. ForceReset \/ StopPhoton \/ ClaimRefused \/ Claim \/ RemoveIndex => ArchiveInv'
        <3>1. ForceReset => ArchiveInv'
            BY DEF ForceReset, FirstHandlerStep
        <3>2. StopPhoton => ArchiveInv'
            BY DEF StopPhoton
        <3>3. ClaimRefused \/ Claim => ArchiveInv'
            BY DEF ClaimRefused, Claim
        <3>4. RemoveIndex => ArchiveInv'
            BY DEF RemoveIndex
        <3> QED
            BY <3>1, <3>2, <3>3, <3>4
    <2>8. Unarchive => ArchiveInv'
        <3> SUFFICES ASSUME Unarchive PROVE ArchiveInv'
            OBVIOUS
        <3>1. bytesRead \in Nat /\ taken \in Nat /\ file.entries \in Nat
            BY FileFacts
        <3>2. body = "eof" => bytesRead = U!Units(file)
            BY UnarchiveFrame DEF ProgressInv
        <3>3. UNCHANGED <<bytesRead, file, noCompression, handler, strategy>> /\ handler = "unarchive"
            BY UnarchiveFrame
        <3>4. 1..0 = {}
            OBVIOUS
        <3>5. CASE U!Prepare
            <4>1. unarchiving' = "header" /\ taken' = 0 /\ temp' = {}
                BY <3>5 DEF U!Prepare, U!Goes
            <4> QED
                BY <3>1, <3>3, <3>4, <4>1
        <3>10. CASE U!PrepareFails
            BY <3>1, <3>3, <3>10 DEF U!PrepareFails, U!Goes
        <3>6. CASE U!ReadHeader
            BY <3>1, <3>3, <3>6 DEF U!ReadHeader, U!Goes, U!Readable, U!Unread
        <3>7. CASE U!CopyAndRename
            BY <3>1, <3>3, <3>7 DEF U!CopyAndRename, U!Goes, U!Readable
        <3>8. CASE U!WriteFails \/ U!StreamFails \/ U!RemoveDestination
            BY <3>1, <3>3, <3>8 DEF U!WriteFails, U!StreamFails, U!RemoveDestination, U!Goes
        <3>9. CASE U!Finish
            <4>1. Good(temp) \/ temp = {}
                BY <3>1, <3>2, <3>3, <3>9, FileFacts
                   DEF U!Finish, U!Goes, U!Readable, U!Unread, U!EndMark, U!CleanEnd, U!AtEnd,
                       U!Units, U!Ends
            <4>2. temp' = temp /\ unarchiving' = "done" /\ taken' = bytesRead
                BY <3>9 DEF U!Finish, U!Goes
            <4> QED
                BY <3>1, <3>3, <4>1, <4>2
        <3> QED
            BY <3>5, <3>6, <3>7, <3>8, <3>9, <3>10 DEF Unarchive, U!Next
    <2>9. Extracted \/ NotExtracted => ArchiveInv'
        BY DEF Extracted, NotExtracted
    <2>10. Install \/ InstallFails \/ StartPhoton \/ CleanTemp => ArchiveInv'
        BY DEF Install, InstallFails, StartPhoton, CleanTemp
    <2>11. ResetByHand => ArchiveInv'
        BY DEF ResetByHand
    <2>12. AgentRestarts => ArchiveInv'
        BY DEF AgentRestarts
    <2> QED
        BY <1>2, <2>1, <2>2, <2>3, <2>4, <2>5, <2>6, <2>7, <2>8, <2>9, <2>10, <2>11, <2>12,
           NextCases
<1> QED
    BY <1>1, <1>2

LEMMA DirsStep == Guarded /\ [Next]_vars => DirsTyped'
<1> SUFFICES ASSUME Guarded, [Next]_vars PROVE DirsTyped'
    OBVIOUS
<1> USE CommandConstants
<1> USE DEF Guarded, Typed, StageInv, DirsTyped, OnlyCommand, OnlyAgent, Goes, Handles, Answers,
        progressVars, callVars, commandVars, agentVars, bounds
<1>1. CASE UNCHANGED vars
    BY <1>1 DEF vars
<1>2. CASE Next
    <2>1. Download \/ UseArchive \/ FailsEarly => DirsTyped'
        BY DEF Download, UseArchive, FailsEarly
    <2>2. MigrateStart => DirsTyped'
        BY DEF MigrateStart, FirstHandlerStep
    <2>3. SendFile \/ SendingFails \/ BodyEnds => DirsTyped'
        BY DEF SendFile, SendingFails, BodyEnds, P!Read, P!Count, P!ReadFails, P!goroutine
    <2>4. UploadAnswered \/ UploadBreaks => DirsTyped'
        BY DEF UploadAnswered, UploadBreaks, P!Stop, P!goroutine
    <2>5. Poll \/ PollFails => DirsTyped'
        BY DEF Poll, PollFails, StatusAnswer
    <2>6. ProgressGoroutine => DirsTyped'
        BY DEF ProgressGoroutine, P!Goroutine, P!Tick, P!ReportsNoMore, P!Reports, P!Stopped
    <2>7. ForceReset \/ StopPhoton \/ ClaimRefused \/ Claim \/ RemoveIndex => DirsTyped'
        BY DEF ForceReset, StopPhoton, ClaimRefused, Claim, RemoveIndex, FirstHandlerStep
    <2>8. Unarchive => DirsTyped'
        <3> SUFFICES ASSUME Unarchive PROVE DirsTyped'
            OBVIOUS
        <3>1. file.entries \in Nat /\ taken \in Nat
            BY FileFacts
        <3>2. temp' = Absent \/ temp' \subseteq 1..file.entries
            BY <3>1 DEF Unarchive, ArchiveInv, U!Next, U!Prepare, U!PrepareFails, U!ReadHeader,
               U!CopyAndRename, U!WriteFails, U!Finish, U!StreamFails, U!RemoveDestination, U!Goes
        <3> QED
            BY <3>2, UnarchiveFrame
    <2>9. Extracted \/ NotExtracted => DirsTyped'
        BY DEF Extracted, NotExtracted
    <2>10. Install \/ InstallFails \/ StartPhoton \/ CleanTemp => DirsTyped'
        <3>1. Install => DirsTyped'
            <4> SUFFICES ASSUME Install PROVE DirsTyped'
                OBVIOUS
            <4>1. temp \subseteq 1..WholeEntries
                BY FileFacts DEF Install
            <4> QED
                BY <4>1 DEF Install
        <3>2. InstallFails \/ StartPhoton \/ CleanTemp => DirsTyped'
            BY DEF InstallFails, StartPhoton, CleanTemp
        <3> QED
            BY <3>1, <3>2
    <2>11. ResetByHand => DirsTyped'
        BY DEF ResetByHand
    <2>12. AgentRestarts => DirsTyped'
        BY DEF AgentRestarts
    <2> QED
        BY <1>2, <2>1, <2>2, <2>3, <2>4, <2>5, <2>6, <2>7, <2>8, <2>9, <2>10, <2>11, <2>12,
           NextCases
<1> QED
    BY <1>1, <1>2


LEMMA InstalledStep == Guarded /\ [Next]_vars => InstalledIsTheFile'
<1> SUFFICES ASSUME Guarded, [Next]_vars PROVE InstalledIsTheFile'
    OBVIOUS
<1> USE CommandConstants
<1> USE DEF Guarded, StageInv, ArchiveInv, Installable, Good, InstalledIsTheFile, OnlyCommand,
        OnlyAgent, Goes, Handles, Answers, progressVars, callVars, commandVars, agentVars,
        bounds
<1>1. CASE UNCHANGED vars
    BY <1>1 DEF vars
<1>2. CASE Next
    <2>1. Download \/ UseArchive \/ FailsEarly => InstalledIsTheFile'
        BY DEF Download, UseArchive, FailsEarly
    <2>2. MigrateStart => InstalledIsTheFile'
        BY DEF MigrateStart, FirstHandlerStep
    <2>3. SendFile \/ SendingFails \/ BodyEnds => InstalledIsTheFile'
        BY DEF SendFile, SendingFails, BodyEnds, P!Read, P!Count, P!ReadFails, P!goroutine
    <2>4. UploadAnswered \/ UploadBreaks => InstalledIsTheFile'
        BY DEF UploadAnswered, UploadBreaks, P!Stop, P!goroutine
    <2>5. Poll \/ PollFails => InstalledIsTheFile'
        BY DEF Poll, PollFails, StatusAnswer
    <2>6. ProgressGoroutine => InstalledIsTheFile'
        BY DEF ProgressGoroutine, P!Goroutine, P!Tick, P!ReportsNoMore, P!Reports, P!Stopped
    <2>7. ForceReset \/ StopPhoton \/ ClaimRefused \/ Claim \/ RemoveIndex => InstalledIsTheFile'
        BY DEF ForceReset, StopPhoton, ClaimRefused, Claim, RemoveIndex, FirstHandlerStep
    <2>8. Unarchive => InstalledIsTheFile'
        BY UnarchiveFrame
    <2>9. Extracted \/ NotExtracted => InstalledIsTheFile'
        BY DEF Extracted, NotExtracted
    <2>10. Install \/ InstallFails \/ StartPhoton \/ CleanTemp => InstalledIsTheFile'
        <3>1. Install => InstalledIsTheFile'
            BY DEF Install
        <3>2. InstallFails \/ StartPhoton \/ CleanTemp => InstalledIsTheFile'
            BY DEF InstallFails, StartPhoton, CleanTemp
        <3> QED
            BY <3>1, <3>2
    <2>11. ResetByHand => InstalledIsTheFile'
        BY DEF ResetByHand
    <2>12. AgentRestarts => InstalledIsTheFile'
        BY DEF AgentRestarts
    <2> QED
        BY <1>2, <2>1, <2>2, <2>3, <2>4, <2>5, <2>6, <2>7, <2>8, <2>9, <2>10, <2>11, <2>12,
           NextCases
<1> QED
    BY <1>1, <1>2


LEMMA GuardedStep == Guarded /\ [Next]_vars => Guarded'
BY TypedStep, DirsStep, StageStep, ProgressStep, ArchiveStep, InstalledStep DEF Guarded

LEMMA GuardedHolds == Spec => []Guarded
BY GuardedInit, GuardedStep, PTL DEF Spec

(* What is installed is the file, entry by entry, and the file was whole   *)
(* or an uncompressed one cut between two entries.                         *)
THEOREM InstalledAsUploaded == Spec => []InstalledIsTheFile
<1>1. Guarded => InstalledIsTheFile
    BY DEF Guarded
<1> QED
    BY <1>1, GuardedHolds, PTL

(* The mutex of the progress is left locked only when nothing of the file  *)
(* is left to be read or counted.                                          *)
THEOREM NobodyWaitsForTheLock == Spec => []LockedAtTheEnd
<1>1. Guarded => LockedAtTheEnd
    BY DEF Guarded, Typed, ProgressInv, LockedAtTheEnd, P!LeftLockedAtTheEnd
<1> QED
    BY <1>1, GuardedHolds, PTL

(* The variables keep their types.                                         *)
THEOREM TypeCorrect == Spec => []TypeOK
<1>1. Init => BooleansTyped
    BY Zenon DEF Init, P!InitWith, BooleansTyped
<1>2. Guarded /\ BooleansTyped => TypeOK
    <2> SUFFICES ASSUME Guarded, BooleansTyped PROVE TypeOK
        OBVIOUS
    <2>1. U!TypeOK
        <3>1. file \in [entries : Nat, end : U!Ends, compressed : BOOLEAN]
            BY FileFacts DEF Guarded, Typed
        <3>2. bytesRead \in 0..U!Units(file) /\ taken \in 0..bytesRead
            BY FileFacts DEF Guarded, Typed, ProgressInv, ArchiveInv
        <3>3. temp = Absent \/ temp \in SUBSET (1..file.entries)
            BY DEF Guarded, DirsTyped
        <3>4. body \in {"open", "eof", "broken"} /\ unarchiving \in {"idle", "prepare", "header", "copy", "remove", "done", "failed"}
            BY DEF Guarded, Typed
        <3> QED
            BY <3>1, <3>2, <3>3, <3>4, Zenon DEF U!TypeOK, BooleansTyped
    <2>2. P!TypeOK
        <3>1. totalBytes \in Nat \cup {Unknown} /\ left \in Nat /\ block \in Nat /\ bytesRead \in Nat
              /\ reader \in {"reading", "counting", "ended", "stopped"}
              /\ ticker \in {"waiting", "reporting", "gone"}
            BY DEF Guarded, Typed
        <3> QED
            BY <3>1, Zenon DEF P!TypeOK, BooleansTyped
    <2>3. index \in {Old, Absent} \cup SUBSET (1..WholeEntries)
        BY DEF Guarded, DirsTyped
    <2> QED
        BY <2>1, <2>2, <2>3, Zenon DEF TypeOK, Guarded, Typed, BooleansTyped
<1> QED
    BY <1>1, <1>2, BooleansStep, GuardedHolds, PTL DEF Spec

-----------------------------------------------------------------------------
(* An answer without an error, and what follows it, comes after the end of *)
(* the extraction.                                                         *)
SuccessInv ==
    /\ response = "ok" => extracted
    /\ command = "polling" => extracted
    /\ SuccessMeansExtracted

LEMMA SuccessStep == Guarded /\ SuccessInv /\ [Next]_vars => SuccessInv'
<1> SUFFICES ASSUME Guarded /\ SuccessInv, [Next]_vars PROVE SuccessInv'
    OBVIOUS
<1> USE DEF Guarded, Typed, StageInv, NotSent, SuccessInv, SuccessMeansExtracted, OnlyCommand, OnlyAgent, Goes,
        Handles, Answers, progressVars, callVars, commandVars, agentVars, bounds
<1>1. CASE UNCHANGED vars
    BY <1>1 DEF vars
<1>2. CASE Next
    <2>1. Download \/ UseArchive \/ FailsEarly => SuccessInv'
        BY DEF Download, UseArchive, FailsEarly
    <2>2. MigrateStart => SuccessInv'
        BY DEF MigrateStart, FirstHandlerStep
    <2>3. SendFile \/ SendingFails \/ BodyEnds => SuccessInv'
        BY DEF SendFile, SendingFails, BodyEnds, P!Read, P!Count, P!ReadFails, P!goroutine
    <2>4. UploadAnswered \/ UploadBreaks => SuccessInv'
        BY DEF UploadAnswered, UploadBreaks, P!Stop, P!goroutine
    <2>5. Poll \/ PollFails => SuccessInv'
        BY DEF Poll, PollFails, StatusAnswer
    <2>6. ProgressGoroutine => SuccessInv'
        BY DEF ProgressGoroutine, P!Goroutine, P!Tick, P!ReportsNoMore, P!Reports, P!Stopped
    <2>7. ForceReset \/ StopPhoton \/ ClaimRefused \/ Claim \/ RemoveIndex => SuccessInv'
        BY DEF ForceReset, StopPhoton, ClaimRefused, Claim, RemoveIndex, FirstHandlerStep
    <2>8. Unarchive => SuccessInv'
        BY UnarchiveFrame
    <2>9. Extracted \/ NotExtracted => SuccessInv'
        BY DEF Extracted, NotExtracted
    <2>10. Install \/ InstallFails \/ StartPhoton \/ CleanTemp => SuccessInv'
        <3> SUFFICES ASSUME Install \/ InstallFails \/ StartPhoton \/ CleanTemp PROVE SuccessInv'
            OBVIOUS
        <3>1. UNCHANGED <<response, extracted, command, flags>>
            BY DEF Install, InstallFails, StartPhoton, CleanTemp
        <3> QED
            BY <3>1
    <2>11. ResetByHand => SuccessInv'
        BY DEF ResetByHand
    <2>12. AgentRestarts => SuccessInv'
        BY DEF AgentRestarts
    <2> QED
        BY <1>2, <2>1, <2>2, <2>3, <2>4, <2>5, <2>6, <2>7, <2>8, <2>9, <2>10, <2>11, <2>12,
           NextCases
<1> QED
    BY <1>1, <1>2


(* The command reports success only if the agent has extracted all that it *)
(* was sent.                                                               *)
THEOREM SuccessIsExtraction == Spec => []SuccessMeansExtracted
<1>1. Init => SuccessInv
    BY DEF Init, SuccessInv, SuccessMeansExtracted
<1>2. SuccessInv => SuccessMeansExtracted
    BY DEF SuccessInv
<1> QED
    BY <1>1, <1>2, SuccessStep, GuardedHolds, PTL DEF Spec

-----------------------------------------------------------------------------
(* A sequential update holds the state from its claim on: while it is at   *)
(* work nobody reads "migrated", and after it only if the index is in      *)
(* place.                                                                  *)
Undisturbed == strategy = "sequential" /\ resets = 0 /\ restarts = 0

InPlace == index \notin {Old, Absent}

WaitInv ==
    Undisturbed =>
        /\ handler \in {"remove", "unarchive", "install"} => state = "migrating"
        /\ handler = "run" => state = "migrated" /\ InPlace
        /\ extracted => handler \in {"install", "run", "clean", "over"}
        /\ extracted /\ handler \in {"clean", "over"} =>
              state = "migrating" \/ (state = "migrated" /\ InPlace)
        /\ Waited => InPlace /\ handler \in {"run", "clean", "over"}

LEMMA WaitStep == Guarded /\ SuccessInv /\ WaitInv /\ [Next]_vars => WaitInv'
<1> SUFFICES ASSUME Guarded /\ SuccessInv /\ WaitInv, [Next]_vars PROVE WaitInv'
    OBVIOUS
<1> USE CommandConstants
<1> USE DEF Guarded, Typed, StageInv, NotSent, SuccessInv, WaitInv, Undisturbed, InPlace, Waited,
        OnlyCommand, OnlyAgent, Goes, Handles, Answers, progressVars, callVars, commandVars,
        agentVars, bounds
<1>1. CASE UNCHANGED vars
    BY <1>1 DEF vars
<1>2. CASE Next
    <2>1. Download \/ UseArchive \/ FailsEarly => WaitInv'
        BY DEF Download, UseArchive, FailsEarly
    <2>2. MigrateStart => WaitInv'
        BY DEF MigrateStart, FirstHandlerStep
    <2>3. SendFile \/ SendingFails \/ BodyEnds => WaitInv'
        BY DEF SendFile, SendingFails, BodyEnds, P!Read, P!Count, P!ReadFails, P!goroutine
    <2>4. UploadAnswered \/ UploadBreaks => WaitInv'
        BY DEF UploadAnswered, UploadBreaks, P!Stop, P!goroutine
    <2>5. Poll \/ PollFails => WaitInv'
        BY DEF Poll, PollFails, StatusAnswer
    <2>6. ProgressGoroutine => WaitInv'
        BY DEF ProgressGoroutine, P!Goroutine, P!Tick, P!ReportsNoMore, P!Reports, P!Stopped
    <2>7. ForceReset \/ StopPhoton \/ ClaimRefused \/ Claim \/ RemoveIndex => WaitInv'
        BY DEF ForceReset, StopPhoton, ClaimRefused, Claim, RemoveIndex, FirstHandlerStep
    <2>8. Unarchive => WaitInv'
        BY UnarchiveFrame
    <2>9. Extracted \/ NotExtracted => WaitInv'
        BY DEF Extracted, NotExtracted
    <2>10. Install \/ InstallFails \/ StartPhoton \/ CleanTemp => WaitInv'
        <3>1. Install => WaitInv'
            <4> SUFFICES ASSUME Install PROVE WaitInv'
                OBVIOUS
            <4>1. temp \in SUBSET (1..WholeEntries)
                BY FileFacts DEF DirsTyped, Install
            <4>2. index' \notin {Old, Absent}
                BY <4>1 DEF Install
            <4>3. handler' = "run" /\ state' = "migrated" /\ UNCHANGED <<extracted, flags, command>>
                BY DEF Install
            <4> QED
                BY <4>2, <4>3
        <3>2. InstallFails \/ CleanTemp => WaitInv'
            BY DEF InstallFails, CleanTemp
        <3>3. StartPhoton => WaitInv'
            BY DEF StartPhoton
        <3> QED
            BY <3>1, <3>2, <3>3
    <2>11. ResetByHand => WaitInv'
        BY DEF ResetByHand
    <2>12. AgentRestarts => WaitInv'
        BY DEF AgentRestarts
    <2> QED
        BY <1>2, <2>1, <2>2, <2>3, <2>4, <2>5, <2>6, <2>7, <2>8, <2>9, <2>10, <2>11, <2>12,
           NextCases
<1> QED
    BY <1>1, <1>2


(* With a sequential agent, a command that waits ends with the index it    *)
(* uploaded in place, unless the state was reset or the agent restarted.   *)
THEOREM SequentialWaitIsEnough == Spec => []SequentialWaitEndsInstalled
<1>1. Init => SuccessInv /\ WaitInv
    BY DEF Init, SuccessInv, SuccessMeansExtracted, WaitInv, Waited
<1>2. WaitInv => SequentialWaitEndsInstalled
    BY DEF WaitInv, Undisturbed, InPlace, SequentialWaitEndsInstalled, WaitEndsInstalled
<1> QED
    BY <1>1, <1>2, SuccessStep, WaitStep, GuardedHolds, PTL DEF Spec
=============================================================================
