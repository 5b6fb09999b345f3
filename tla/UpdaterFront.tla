---------------------------- MODULE UpdaterFront ----------------------------
(***************************************************************************)
(* What decides which archive is installed, and whether one is: the POST   *)
(* and status handlers (internal/server/migration_handler.go), the options *)
(* (internal/updater/options.go), Updater with its comparison of dates     *)
(* (internal/updater/updater.go), the date the migrator has cached, and    *)
(* the archive names (internal/photondata/archive.go).                     *)
(*                                                                         *)
(* A release is one publication of an archive: its name, its Last-Modified *)
(* date and the import date photon will report of it, in days since 1970.  *)
(* The two strategies are reduced to what decides the outcome: when photon *)
(* is off, the migration state, and the release that gets in place.        *)
(***************************************************************************)
EXTENDS Integers

CONSTANTS
    Requests,       \* requests to the agent, each made once
    Names,          \* names of archives
    DefaultName,    \* the one in the agent's database URL
    NoName,         \* the empty string
    Releases,       \* [name, day, date]: what may be published or uploaded
    Blank,          \* no index, or the empty one photon makes
    Off,            \* photon does not run
    MaxResets,      \* bound on resets, by force or by hand
    MaxRestarts     \* bound on restarts of the agent

(* The zero time.Time, the longest time.Duration, and the slack updater.go *)
(* allows for, in days.                                                    *)
ZeroTime == -719162
MaxDuration == 106751
Slack == 7

ASSUME FrontConstants ==
    /\ DefaultName \in Names /\ NoName \notin Names
    /\ Blank \notin Releases /\ Off \notin Releases
    /\ MaxResets \in Nat /\ MaxRestarts \in Nat

(* "The importTime returned by photon may be a few days before the time the *)
(* database was uploaded": by the slack at most.                           *)
ASSUME ReleasesAssumption ==
    \A x \in Releases :
        /\ x \in [name : Names, day : Nat, date : Nat]
        /\ x.day <= x.date + Slack

VARIABLES
    strategy,       \* "sequential" or "parallel"
    published,      \* the release each name stands for ("...-latest")
    index,          \* the release in node_1, or Blank
    serving,        \* the release photon has opened, Blank, or Off
    state,          \* Migrator.state
    cachedModTime,  \* Migrator.cachedModTime
    pc,             \* where each request is
    options,        \* what each request asks for: [kind, force, name]
    importTime,     \* the date each request has from photon, later from State
    release,        \* what each request has downloaded or uploads
    heard,          \* history: whether photon has told this agent a date
    shown,          \* history: what photon served when it told a request its date
    resets, restarts

indexVars == <<strategy, published, index>>
migratorVars == <<state, cachedModTime>>
callVars == <<options, importTime, release>>
bounds == <<resets, restarts>>
vars == <<indexVars, serving, migratorVars, pc, callVars, heard, shown, bounds>>

Dates == {x.date : x \in Releases} \cup {ZeroTime}

(* The parameters each handler looks at.                                   *)
Options ==
    [kind : {"download"}, force : BOOLEAN, name : Names \cup {NoName}]
        \cup [kind : {"upload"}, force : BOOLEAN, name : {NoName}]
        \cup [kind : {"get", "delete"}, force : {FALSE}, name : {NoName}]

NoOptions == [kind |-> "get", force |-> FALSE, name |-> NoName]

Steps == {"new", "reset", "ask", "told", "compare", "fetch", "stop", "claim",
          "install", "start", "refused", "over"}

TypeOK ==
    /\ strategy \in {"sequential", "parallel"}
    /\ published \in [Names -> Releases]
    /\ index \in Releases \cup {Blank}
    /\ serving \in Releases \cup {Blank, Off}
    /\ state \in {"unknown", "migrated", "migrating"}
    /\ cachedModTime \in Dates
    /\ pc \in [Requests -> Steps]
    /\ options \in [Requests -> Options]
    /\ importTime \in [Requests -> Dates]
    /\ release \in [Requests -> Releases \cup {Blank}]
    /\ heard \in BOOLEAN
    /\ shown \in [Requests -> Releases \cup {Off}]
    /\ resets \in 0..MaxResets /\ restarts \in 0..MaxRestarts

(* Mutant: the migrator is made without a state.                           *)
InitWithoutState ==
    /\ strategy \in {"sequential", "parallel"}
    /\ published \in [Names -> Releases]
    /\ index = Blank /\ serving = index
    /\ state = "" /\ cachedModTime = ZeroTime
    /\ pc = [r \in Requests |-> "new"]
    /\ options = [r \in Requests |-> NoOptions]
    /\ importTime = [r \in Requests |-> ZeroTime]
    /\ release = [r \in Requests |-> Blank]
    /\ heard = FALSE
    /\ shown = [r \in Requests |-> Off]
    /\ resets = 0 /\ restarts = 0

(* The agent as it comes up: photon is started on the index there is.      *)
Init ==
    /\ strategy \in {"sequential", "parallel"}
    /\ published \in [Names -> Releases]
    /\ \A n \in Names : published[n].name = n
    /\ index \in Releases \cup {Blank}
    /\ serving = index
    /\ state = "unknown" /\ cachedModTime = ZeroTime
    /\ pc = [r \in Requests |-> "new"]
    /\ options = [r \in Requests |-> NoOptions]
    /\ importTime = [r \in Requests |-> ZeroTime]
    /\ release = [r \in Requests |-> Blank]
    /\ heard = FALSE
    /\ shown = [r \in Requests |-> Off]
    /\ resets = 0 /\ restarts = 0

Goes(r, from, to) ==
    /\ pc[r] = from
    /\ pc' = [pc EXCEPT ![r] = to]

-----------------------------------------------------------------------------
(* Around the agent *)

(* A new release takes the place of an older one.                          *)
Publish ==
    /\ \E x \in Releases :
          /\ published[x.name].day < x.day
          /\ published' = [published EXCEPT ![x.name] = x]
    /\ UNCHANGED <<strategy, index, serving, migratorVars, pc, callVars, heard, shown, bounds>>

PhotonDies ==
    /\ serving # Off
    /\ serving' = Off
    /\ UNCHANGED <<indexVars, migratorVars, pc, callVars, heard, shown, bounds>>

(* The agent ends and is started anew.  A parallel update that is about to *)
(* install may have moved the old index away.                              *)
AgentRestarts ==
    /\ restarts < MaxRestarts
    /\ index' \in {index} \cup (IF \E r \in Requests : pc[r] = "install" THEN {Blank} ELSE {})
    /\ serving' = index'
    /\ state' = "unknown" /\ cachedModTime' = ZeroTime
    /\ pc' = [r \in Requests |-> IF pc[r] = "new" THEN "new" ELSE "over"]
    /\ heard' = FALSE
    /\ restarts' = restarts + 1
    /\ UNCHANGED <<strategy, published, callVars, shown, resets>>

-----------------------------------------------------------------------------
(* options.go and archive.go *)

(* getArchive: the default, or FromArchiveName with the name asked for.    *)
WantedArchive(o) == IF o.name # NoName THEN o.name ELSE DefaultName

(* Mutant: the name asked for is not applied to the archive.               *)
DefaultArchiveGiven(o) == DefaultName

(* What DownloadAndUpdate hands to the strategy, without any option: a     *)
(* forced one does not call getArchive.                                    *)
GivenArchive(o) == IF o.force THEN DefaultName ELSE WantedArchive(o)

-----------------------------------------------------------------------------
(* The handlers *)

(* The strategy's first step: a parallel download fetches first.           *)
FirstStep(o) ==
    IF strategy = "parallel" /\ o.kind = "download" THEN "fetch" ELSE "stop"

(* A request comes in; its options are what is left of its URL.            *)
Post(r) ==
    /\ \E o \in Options :
          /\ options' = [options EXCEPT ![r] = o]
          /\ \/ /\ o.kind = "delete" \/ o.force
                /\ resets < MaxResets
                /\ resets' = resets + 1
                /\ Goes(r, "new", "reset")
             \/ /\ o.kind \in {"get", "download"} /\ ~ o.force
                /\ Goes(r, "new", "ask")
                /\ UNCHANGED resets
             \/ /\ o.kind = "upload" /\ ~ o.force
                /\ Goes(r, "new", FirstStep(o))
                /\ UNCHANGED resets
          /\ IF o.kind = "upload"
               THEN \E x \in Releases : release' = [release EXCEPT ![r] = x]
               ELSE UNCHANGED release
    /\ UNCHANGED <<indexVars, serving, migratorVars, importTime, heard, shown, restarts>>

(* ResetState.  It asks photon and stores under one lock, so that nobody   *)
(* sees it half done.                                                      *)
Reset(r) ==
    /\ Goes(r, "reset",
            IF options[r].kind = "delete" THEN "over" ELSE FirstStep(options[r]))
    /\ \/ state' = "unknown"
       \/ serving \in Releases /\ state' = "migrated"
    /\ UNCHANGED <<indexVars, serving, cachedModTime, callVars, heard, shown, bounds>>

-----------------------------------------------------------------------------
(* State, called by the GET handler, the metrics and checkMigratability *)

(* getVersion: a date only from a photon that has opened an index; it may  *)
(* not answer, or the agent may ask at an address it does not listen on.   *)
Ask(r) ==
    /\ Goes(r, "ask", "told")
    /\ \/ /\ importTime' = [importTime EXCEPT ![r] = ZeroTime]
          /\ UNCHANGED <<heard, shown>>
       \/ /\ serving \in Releases
          /\ importTime' = [importTime EXCEPT ![r] = serving.date]
          /\ shown' = [shown EXCEPT ![r] = serving]
          /\ heard' = TRUE
    /\ UNCHANGED <<indexVars, serving, migratorVars, options, release, bounds>>

(* The answer is stored, or the cached date takes the place of none.       *)
StoreAnswer(r) ==
    /\ Goes(r, "told", IF options[r].kind = "get" THEN "over" ELSE "compare")
    /\ IF importTime[r] = ZeroTime
         THEN /\ importTime' = [importTime EXCEPT ![r] = cachedModTime]
              /\ UNCHANGED <<state, cachedModTime>>
         ELSE /\ state' = IF state = "unknown" THEN "migrated" ELSE state
              /\ cachedModTime' = importTime[r]
              /\ UNCHANGED importTime
    /\ UNCHANGED <<indexVars, serving, options, release, heard, shown, bounds>>

-----------------------------------------------------------------------------
(* checkMigratability *)

(* time.Time.Sub saturates.                                                *)
Sub(t, u) ==
    IF t - u > MaxDuration THEN MaxDuration
    ELSE IF t - u < -MaxDuration THEN -MaxDuration ELSE t - u

(* Mutant: the boundary of the slack.                                      *)
UpToDateBelowSlack(lm, t) == Sub(lm, t) < Slack

UpToDate(lm, t) == Sub(lm, t) <= Slack

(* GetLastModified and the comparison, which has all it needs by now.      *)
Compare(r) ==
    /\ LET lm == published[GivenArchive(options[r])].day
       IN  IF UpToDate(lm, importTime[r]) THEN Goes(r, "compare", "refused")
           ELSE Goes(r, "compare", FirstStep(options[r]))
    /\ UNCHANGED <<indexVars, serving, migratorVars, callVars, heard, shown, bounds>>

(* Mutant: the error of GetLastModified is ignored, and its zero time used. *)
GetLastModifiedErrorIgnored(r) ==
    /\ IF UpToDate(ZeroTime, importTime[r]) THEN Goes(r, "compare", "refused")
       ELSE Goes(r, "compare", FirstStep(options[r]))
    /\ UNCHANGED <<indexVars, serving, migratorVars, callVars, heard, shown, bounds>>

(* No such archive, no date, or a server that does not answer.             *)
GetLastModifiedFails(r) ==
    /\ Goes(r, "compare", "over")
    /\ UNCHANGED <<indexVars, serving, migratorVars, callVars, heard, shown, bounds>>

-----------------------------------------------------------------------------
(* The strategies *)

Fetch(r) ==
    /\ Goes(r, "fetch", IF strategy = "parallel" THEN "stop" ELSE "install")
    /\ release' = [release EXCEPT ![r] = published[GivenArchive(options[r])]]
    /\ UNCHANGED <<indexVars, serving, migratorVars, options, importTime, heard, shown, bounds>>

StopPhoton(r) ==
    /\ Goes(r, "stop", "claim")
    /\ serving' = Off
    /\ UNCHANGED <<indexVars, migratorVars, callVars, heard, shown, bounds>>

ClaimRefused(r) ==
    /\ state = "migrating"
    /\ Goes(r, "claim", "over")
    /\ UNCHANGED <<indexVars, serving, migratorVars, callVars, heard, shown, bounds>>

(* The sequential strategy removes the index before it has another.        *)
Claim(r) ==
    /\ state # "migrating"
    /\ state' = "migrating"
    /\ Goes(r, "claim",
            IF strategy = "sequential" /\ options[r].kind = "download"
              THEN "fetch" ELSE "install")
    /\ index' = IF strategy = "sequential" THEN Blank ELSE index
    /\ UNCHANGED <<strategy, published, serving, cachedModTime, callVars, heard, shown, bounds>>

(* A download or an extraction fails, or the index cannot be moved: the    *)
(* state stays what it is.                                                 *)
UpdateFails(r) ==
    /\ \/ Goes(r, "fetch", "over") \/ Goes(r, "install", "over")
       \/ strategy = "parallel" /\ Goes(r, "stop", "over")
    /\ UNCHANGED <<indexVars, serving, migratorVars, callVars, heard, shown, bounds>>

Install(r) ==
    /\ Goes(r, "install", "start")
    /\ index' = release[r]
    /\ state' = "migrated"
    /\ UNCHANGED <<strategy, published, serving, cachedModTime, callVars, heard, shown, bounds>>

(* A start finds photon running, starts it, or does not.                   *)
StartPhoton(r) ==
    /\ Goes(r, "start", "over")
    /\ serving' \in {serving, IF serving = Off THEN index ELSE serving}
    /\ UNCHANGED <<indexVars, migratorVars, callVars, heard, shown, bounds>>

-----------------------------------------------------------------------------
Step(r) ==
    \/ Post(r) \/ Reset(r)
    \/ Ask(r) \/ StoreAnswer(r)
    \/ Compare(r) \/ GetLastModifiedFails(r)
    \/ Fetch(r) \/ StopPhoton(r) \/ ClaimRefused(r) \/ Claim(r)
    \/ UpdateFails(r) \/ Install(r) \/ StartPhoton(r)

Next ==
    \/ Publish \/ PhotonDies \/ AgentRestarts
    \/ \E r \in Requests : Step(r)

Spec == Init /\ [][Next]_vars

-----------------------------------------------------------------------------
(* "WithArchiveName sets the name of the archive to be downloaded": what a *)
(* download is about to install is of the archive it was asked for.        *)
Installing(r) == options[r].kind = "download" /\ pc[r] \in {"install", "start"}

IsAskedFor(r) == release[r].name = WantedArchive(options[r])

DownloadsWhatIsAsked == \A r \in Requests : Installing(r) => IsAskedFor(r)

(* So it is when the download is not forced.                               *)
UnforcedDownloadsWhatIsAsked ==
    \A r \in Requests : Installing(r) /\ ~ options[r].force => IsAskedFor(r)

(* "Simply comparing it with importTime will result in an update every     *)
(* time": it does not.  A download that is not forced and had its date     *)
(* from photon installs something later than what photon served then,      *)
(* whatever is published, updated or reset between its question and its    *)
(* installation.                                                           *)
NoRepeatedDownload ==
    \A r \in Requests :
        Installing(r) /\ ~ options[r].force /\ shown[r] # Off
            => release[r].day > shown[r].day

(* Nobody is told that the database is up to date by an agent to which     *)
(* photon has never told a date: the zero time is older than anything.     *)
RefusalNeedsDate == \A r \in Requests : pc[r] = "refused" => heard
=============================================================================
