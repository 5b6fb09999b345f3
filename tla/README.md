# photon-container in TLA+

A TLA+ model of `photon-container`: the agent that runs the photon search
server and swaps its index, from the process manager and the migrator to the two
update strategies, the HTTP handlers, the downloader and the unarchiver; and the
command that uploads an archive to it. TLC checks the models on small
instances; TLAPS proves the main results for every instance.

## 1. The system

`photon-agent` is one Go process. It owns one photon child process (a JVM), one
data directory, and an HTTP API. Whoever operates it posts an archive
(`POST /migrate/upload`) or has the agent download one
(`POST /migrate/download`), asks for the state (`GET /migrate/status`) and
resets it (`DELETE /migrate/status`). `photon-db-updater` is a command that
downloads an archive and uploads it to an agent. Every request is served by a
goroutine of its own, and nothing queues or serialises updates.

| Component (source) | State it keeps | Operations | Who calls it |
|---|---|---|---|
| Photon manager (`internal/photon/server.go`) | mutex, one `exec.Cmd` and its cancel function | `Start`, `Stop`, `Running` | main, updaters |
| Migrator (`internal/photondata/migrator.go`) | mutex, state unknown / migrating / migrated, cached import date; on disk `node_1`, `node_1.old` | `State`, `ResetState`, `MigrateByReplace`, `MigrateByRemoveFirst` and the closure it returns | updaters, status handlers, metrics |
| Updater front (`internal/updater/updater.go`) | none | reset when forced, else (downloads only) `checkMigratability`; then the strategy | POST handlers |
| Sequential updater (`sequential.go`) | on disk `temp`, `photon-db.tar.bz2` | `DownloadAndUpdate`, `UpdateAsync` | updater front |
| Parallel updater (`parallel.go`) | the same | the same, and `restartPhotonServer` | updater front |
| Unarchiver (`internal/unarchiver`) | none; writes into `temp` | `Unarchive` | updaters |
| Downloader (`internal/downloader`) | none; writes `tmp-*` and the destination | `Download`, `GetLastModified` | updaters, metrics, command |
| HTTP API (`internal/server`) | none | two POST handlers, status GET and DELETE | operators |
| Agent main (`cmd/photon-agent`) | the root context | start-up, shutdown on a signal | |
| Updater command, client (`cmd/photon-db-updater`, `internal/client`) | none | download, upload, wait | operators |
| Progress (`progress.go` of client and downloader) | a counter, a mutex, a ticking goroutine | `Read` or `Write`, `Stop` | client, downloader |
| Metrics, logging | a cached timestamp; none | | |

What is hard about it:

- The only things that keep two updates apart are the mutex of the photon
  manager, held for one `Start` or `Stop`, and the migration state, which guards
  a *part* of an update: from the removal of the index to the rename
  (sequential), or the two renames only (parallel). The stop of photon, its
  start, the temp directory, the archive file and the cleanup are outside it.
- An `exec.Cmd` starts one process at most, and only `Stop` waits for it. What
  `Start` believes of the child comes from `ProcessState`, which is nil until
  somebody has waited.
- `State` asks photon first and locks afterwards; `ResetState` locks first and
  asks with the mutex held.
- Every system call of a migration can fail, the agent can die between any two,
  and the state is lost in a restart while the directories are not.
- An archive takes hours to download, while its publisher may replace it, and
  hours to upload, while the connection, the agent or the file may break.
- The upload is answered when its archive is extracted; what comes after runs in
  a goroutine whose errors only the state shows.

What makes each component correct:

- *Photon manager*: never two photons; a `Stop` comes back, and only when photon
  is gone; what is recorded of the child is what became of it.
- *Migrator*: migrations exclude each other; a failed one keeps the gate closed;
  a replacement never loses the index; a success has an index in place.
- *Updaters*: the index changes only while photon is stopped; what is installed
  is one whole archive; an outage shows in the status; every update ends.
- *Updater front*: the archive installed is the one asked for; what photon
  serves is not downloaded again, and nothing is refused without a date.
- *Downloader*: nothing but a verified archive under its final name; no
  temporary files left.
- *Command*: its success means what it says; what arrives is the file, whole; it
  ends.

`PROJECT.json` lists the hazards with their lines and the properties for each.

## 2. Modules

| Module | Models | Extends / uses |
|---|---|---|
| `PhotonServer` | the photon manager, its child, the agent's shutdown and restart | |
| `MigrationGate` | what the migration state promises, without directories (abstract) | |
| `Migrator` | the migrator, one step per system call and critical section | refines `MigrationGate` |
| `UpdateSteps` | what both strategies share: requests, check, stop, start, download, extraction, cleanup, photon | instances of `PhotonServer` and `Migrator` |
| `SequentialUpdater`, `ParallelUpdater` | the order of steps of each strategy | extend `UpdateSteps` |
| `UpdaterFront` | handlers, options, `checkMigratability`, archive names and dates | |
| `Downloader` | `Download` with a publisher that updates body and checksum apart | |
| `Unarchiver` | one `Unarchive`, entry by entry | |
| `Progress` | the counting reader and its goroutine | |
| `UpdaterCommand` | the command, its client, and the upload handler at the other end | instances of `Progress` and `Unarchiver` |
| `*Proofs` | theorems about the module of that name | extend it and `TLAPS` |
| `UpdateStepsProofs` | theorems about any order of steps a strategy may have | instances of the proofs of `PhotonServer` and `Migrator`; extended by those of the two strategies |
| `MC*` | instances for TLC | extend it |

**PhotonServer.** `cmd` is `photonServer` with the cancel function: its process,
its `ProcessState` (`none`, `exited` for `Exited()`, `signaled` for a death by
signal) and whether its context is cancelled. `Start` is one action per
outcome (no-op, launch, error), each under the mutex; `Stop` is split where it
blocks: `StopBegin` cancels and keeps the mutex, `StopReturn` is the return of
`Wait`. `children` is the operating system's view. The child may end at any
moment by exit or by signal. `WaitDelayKill` is the SIGKILL that `os/exec` sends
ten seconds after the cancellation. `AgentCancelled` and `AgentExits` are the
shutdown: `ListenAndServe` returns when `Shutdown` *begins*, so main does not
wait for photon. `AgentRestarts` assumes what a container gives: no process of
the old agent outlives it.

**Migrator.** `phase[c]` is the point a goroutine has reached in a method.
`dir` maps the three directories to a content: an abstract whole index, `Blank`
(the empty index photon creates), `Broken` (partly removed) or `Absent`.
`os.Rename` of a directory refuses an existing target (`CanRename`).
`os.RemoveAll` is two steps with a failure possible before or between them.
`strategy` is the agent's flag, which decides which of the two migrations its
callers make; `AgentRestarts` may change it and drops everything else but the
directories. `resets` is history, the number of resets done.

**UpdateSteps and the strategies.** `pc[r]` is the step a request is at; every
action moves it and performs the component's action of that name
(`PS!StopBegin(r)`, `M!Claim(r)`...). Contents are now sets of parts `<<r, k>>`,
file `k` of the archive of request `r`, so that partial and mixed extractions
are visible; `dir["temp"]` stands for `temp/photon_data/node_1`. An extraction
into an existing directory adds to it; a file written after somebody else
removed the directory is an error. A removal of `temp` is two steps, the files
and then the directory unless something was written in between, and can fail at
either. `served` is what photon has opened. The agent can be cancelled and can
end between any two steps. Three variables are history: `overlapped`, whether
two requests have ever run at once; `litter`, the files that a removal which
failed or never came has left in `temp`; and `restarts`.

**UpdaterFront.** A release is one publication of an archive, with the day of
its `Last-Modified` and the import date photon reports of it. `Post` is the
handler with the options it takes from the URL; `Ask` and `StoreAnswer` are the
two halves of `State`, used by the GET handler, the metrics and
`checkMigratability`; `Compare` is the subtraction that saturates, with Go's
zero time and the longest `time.Duration` in days. The strategies are reduced
to when photon is off, the state, and the release that gets in place.

**Unarchiver, Progress, UpdaterCommand.** An archive is its number of entries,
what its end is like (marker, cut between entries, cut inside one) and whether
it is compressed. Its units are read from the file through `Progress` (`Read`
and `Count`, between which the goroutine can hold the mutex), arrive at the
handler, and are taken by `Unarchive` (header, temporary file, rename).
`bytesRead` at one end is `arrived` at the other. The handler answers when it
has extracted and goes on; the command then polls, if it was told to wait.

**Downloader.** Versions are numbers and a checksum is its version's number.
`Damaged` is any incomplete or corrupted file. `overlapped` is history: calls
during which another was in progress. A crash ends all calls and leaves their
temporary files behind (`leaked`).

Definitions whose comment begins with "Mutant" are plausible mistakes in that
code, used to see that a property can fail.

## 3. Runs

| Run | Instance | Shows |
|---|---|---|
| `photon_server` | 2 callers, 4 processes, forks may fail | no second photon; `Stop` leaves none and returns; two ways into an outage that lasts |
| `already_running` | 1 caller, 2 processes | *violation*: the branch "already running" of `Start` |
| `migrator` | 3 callers, 2 archives, 1 date, 2 resets, restarts that may change the strategy | gate, exclusion, no lost index, true reports |
| `sequential` | 2 requests alone or at once, all failures, 1 forced, 1 end of the agent | what one at a time guarantees; what holds anyway: outage visible, components used properly, both end |
| `parallel` | the same, none forced, photon gives no date | the same |
| `sequential_swap` | 2 requests at once, nothing fails | *violation*: photon runs while the index is removed |
| `parallel_mixed` | 2 requests at once, nothing fails | *violation*: a mixture of two archives is installed |
| `downloader` | 2 callers, 2 publications, 1 crash | only verified files, nothing left behind |
| `updater_front` | 2 requests of any kind and options, 4 releases of 2 archives, 1 reset, 1 restart | which archive is installed, which download refused |
| `forced_archive` | 1 forced download | *violation*: the name asked for is dropped |
| `updater_command` | 8 files of at most 2 entries, both strategies, all flags and failures, 1 reset, 1 restart | what success means, what gets installed, that no upload hangs |
| `wait_ends_early` | the same without failures | *violation*: the wait ends before the migration |

*Bounds.* A fault of these protocols needs two actors, and one that has finished
before or one more that comes in: two requests (each also run before and after
the other), three callers of the migrator (with two resets all three can be
inside at once), two callers of the downloader. Four processes allow a start
after an exit, after a death by signal and after a failed fork, and one more
life; in the updaters there is one process for main and one for each request,
as many as can be started. Two parts are enough to tell whole, partial and
mixed indexes apart. `MaxInFlight` is how many requests an operator lets run at
once. `MaxResets` bounds forced requests and resets, `MaxRestarts` the ends of
an agent: one is enough to leave something behind for a request after it. One
import date tells a photon that has answered from one that has not; the
parallel run does without it, which only takes away the refusal "database is up
to date" (its own module, `UpdaterFront`, has the dates: a release that lags by
the whole slack, the next a day later, and one that does not lag, which are the
two sides of the boundary). Files of two entries can be cut before, between and
inside of entries; blocks of one unit let a tick come at every point.
`CHECK_DEADLOCK FALSE` is in the instances whose processes or requests are used
up; the migrator and the downloader never stop and are checked for deadlock.

*One request at a time.* `ServesWhatIsOnDisk`, `LoneInstallIsWhole` and
`LoneSwapWhenStopped` are about the time until two requests first run at once.
They say that the design is right for the operator who waits, with every
failure, cancellation and crash; the two violating runs say what overlapping
requests break. `LoneInstallIsWhole` allows files that a removal which failed,
or a crash before it, left in `temp`: the next extraction adds to them. This
litter is all that can be wrong with the index.

*Forced requests.* `StatusShowsOutage` holds in the sequential mode with a
reset. In the parallel mode it does not: a forced request resets the state that
an earlier failure left at `migrating` and extracts for hours before it
restarts photon, which is off all the while, with the state `migrated` or
`unknown`. The parallel run has therefore no forced request. The property
leaves out a photon that a signal ended, which no start brings back:
`StuckUntilRestart` is about that.

*Fairness.* `PhotonServer`: a cancelled child is killed (a timer of `os/exec` in
a goroutine of the agent) and a `Wait` on a dead child returns. Updaters: weak
fairness for each request, whose goroutine keeps running as long as the agent
does, and for the kill. Weak fairness of a request includes that downloads and
uploads come to an end and that photon answers a status query; the agent's HTTP
client has no timeout, so this last one is an assumption about photon. Command:
weak fairness for its own steps, for the handler and for the goroutine that
holds the mutex, and strong fairness for the transport's reads, since the
goroutine takes the mutex on every tick and Go's mutex is fair to a waiter that
starves. No fairness for photon's own end, for arrivals, ticks, signals, or
failures.

*What the violations show.* (1) `already_running`: `Start` treats a child killed
by a signal as running and never starts photon again after such a stop.
(2) `sequential_swap`: the first update starts photon after the second has
stopped it and before the second claims the state; the index is then removed
under a running photon. (3) `parallel_mixed`: the second upload extracts into
the directory the first is about to install, and the first reports a mixture as
migrated. `InstalledIsWhole` and `ServesWhatIsOnDisk` fail the same way for two
sequential requests at once: the cleanup of the first removes files the second
has just extracted. (4) `forced_archive`: a forced download installs the default
archive, whatever name it was given. (5) `wait_ends_early`: a parallel agent
answers the upload before it claims the state, so the command may read the
`migrated` of the index from before.

`Running` is inverted: it is true for a photon that has exited. Nothing calls
it; the theorem `RunningIsInverted` says so for every state.

*The wait of the command.* `CommandEnds` promises an end to a command that waits
only if the state becomes and stays `migrated`. After a migration that failed
it polls until a signal comes: there is no other end in the code. No upload
hangs, although the goroutine of the progress returns with the mutex locked when
all bytes are read: `LockedAtTheEnd` shows that nobody takes the mutex after
that. Both are about a file that does not grow while it is uploaded.

## 4. Proofs

All theorems hold for every value of the constants that meets the named
assumptions of their modules. TLC evaluates those assumptions in every run.

**PhotonServerProofs.** Assumptions: `Nil` differs from callers, processes and
commands. `LiveChildIsOwned` is not inductive: that a start finds no live child
needs that a command without a recorded exit still has its process, and that
the holder of the mutex waits for a command that is waitable. `CommandInv` is
that strengthening: types, ownership, the recorded exit, and what the holder of
the mutex waits for. From it: `AtMostOnePhoton`, `RecordedExit`,
`NoChildAfterStop`, `RunningIsInverted`, and `OutageLasts`: only a new agent
leads out of either way into an outage. None of this needs the fairness of
`Spec`: the theorems are about `SafetySpec`, so that they carry over to the
updates, which refine no more than that.

**MigratorProofs.** `MigratorImplementsGate` maps `state` to the gate and the
callers inside a migration to its holders; it needs the types only, since every
step is one of the gate or leaves gate and holders alone. `GateBoundsOverlap` is
about the gate: the number of migrations inside is at most the number of resets,
plus one while the gate is closed, for only a closing lets one in; it is
inductive once the holders are known to be finite. `OverlapBound` follows from
both. The directories need `DirInv`: each
strategy keeps to its own phases; at most one caller, its owner, is between the
rename that made `node_1.old` and the end of its removal, because `os.Rename`
refuses an existing target, and from the owner's swap until that removal
`node_1` holds what was extracted (nobody else can move it aside while
`node_1.old` exists); what lies in `temp` is whole, as the updaters hand it over
to the migrator; and without a reset a migration is alone. `ReportsAreTrue` and
`IndexIsNeverLost` follow. (That `temp` is whole is the migrator's view; whether
the updaters keep it so is `LoneUpdatesInstallAll`, on their composition.)

**UpdateStepsProofs.** The two strategies take the same steps in two orders.
`UpdateNext` is what a step of either can be: the shared steps, the claim, and
removal and installation or replacement; where the strategies differ its steps
and the invariants go by the constant `Strategy`, which an assumption of
`UpdateSteps` restricts to the two there are. Everything is proved once, of
`UpdateSpec`, for any number of requests, processes, resets and restarts.

- `UpdatesUsePhotonServer` and `UpdatesUseMigrator`: every step of the
  composition is one of the component or leaves it alone. The migrator's part
  needs to know that what is extracted is a set of parts of some request's
  archive (`PlaceInv`, `TempInv`).
- What is proved of the components alone therefore holds when updates of any
  number use them: `UpdatesRunOnePhoton`, `UpdatesStopPhoton`,
  `UpdatesCannotRevive`, `UpdatesOverlapByResets`, `UpdatesReportWhatIsInPlace`
  and `UpdatesKeepTheIndex` cite the theorems of `PhotonServerProofs` and
  `MigratorProofs` through the refinement. `CommandInv` holds of the
  composition too and is used below. (In the updates no fork fails, as in their
  runs; a failed fork is a matter of `PhotonServer` alone.)
- `UpdatesServeTheDisk` and `UpdatesSwapWhenStopped` from `LoneInv`: until two
  requests overlap at most one is in flight (`Alone`); main has started photon
  before there is any (`Booted`, so that no boot comes in between); no photon
  runs while a request is between its stop and its start (`Stopped`: the
  sequential one fetches and extracts there, the parallel one has done so
  before its stop); and photon serves something only while it runs. That a stop
  leaves no photon is where `CommandInv` is needed: a command that Stop does not
  wait for has no live child.
- `UpdatesInstallAll` from `PhaseInv`, which ties a request's place in its
  update to its place in the migrator, and `LoneTemp`, which says what `temp`
  holds at each place: litter when nobody has written to it, litter and the
  parts so far during an extraction, the whole and litter before the rename,
  nothing half way through a removal. A parallel request carries the whole
  through its stop and its claim, a sequential one goes on to the rename at
  once.
- `UpdatesShowOutage` from `OutageInv`, for requests that overlap too: while the
  agent is up its command has a process, and once that was waited for, the
  state is `migrating` or some request is on its way to the claim of the state
  or to a start (`OnTheWay`). The claim closes the gate; whoever opens it starts
  photon next (the end of a migration) or stops it again and claims (a reset of
  a sequential update). A forced parallel update opens it and extracts, which
  is why the property ends with the first of these.
- `UpdatesTyped`, from the types of the two components and what the steps move
  between them.

**SequentialUpdaterProofs, ParallelUpdaterProofs.** Every step of the strategy is
an `UpdateNext` (`StepsAreShared`), so each has the theorems under the names of
its runs' properties: `UsesPhotonServer`, `UsesMigrator`, `TypeCorrect`,
`LoneUpdatesServeTheDisk`, `LoneUpdatesSwapWhenStopped`, `LoneUpdatesInstallAll`
and `OutageShows`. For the parallel one also `ParallelUpdatesKeepTheIndex`: an
extracted index in `node_1` or `node_1.old` gives way only to another extracted
one, however many updates run at once. (It says nothing about which parts it
has: see `parallel_mixed`.) The run of the parallel strategy has no forced
request; the theorems do.

**UpdaterFrontProofs.** `TypeCorrect` is inductive by itself. `RefusedByADate` from `HeardInv`: before photon has told
a date, every import time and the cached one are the zero time, whose saturated
distance from any release is above the slack. `UnforcedGetsItsArchive` from
`FetchedInv`: the publisher keeps names apart, and from its fetch to its start a
download holds a release of the name it was given. `NothingIsRepeated` from
`LaterInv`: what is published only grows, so a release fetched later than the
comparison is at least as new as the one compared, which was newer than what
photon served by more than the slack its date can lag.

**UpdaterCommandProofs.** `Guarded` is inductive: the handler's stage and the
unarchiver's agree, what was read, counted and is left adds up to the size of
the file, what was taken are its first entries, and what is good enough to
install was a file with an end the unarchiver accepts. From it:
`InstalledAsUploaded`, `TypeCorrect`, and `NobodyWaitsForTheLock` (the
goroutine leaves only once all is counted, and then nothing is left).
`SuccessInv` says that an answer "ok" on its way, or a command that polls or is
done, means extracted. `WaitInv` says that with a sequential agent undisturbed
by a reset or a restart, the state is `migrating` from before the answer until
the index is in place.

**DownloaderProofs.** `IInv` adds to the properties what a call knows at each
point: it has a response before it copies, a temporary file from then to its
rename or removal, one that equals the fetched checksum once verified, no
checksum newer than the published one, and that two calls in progress have
overlapped.

*Only model-checked*: the liveness properties (`StopReturns`, `RequestsEnd`,
`CommandEnds`), whose fairness is about `ENABLED`, which is out of the prover's
reach. Every other property of a passing run is a theorem. The properties of the
violating runs are false; that a run finds them so is their proof.

## 5. Not modelled

- Metrics: read-only views. `Collect` calls `Migrator.State`, which the models
  let anybody do at any time; the rest is a cached timestamp that nothing else
  reads, and delays at start-up.
- Logging, flags and their parsing, routing, `/healthz`: wiring and I/O without
  state of their own.
- Speed limits and the retries of the HTTP clients: they change when a read
  returns, not what; a request with its retries is one step that succeeds or
  fails.
- The splitting of URLs and the spelling of archive names: names are values.
- A file that grows while it is uploaded, and the modification times and modes
  of extracted files.
- `Downloader` and `UpdaterFront` are not composed with `UpdateSteps`, nor
  `Unarchiver` with several requests: `Fetch` is one step there, and
  `ExtractPart` writes a part at a time into the directory all requests share.
  What each abstracts the other has.
- Time. Nothing in the code but ticks, the ten seconds of `WaitDelay` and the
  comparison of dates depends on it.

## 6. Where it could go on

The composition of `Downloader` with `UpdateSteps`, to replace `Fetch` by the
steps inside it, including the checksum fetched before a body that another
request may have replaced. An abstract specification of a lone update (photon
off, index swapped whole or not at all, photon on), which both strategies would
be shown to implement: `LoneInv`, `LoneTemp` and `OutageInv` are what that proof
would need. What overlapping sequential updates still guarantee about the index
beyond `UpdatesReportWhatIsInPlace`.
