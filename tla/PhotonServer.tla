---------------------------- MODULE PhotonServer ----------------------------
(***************************************************************************)
(* The manager of the photon child process: internal/photon/server.go.     *)
(*                                                                         *)
(* Start and Stop hold one mutex and work on one exec.Cmd, which can start *)
(* a process at most once and must be replaced by a new one afterwards.    *)
(* Nothing but Stop waits for the child, so a child that dies on its own   *)
(* stays a zombie of its command until the next Stop.                      *)
(*                                                                         *)
(* The actions have no program counter: a caller of the module (an HTTP    *)
(* handler, a goroutine of an updater, main) decides when it calls what.   *)
(* Stop is split where it blocks, in Wait.                                 *)
(***************************************************************************)
CONSTANTS
    Callers,       \* goroutines that call Start and Stop
    Pids,          \* processes the agent can fork: bounds the number of starts
    Nil,           \* no command, no process, no lock holder
    ForkMayFail    \* whether os.StartProcess can fail on its own

ASSUME ForkAssumption == ForkMayFail \in BOOLEAN

VARIABLES
    serverMutex,   \* PhotonServer.mutex: its holder while Stop is in Wait
    cmd,           \* PhotonServer.photonServer and its cancel function
    children,      \* what the operating system knows of each process
    agent          \* the agent: up, its context cancelled, or gone

vars == <<serverMutex, cmd, children, agent>>

(* ProcessState of an exec.Cmd: nil until Wait has returned, then either   *)
(* an exit (Exited() holds) or a death by signal (Exited() does not).      *)
ExitStates == {"none", "exited", "signaled"}

Commands == [process : Pids \cup {Nil}, exit : ExitStates, cancelled : BOOLEAN]

(* Nil is told apart from every caller, process and command.               *)
ASSUME NilAssumption == Nil \notin Callers \cup Pids \cup Commands

NewCommand == [process |-> Nil, exit |-> "none", cancelled |-> FALSE]

TypeOK ==
    /\ serverMutex \in Callers \cup {Nil}
    /\ cmd \in Commands \cup {Nil}
    /\ children \in [Pids -> {"unborn", "alive", "exited", "signaled"}]
    /\ agent \in {"up", "stopping", "gone"}

Init ==
    /\ serverMutex = Nil
    /\ cmd = Nil
    /\ children = [p \in Pids |-> "unborn"]
    /\ agent = "up"

Unlocked == serverMutex = Nil /\ agent # "gone"

-----------------------------------------------------------------------------
(* Start *)

(* The branch commented "The server is already running".                   *)
SaysAlreadyRunning ==
    cmd # Nil /\ cmd.exit # "none" /\ cmd.exit # "exited"

(* Mutant: a new command for every start.                                  *)
CommandAlwaysNew == NewCommand

(* The command Start works on: a new one at first and after an exit.       *)
CommandToStart ==
    IF cmd = Nil \/ cmd.exit = "exited" THEN NewCommand ELSE cmd

(* exec.Cmd.Start refuses a command that has a process ("already started") *)
(* and one whose context, a child of the agent's, is done.                 *)
Startable ==
    /\ CommandToStart.process = Nil
    /\ ~ CommandToStart.cancelled
    /\ agent = "up"

(* Start returns nil without doing anything.                               *)
StartNoOp ==
    /\ Unlocked
    /\ SaysAlreadyRunning
    /\ UNCHANGED vars

(* Start forks the process p and returns nil.                              *)
StartLaunch(p) ==
    /\ Unlocked
    /\ ~ SaysAlreadyRunning
    /\ Startable
    /\ children[p] = "unborn"
    /\ cmd' = [CommandToStart EXCEPT !.process = p]
    /\ children' = [children EXCEPT ![p] = "alive"]
    /\ UNCHANGED <<serverMutex, agent>>

(* Start returns an error; a command it has just made stays.               *)
StartFails ==
    /\ Unlocked
    /\ ~ SaysAlreadyRunning
    /\ ~ Startable \/ ForkMayFail
    /\ cmd' = CommandToStart
    /\ UNCHANGED <<serverMutex, children, agent>>

-----------------------------------------------------------------------------
(* Stop *)

(* Nothing was ever started: Stop returns at once.                         *)
StopUnused ==
    /\ Unlocked
    /\ cmd = Nil
    /\ UNCHANGED vars

Waitable == cmd.process # Nil /\ cmd.exit = "none"

(* Stop cancels, and Wait returns at once with "not started" or "Wait was  *)
(* already called", which Stop logs and forgets.                           *)
StopNothingToWait ==
    /\ Unlocked
    /\ cmd # Nil
    /\ ~ Waitable
    /\ cmd' = [cmd EXCEPT !.cancelled = TRUE]
    /\ UNCHANGED <<serverMutex, children, agent>>

(* Stop cancels, which sends SIGTERM, and blocks in Wait with the mutex.   *)
StopBegin(c) ==
    /\ Unlocked
    /\ cmd # Nil
    /\ Waitable
    /\ cmd' = [cmd EXCEPT !.cancelled = TRUE]
    /\ serverMutex' = c
    /\ UNCHANGED <<children, agent>>

(* Mutants: Stop does not wait for the child; it takes any end for an exit. *)
StopReturnEarly(c) ==
    /\ serverMutex = c
    /\ agent # "gone"
    /\ cmd' = [cmd EXCEPT !.exit = children[cmd.process]]
    /\ serverMutex' = Nil
    /\ UNCHANGED <<children, agent>>

StopReturnAfterTerm(c) ==
    /\ serverMutex = c
    /\ agent # "gone"
    /\ cmd' = [cmd EXCEPT !.exit = "exited"]
    /\ serverMutex' = Nil
    /\ UNCHANGED <<children, agent>>

StopReturnSaysExited(c) ==
    /\ serverMutex = c
    /\ agent # "gone"
    /\ children[cmd.process] \in {"exited", "signaled"}
    /\ cmd' = [cmd EXCEPT !.exit = "exited"]
    /\ serverMutex' = Nil
    /\ UNCHANGED <<children, agent>>

(* Wait has reaped the child and Stop returns.                             *)
StopReturn(c) ==
    /\ serverMutex = c
    /\ agent # "gone"
    /\ children[cmd.process] \in {"exited", "signaled"}
    /\ cmd' = [cmd EXCEPT !.exit = children[cmd.process]]
    /\ serverMutex' = Nil
    /\ UNCHANGED <<children, agent>>

-----------------------------------------------------------------------------
(* Running, which nothing calls.                                           *)
Running == cmd # Nil /\ cmd.exit = "exited"

-----------------------------------------------------------------------------
(* The child and the agent *)

(* The child ends with an exit status (the JVM does on SIGTERM) or dies by *)
(* a signal (out of memory, or SIGTERM before the JVM has its handlers).   *)
ChildEnds(p) ==
    /\ children[p] = "alive"
    /\ \E how \in {"exited", "signaled"} :
          children' = [children EXCEPT ![p] = how]
    /\ UNCHANGED <<serverMutex, cmd, agent>>

(* Mutant: no WaitDelay, so that only the agent's own end kills the child. *)
KillAtShutdownOnly(p) ==
    /\ cmd # Nil
    /\ cmd.process = p
    /\ children[p] = "alive"
    /\ agent = "stopping"
    /\ children' = [children EXCEPT ![p] = "signaled"]
    /\ UNCHANGED <<serverMutex, cmd, agent>>

(* WaitDelay: a child that outlives the cancellation is sent SIGKILL.      *)
WaitDelayKill(p) ==
    /\ cmd # Nil
    /\ cmd.process = p
    /\ children[p] = "alive"
    /\ cmd.cancelled \/ agent = "stopping"
    /\ agent # "gone"
    /\ children' = [children EXCEPT ![p] = "signaled"]
    /\ UNCHANGED <<serverMutex, cmd, agent>>

(* SIGINT or SIGTERM to the agent cancels the context of every command.    *)
AgentCancelled ==
    /\ agent = "up"
    /\ agent' = "stopping"
    /\ UNCHANGED <<serverMutex, cmd, children>>

(* ListenAndServe returns as soon as Shutdown begins and main ends: nothing *)
(* waits for the child or for a Stop in progress.                          *)
AgentExits ==
    /\ agent = "stopping"
    /\ agent' = "gone"
    /\ UNCHANGED <<serverMutex, cmd, children>>

(* The agent is the first process of its container: whenever and however it *)
(* ends, every child ends with it, and the next agent starts from nothing. *)
AgentRestarts ==
    /\ serverMutex' = Nil
    /\ cmd' = Nil
    /\ children' = [p \in Pids |-> "unborn"]
    /\ agent' = "up"

-----------------------------------------------------------------------------
Start == StartNoOp \/ (\E p \in Pids : StartLaunch(p)) \/ StartFails

Stop(c) == StopUnused \/ StopNothingToWait \/ StopBegin(c) \/ StopReturn(c)

Environment ==
    \/ \E p \in Pids : ChildEnds(p) \/ WaitDelayKill(p)
    \/ AgentCancelled
    \/ AgentExits
    \/ AgentRestarts

Next == Start \/ (\E c \in Callers : Stop(c)) \/ Environment

(* watchCtx runs in a goroutine of the agent: a cancelled child is killed  *)
(* after ten seconds at the latest, and Wait then returns.                 *)
Fairness ==
    /\ \A p \in Pids : WF_vars(WaitDelayKill(p))
    /\ \A c \in Callers : WF_vars(StopReturn(c))

SafetySpec == Init /\ [][Next]_vars

Spec == SafetySpec /\ Fairness

-----------------------------------------------------------------------------
Alive(p) == children[p] = "alive"

(* Every live photon is the process of the one command the agent still     *)
(* holds and has not waited for.  A start that replaced the command of a   *)
(* live child would leave a process nobody can stop, with the index and    *)
(* the port in its hands.                                                  *)
LiveChildIsOwned ==
    \A p \in Pids : Alive(p) => cmd # Nil /\ cmd.process = p /\ cmd.exit = "none"

(* Two photons never run at once on one index.                             *)
OneLiveChild == \A p, q \in Pids : Alive(p) /\ Alive(q) => p = q

(* When a Stop that had to wait returns, no photon runs: the updaters      *)
(* remove or replace the index as soon as Stop is back.                    *)
StopLeavesNoChild ==
    [][\A c \in Callers : serverMutex = c /\ serverMutex' # c
                             => \A p \in Pids : ~ Alive(p)']_vars

(* What Start and Running conclude from ProcessState is what became of the *)
(* child: the recorded exit is that of the command's own process.          *)
ExitIsRecorded ==
    cmd # Nil /\ cmd.exit # "none" => children[cmd.process] = cmd.exit

(* A Stop that waits is back after a bounded time, even when photon does   *)
(* not react to SIGTERM, unless the agent itself ends first.               *)
StopReturns ==
    \A c \in Callers : serverMutex = c ~> (serverMutex # c \/ agent = "gone")

(* The comment of the no-op branch of Start: "The server is already        *)
(* running."                                                               *)
NoOpMeansRunning == SaysAlreadyRunning => Alive(cmd.process)

(* The comment of Running says that it "returns true if the Photon server  *)
(* is running."  When it returns true, none is.                            *)
RunningMeansGone == Running => \A p \in Pids : ~ Alive(p)

(* No way back: a child that died by a signal and was waited for, and a    *)
(* command that was cancelled before it got a process.                     *)
Stuck == SaysAlreadyRunning \/ (cmd # Nil /\ cmd.cancelled /\ cmd.process = Nil)

(* From then on photon is down until the agent starts anew, whoever calls  *)
(* Start or Stop.                                                          *)
StuckUntilRestart ==
    [][Stuck => cmd' = Nil \/ (Stuck' /\ \A p \in Pids : ~ Alive(p)')]_vars
=============================================================================
