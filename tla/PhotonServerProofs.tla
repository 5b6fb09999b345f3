------------------------- MODULE PhotonServerProofs -------------------------
(***************************************************************************)
(* Theorems about PhotonServer, for any number of callers and processes.   *)
(* None needs the fairness of Spec: they hold of SafetySpec, which is what *)
(* the updates use.                                                        *)
(*                                                                         *)
(* The inductive invariant is CommandInv: the mutex is held only by a Stop *)
(* whose command has a process nobody has waited for, a live child is that *)
(* process, and a recorded exit is the child's own.                        *)
(***************************************************************************)
EXTENDS PhotonServer, TLAPS

(* While a Stop holds the mutex, the command it waits for stays in place.  *)
LockedInWait == serverMutex # Nil => cmd # Nil /\ Waitable

(* The process of a command has been forked.                               *)
ProcessWasBorn ==
    cmd # Nil /\ cmd.process # Nil => children[cmd.process] # "unborn"

(* Only a command with a process has an exit.                              *)
ExitNeedsProcess == cmd # Nil /\ cmd.exit # "none" => cmd.process # Nil

CommandInv ==
    /\ TypeOK
    /\ LockedInWait
    /\ ProcessWasBorn
    /\ ExitNeedsProcess
    /\ LiveChildIsOwned
    /\ ExitIsRecorded

-----------------------------------------------------------------------------
(* A command Start may work on is well formed, and one that it can start   *)
(* has no live child: this is where the check for an existing process and  *)
(* the replacement only after an exit are needed.                          *)
LEMMA CommandToStartType ==
    ASSUME TypeOK
    PROVE  CommandToStart \in Commands
  BY DEF TypeOK, CommandToStart, NewCommand, Commands, ExitStates

LEMMA StartableHasNoChild ==
    ASSUME CommandInv, ~ SaysAlreadyRunning, CommandToStart.process = Nil
    PROVE  \A p \in Pids : ~ Alive(p)
<1> SUFFICES ASSUME NEW p \in Pids, Alive(p)
             PROVE  FALSE
  OBVIOUS
<1>1. cmd # Nil /\ cmd.process = p /\ cmd.exit = "none"
  BY DEF CommandInv, LiveChildIsOwned
<1>2. CommandToStart.process = p
  BY <1>1 DEF CommandToStart
<1>3. QED
  BY <1>2, NilAssumption

LEMMA InitEstablishes == Init => CommandInv
  BY NilAssumption DEF Init, CommandInv, TypeOK, LockedInWait, ProcessWasBorn,
     ExitNeedsProcess, LiveChildIsOwned, ExitIsRecorded, Alive

LEMMA LaunchPreserves ==
    ASSUME CommandInv, NEW p \in Pids, StartLaunch(p)
    PROVE  CommandInv'
<1> USE DEF CommandInv, StartLaunch, Unlocked, Startable
<1>1. CommandToStart \in Commands
  BY CommandToStartType
<1>2. /\ cmd' \in Commands
      /\ cmd'.process = p
      /\ cmd'.exit = CommandToStart.exit
  BY <1>1 DEF Commands
<1>3. CommandToStart.exit = "none"
  BY DEF CommandToStart, NewCommand, SaysAlreadyRunning, ExitNeedsProcess,
         TypeOK, Commands, ExitStates
<1>4. cmd' # Nil
  BY <1>2, NilAssumption
<1>5. TypeOK'
  BY <1>2 DEF TypeOK
<1>6. LiveChildIsOwned'
  <2>1. \A q \in Pids : ~ Alive(q)
    BY StartableHasNoChild
  <2>2. QED
    BY <1>2, <1>3, <1>4, <2>1 DEF LiveChildIsOwned, Alive, TypeOK
<1>7. ProcessWasBorn'
  BY <1>2 DEF ProcessWasBorn, TypeOK
<1>8. QED
  BY <1>2, <1>3, <1>4, <1>5, <1>6, <1>7, NilAssumption
     DEF LockedInWait, ExitNeedsProcess, ExitIsRecorded

LEMMA FailedStartPreserves ==
    ASSUME CommandInv, StartFails
    PROVE  CommandInv'
<1> USE DEF CommandInv, StartFails, Unlocked
<1>1. CommandToStart \in Commands
  BY CommandToStartType
<1>2. cmd' # Nil
  BY <1>1, NilAssumption
<1>3. CASE cmd = Nil \/ cmd.exit = "exited"
  <2>1. cmd' = NewCommand
    BY <1>3 DEF CommandToStart
  <2>2. \A p \in Pids : ~ Alive(p)
    BY <1>3 DEF LiveChildIsOwned
  <2>3. QED
    BY <1>1, <1>2, <2>1, <2>2
       DEF TypeOK, LockedInWait, ProcessWasBorn, ExitNeedsProcess,
           LiveChildIsOwned, ExitIsRecorded, NewCommand, Alive
<1>4. CASE ~ (cmd = Nil \/ cmd.exit = "exited")
  <2>1. UNCHANGED vars
    BY <1>4 DEF CommandToStart, vars
  <2>2. QED
    BY <2>1 DEF vars, TypeOK, LockedInWait, ProcessWasBorn, ExitNeedsProcess,
                LiveChildIsOwned, ExitIsRecorded, Alive, Waitable
<1>5. QED
  BY <1>3, <1>4

(* Cancelling changes nothing the invariant speaks of.                     *)
LEMMA CancelPreserves ==
    ASSUME CommandInv, cmd # Nil,
           cmd' = [cmd EXCEPT !.cancelled = TRUE],
           UNCHANGED <<children, agent>>,
           serverMutex' \in Callers \cup {Nil},
           serverMutex' # Nil => Waitable
    PROVE  CommandInv'
<1> USE DEF CommandInv
<1>1. cmd \in Commands
  BY DEF TypeOK
<1>2. /\ cmd' \in Commands
      /\ cmd'.process = cmd.process
      /\ cmd'.exit = cmd.exit
  BY <1>1 DEF Commands
<1>3. cmd' # Nil
  BY <1>2, NilAssumption
<1>4. QED
  BY <1>2, <1>3
     DEF TypeOK, LockedInWait, ProcessWasBorn, ExitNeedsProcess,
         LiveChildIsOwned, ExitIsRecorded, Alive, Waitable

LEMMA ReturnPreserves ==
    ASSUME CommandInv, NEW c \in Callers, StopReturn(c)
    PROVE  CommandInv'
<1> USE DEF CommandInv, StopReturn
<1>1. /\ cmd \in Commands
      /\ cmd.process \in Pids
      /\ cmd.exit = "none"
  BY NilAssumption DEF TypeOK, LockedInWait, Waitable, Commands
<1>2. /\ cmd' \in Commands
      /\ cmd'.process = cmd.process
      /\ cmd'.exit = children[cmd.process]
  BY <1>1 DEF Commands, ExitStates
<1>3. cmd' # Nil
  BY <1>2, NilAssumption
<1>4. QED
  BY <1>1, <1>2, <1>3, NilAssumption
     DEF TypeOK, LockedInWait, ProcessWasBorn, ExitNeedsProcess,
         LiveChildIsOwned, ExitIsRecorded, Alive

(* A child that ends is not reaped by that: its command still waits.       *)
LEMMA EndPreserves ==
    ASSUME CommandInv, NEW p \in Pids, children[p] = "alive",
           NEW how \in {"exited", "signaled"},
           children' = [children EXCEPT ![p] = how],
           UNCHANGED <<serverMutex, cmd, agent>>
    PROVE  CommandInv'
<1> USE DEF CommandInv
<1>1. cmd # Nil /\ cmd.process = p /\ cmd.exit = "none"
  BY DEF LiveChildIsOwned, Alive
<1>2. QED
  BY <1>1
     DEF TypeOK, LockedInWait, ProcessWasBorn, ExitNeedsProcess,
         LiveChildIsOwned, ExitIsRecorded, Alive, Waitable

LEMMA StepPreserves ==
    ASSUME CommandInv, [Next]_vars
    PROVE  CommandInv'
<1>1. CASE UNCHANGED vars
  BY <1>1 DEF CommandInv, vars, TypeOK, LockedInWait, ProcessWasBorn,
       ExitNeedsProcess, LiveChildIsOwned, ExitIsRecorded, Alive, Waitable
<1>2. CASE Start
  BY <1>1, <1>2, LaunchPreserves, FailedStartPreserves DEF Start, StartNoOp
<1>3. ASSUME NEW c \in Callers, Stop(c)
      PROVE  CommandInv'
  <2>1. CASE StopUnused
    BY <1>1, <2>1 DEF StopUnused
  <2>2. CASE StopNothingToWait
    BY <2>2, CancelPreserves DEF StopNothingToWait, Unlocked
  <2>3. CASE StopBegin(c)
    BY <2>3, CancelPreserves DEF StopBegin
  <2>4. CASE StopReturn(c)
    BY <2>4, ReturnPreserves
  <2>5. QED
    BY <1>3, <2>1, <2>2, <2>3, <2>4 DEF Stop
<1>4. ASSUME NEW p \in Pids, ChildEnds(p) \/ WaitDelayKill(p)
      PROVE  CommandInv'
  BY <1>4, EndPreserves DEF ChildEnds, WaitDelayKill
<1>5. CASE AgentCancelled \/ AgentExits
  BY <1>5 DEF AgentCancelled, AgentExits, CommandInv, TypeOK, LockedInWait,
       ProcessWasBorn, ExitNeedsProcess, LiveChildIsOwned, ExitIsRecorded,
       Alive, Waitable
<1>6. CASE AgentRestarts
  BY <1>6, NilAssumption
     DEF AgentRestarts, CommandInv, TypeOK, LockedInWait, ProcessWasBorn,
         ExitNeedsProcess, LiveChildIsOwned, ExitIsRecorded, Alive, Waitable
<1>7. QED
  BY <1>1, <1>2, <1>3, <1>4, <1>5, <1>6 DEF Next, Environment

-----------------------------------------------------------------------------
(* The inductive invariant holds in every reachable state.                 *)
THEOREM CommandInvariant == SafetySpec => []CommandInv
<1>1. Init => CommandInv
  BY InitEstablishes
<1>2. CommandInv /\ [Next]_vars => CommandInv'
  BY StepPreserves
<1>3. QED
  BY <1>1, <1>2, PTL DEF SafetySpec

(* Type correctness of the server manager.                                 *)
THEOREM TypeCorrect == SafetySpec => []TypeOK
<1>1. CommandInv => TypeOK
  BY DEF CommandInv
<1>2. QED
  BY <1>1, CommandInvariant, PTL

(* Every live photon is the process of the command the agent holds and has *)
(* not waited for, whatever the interleaving of Start, Stop and deaths.    *)
THEOREM LiveChildOwned == SafetySpec => []LiveChildIsOwned
<1>1. CommandInv => LiveChildIsOwned
  BY DEF CommandInv
<1>2. QED
  BY <1>1, CommandInvariant, PTL

(* Two photons never run at once.                                          *)
THEOREM AtMostOnePhoton == SafetySpec => []OneLiveChild
<1>1. CommandInv => OneLiveChild
  BY DEF CommandInv, LiveChildIsOwned, OneLiveChild
<1>2. QED
  BY <1>1, CommandInvariant, PTL

(* What Start and Running read from ProcessState is the child's own end.   *)
THEOREM RecordedExit == SafetySpec => []ExitIsRecorded
<1>1. CommandInv => ExitIsRecorded
  BY DEF CommandInv
<1>2. QED
  BY <1>1, CommandInvariant, PTL

(* When a Stop that waited returns, no photon runs.                        *)
THEOREM NoChildAfterStop == SafetySpec => StopLeavesNoChild
<1>1. ASSUME CommandInv, CommandInv', [Next]_vars,
             NEW c \in Callers, serverMutex = c, serverMutex' # c
      PROVE  \A p \in Pids : ~ Alive(p)'
  <2>1. StopReturn(c) \/ AgentRestarts
    BY <1>1, NilAssumption
       DEF Next, Start, Stop, Environment, vars, Unlocked, StartNoOp,
           StartLaunch, StartFails, StopUnused, StopNothingToWait, StopBegin,
           StopReturn, ChildEnds, WaitDelayKill, AgentCancelled, AgentExits
  <2>2. CASE AgentRestarts
    BY <2>2 DEF AgentRestarts, Alive
  <2>3. CASE StopReturn(c)
    <3>1. cmd \in Commands /\ cmd.process \in Pids
      BY <1>1, <2>3, NilAssumption
         DEF CommandInv, TypeOK, LockedInWait, Waitable, Commands
    <3>2. \A p \in Pids : Alive(p) => p = cmd.process
      BY <1>1 DEF CommandInv, LiveChildIsOwned
    <3>3. QED
      BY <2>3, <3>1, <3>2 DEF StopReturn, Alive
  <2>4. QED
    BY <2>1, <2>2, <2>3
<1>2. CommandInv /\ CommandInv' /\ [Next]_vars
        => [\A c \in Callers : serverMutex = c /\ serverMutex' # c
                                 => \A p \in Pids : ~ Alive(p)']_vars
  BY <1>1
<1>3. QED
  BY <1>2, CommandInvariant, PTL DEF SafetySpec, StopLeavesNoChild

(* What Running returns is the opposite of what its comment says.          *)
THEOREM RunningIsInverted == SafetySpec => []RunningMeansGone
<1>1. CommandInv => RunningMeansGone
  BY DEF CommandInv, LiveChildIsOwned, RunningMeansGone, Running
<1>2. QED
  BY <1>1, CommandInvariant, PTL

(* A photon killed by a signal and then stopped, or stopped after a failed *)
(* fork, is down for good: no call of Start or Stop changes that.          *)
THEOREM OutageLasts == SafetySpec => StuckUntilRestart
<1>1. ASSUME CommandInv, CommandInv', [Next]_vars, Stuck, cmd' # Nil
      PROVE  Stuck' /\ \A p \in Pids : ~ Alive(p)'
  <2> USE <1>1 DEF CommandInv
  <2>1. cmd # Nil /\ cmd \in Commands
    BY DEF Stuck, SaysAlreadyRunning, TypeOK
  <2>2. \/ cmd.exit \notin {"none", "exited"}
        \/ cmd.cancelled /\ cmd.process = Nil /\ cmd.exit = "none"
    BY DEF Stuck, SaysAlreadyRunning, ExitNeedsProcess
  <2>3. \A p \in Pids : ~ Alive(p)
    BY <2>2, NilAssumption DEF LiveChildIsOwned
  <2>4. cmd' = cmd \/ cmd' = [cmd EXCEPT !.cancelled = TRUE]
    BY <2>1, <2>2, <2>3, NilAssumption
       DEF Next, Start, Stop, Environment, vars, StartNoOp, StartLaunch, StartFails,
           StopUnused, StopNothingToWait, StopBegin, StopReturn, ChildEnds,
           WaitDelayKill, AgentCancelled, AgentExits, AgentRestarts,
           SaysAlreadyRunning, CommandToStart, Startable, LockedInWait, Waitable, TypeOK
  <2>5. Stuck'
    BY <2>1, <2>2, <2>4 DEF Stuck, SaysAlreadyRunning, Commands
  <2>6. \A p \in Pids : Alive(p)' => cmd'.process = p /\ cmd'.exit = "none"
    BY DEF LiveChildIsOwned
  <2>7. QED
    BY <2>1, <2>2, <2>4, <2>5, <2>6, NilAssumption DEF Commands
<1>2. CommandInv /\ CommandInv' /\ [Next]_vars
        => [Stuck => cmd' = Nil \/ (Stuck' /\ \A p \in Pids : ~ Alive(p)')]_vars
  BY <1>1
<1>3. QED
  BY <1>2, CommandInvariant, PTL DEF SafetySpec, StuckUntilRestart
=============================================================================
