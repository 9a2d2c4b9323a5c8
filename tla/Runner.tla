-------------------------------- MODULE Runner --------------------------------
(******************************************************************************)
(* One instance of a service: the supervise goroutine of its Runner, the      *)
(* operating-system processes it launches, the instance's entry in the store,  *)
(* and the callers that stop it at the same time (cmdStop and stopAll,         *)
(* cmdRestart, cmdDelete, cmdScale, and runReload's drain and abort).          *)
(* A process is named by its launch number; 0 is no process.                   *)
(******************************************************************************)
EXTENDS Integers, FiniteSets

CONSTANTS
  Stoppers,            \* concurrent callers of Runner.Stop
  Roles,               \* which callers they may be
  Policies,            \* the AutoRestart and MaxRestarts (0 = unlimited) of a spec
  CrashLoopThreshold,  \* crashLoopThreshold
  MaxCrashes,          \* bound: exits nobody asked for, failed launches included
  MaxWipes             \* bound: times the entry is wiped from elsewhere

AllRoles == {"keep", "clear", "delete", "scale", "drain", "abort"}

ASSUME RunnerAssumption ==
  /\ 0 \notin Stoppers
  /\ Roles \subseteq AllRoles
  /\ Policies \subseteq [auto : BOOLEAN, max : Nat]
  /\ CrashLoopThreshold \in Nat \ {0}
  /\ MaxCrashes \in Nat
  /\ MaxWipes \in Nat

VARIABLES
  policy,      \* the service's AutoRestart and MaxRestarts
  pc,          \* where supervise is
  st,          \* its local copy of the entry, to be written back
  failures,    \* consecutive short runs
  short,       \* the last run was shorter than minStableUptime
  stopped,     \* Runner.stopped
  cmd,         \* the process Runner.cmd has started, 0 while there is none
  launches,    \* processes started so far
  live,        \* processes that run
  termed,      \* processes sent SIGTERM
  killed,      \* processes sent SIGKILL
  late,        \* auxiliary: processes launched after stopped was set
  crashes,     \* auxiliary: exits counted against MaxCrashes
  wipes,       \* auxiliary: times the entry was wiped from elsewhere
  since,       \* auxiliary: launches since then
  entry,       \* the instance's InstanceState in the store
  registered,  \* the service is in the store
  place,       \* the runner in Daemon.runners: "new" (a reload's), "tracked", ...
  mu,          \* Daemon.mu: the stopper that holds it across steps, or 0
  at,          \* where each stopper is
  role,        \* on whose behalf it stops
  target,      \* the process Stop has signalled
  read         \* its local copy of the entry

superVars   == <<pc, st, failures, short>>
processVars == <<cmd, launches, live, late, crashes, since, wipes>>
signalVars  == <<termed, killed>>
stopperVars == <<at, role, target, read>>
\* What supervise never writes, and what the callers of Stop never write.
stopSide  == <<signalVars, stopperVars, stopped, registered, place, mu, policy>>
superSide == <<superVars, processVars, policy>>
vars == <<superVars, processVars, entry, stopSide>>

NoEntry == [status |-> "none", pid |-> 0, restarts |-> 0]

Statuses == {"none", "starting", "running", "errored", "stopped", "draining"}

SuperPoints == {"top", "lookup", "load", "exec", "publish", "wait", "exitRead",
                "exitWrite", "check", "found", "decide", "retireRead",
                "retireWrite", "resched", "sleep", "gone"}

StopPoints == {"idle", "refused", "mark", "call", "await", "setRead",
               "setWrite", "finish", "done"}

EntryType == [status : Statuses, pid : Nat, restarts : Nat]

TypeOK ==
  /\ policy \in Policies
  /\ pc \in SuperPoints
  /\ st \in EntryType
  /\ failures \in Nat
  /\ short \in BOOLEAN
  /\ stopped \in BOOLEAN
  /\ cmd \in Nat
  /\ launches \in Nat
  /\ live \in SUBSET Nat
  /\ termed \in SUBSET Nat
  /\ killed \in SUBSET Nat
  /\ late \in SUBSET Nat
  /\ crashes \in Nat
  /\ since \in Nat
  /\ wipes \in Nat
  /\ entry \in EntryType
  /\ registered \in BOOLEAN
  /\ place \in {"new", "tracked", "dropped", "aborted"}
  /\ mu \in Stoppers \cup {0}
  /\ at \in [Stoppers -> StopPoints]
  /\ role \in [Stoppers -> AllRoles \cup {"none"}]
  /\ target \in [Stoppers -> Nat]
  /\ read \in [Stoppers -> EntryType]

(* The entry is written before the runner is created, and Start resets        *)
(* stopped; a runner is created by startInstancesLocked or cmdScale (tracked)  *)
(* or as the replacement of a rolling reload (new).                            *)
Init ==
  /\ policy \in Policies
  /\ pc = "top" /\ st = NoEntry /\ failures = 0 /\ short = FALSE
  /\ stopped = FALSE
  /\ cmd = 0 /\ launches = 0 /\ live = {} /\ late = {}
  /\ crashes = 0 /\ since = 0 /\ wipes = 0
  /\ termed = {} /\ killed = {}
  /\ entry = [NoEntry EXCEPT !.status = "starting"]
  /\ registered = TRUE
  /\ place \in {"new", "tracked"}
  /\ mu = 0
  /\ at = [s \in Stoppers |-> "idle"]
  /\ role = [s \in Stoppers |-> "none"]
  /\ target = [s \in Stoppers |-> 0]
  /\ read = [s \in Stoppers |-> NoEntry]

(* SetInstanceState: an upsert, ignored once the service is deleted.          *)
SetInstanceState(e) == entry' = IF registered THEN e ELSE entry

--------------------------------------------------------------------------------
(* supervise and runOnce.  A local copy is forgotten once it is written back. *)

WriteBack(e) == SetInstanceState(e) /\ st' = NoEntry

Goto(from, to) == pc = from /\ pc' = to

(* isStopped, at the top of the loop and after runOnce                        *)
MayLaunchAnyway == TRUE
MayLaunch == ~stopped

Top ==
  /\ Goto("top", IF MayLaunch THEN "lookup" ELSE "gone")
  /\ UNCHANGED <<st, failures, short, processVars, entry, stopSide>>

Lookup ==
  /\ Goto("lookup", IF registered THEN "load" ELSE "check")
  /\ short' = IF registered THEN short ELSE TRUE
  /\ UNCHANGED <<st, failures, processVars, entry, stopSide>>

Load ==
  /\ Goto("load", "exec")
  /\ st' = entry
  /\ UNCHANGED <<failures, short, processVars, entry, stopSide>>

Exec ==
  LET p == launches + 1 IN
  /\ Goto("exec", "publish")
  /\ st' = [st EXCEPT !.status = "running", !.pid = p]
  /\ launches' = p
  /\ since' = since + 1
  /\ live' = live \cup {p}
  /\ cmd' = p
  /\ late' = IF stopped THEN late \cup {p} ELSE late
  /\ UNCHANGED <<failures, short, crashes, wipes, entry, stopSide>>

ExecFails ==
  /\ crashes < MaxCrashes
  /\ Goto("exec", "publish")
  /\ st' = [st EXCEPT !.status = "errored"]
  /\ short' = TRUE
  /\ crashes' = crashes + 1
  /\ UNCHANGED <<failures, cmd, launches, live, late, since, wipes, entry, stopSide>>

Publish ==
  /\ Goto("publish", IF st.status = "running" THEN "wait" ELSE "check")
  /\ WriteBack(st)
  /\ UNCHANGED <<failures, short, processVars, stopSide>>

(* cmd.Wait returns once the process is dead, whoever else waits for it.      *)
WaitReturnsEarly == TRUE
WaitReturns == cmd \notin live

Reap ==
  /\ WaitReturns
  /\ Goto("wait", "exitRead")
  /\ cmd' = 0
  /\ short' \in BOOLEAN
  /\ UNCHANGED <<st, failures, launches, live, late, crashes, since, wipes, entry,
                 stopSide>>

ExitRead ==
  /\ Goto("exitRead", IF entry = NoEntry THEN "check" ELSE "exitWrite")
  /\ st' = entry
  /\ UNCHANGED <<failures, short, processVars, entry, stopSide>>

ExitWrite ==
  /\ Goto("exitWrite", "check")
  /\ WriteBack([st EXCEPT !.pid = 0])
  /\ UNCHANGED <<failures, short, processVars, stopSide>>

Check ==
  /\ Goto("check", IF MayLaunch THEN "found" ELSE "gone")
  /\ UNCHANGED <<st, failures, short, processVars, entry, stopSide>>

Found ==
  /\ Goto("found", IF ~registered THEN "gone"
                   ELSE IF policy.auto THEN "decide" ELSE "retireRead")
  /\ UNCHANGED <<st, failures, short, processVars, entry, stopSide>>

BudgetSpentOffByOne(e) == policy.max > 0 /\ e.restarts > policy.max
BudgetSpentUnguarded(e) == e.restarts >= policy.max
BudgetSpent(e) == policy.max > 0 /\ e.restarts >= policy.max

FailuresDecay(n) == IF short THEN n + 1 ELSE n - 1
FailuresAfter(n) == IF short THEN n + 1 ELSE 0

StatusOffByOne(n) == IF n > CrashLoopThreshold THEN "errored" ELSE "starting"
StatusAfter(n) == IF n >= CrashLoopThreshold THEN "errored" ELSE "starting"

GiveUp ==
  /\ BudgetSpent(entry)
  /\ Goto("decide", "retireRead")
  /\ UNCHANGED <<st, failures, short, processVars, entry, stopSide>>

Reschedule ==
  /\ ~BudgetSpent(entry)
  /\ Goto("decide", "resched")
  /\ failures' = FailuresAfter(failures)
  /\ st' = [entry EXCEPT !.restarts = @ + 1, !.status = StatusAfter(failures')]
  /\ short' = FALSE
  /\ UNCHANGED <<processVars, entry, stopSide>>

RescheduleWrite ==
  /\ Goto("resched", "sleep")
  /\ WriteBack(st)
  /\ UNCHANGED <<failures, short, processVars, stopSide>>

Wake ==
  /\ Goto("sleep", "top")
  /\ UNCHANGED <<st, failures, short, processVars, entry, stopSide>>

(* setInstanceStatus: read the entry, change it, write it back.               *)
ChangedKeepingPid(e, status) == [e EXCEPT !.status = status]
Changed(e, status) == [e EXCEPT !.status = status, !.pid = 0]

RetireRead ==
  /\ Goto("retireRead", "retireWrite")
  /\ st' = Changed(entry, IF policy.auto THEN "errored" ELSE "stopped")
  /\ UNCHANGED <<failures, short, processVars, entry, stopSide>>

RetireWrite ==
  /\ Goto("retireWrite", "gone")
  /\ WriteBack(st)
  /\ UNCHANGED <<failures, short, processVars, stopSide>>

Supervise ==
  \/ Top \/ Lookup \/ Load \/ Exec \/ ExecFails \/ Publish \/ Reap
  \/ ExitRead \/ ExitWrite \/ Check \/ Found \/ GiveUp \/ Reschedule
  \/ RescheduleWrite \/ Wake \/ RetireRead \/ RetireWrite

--------------------------------------------------------------------------------
(* The operating system: a process exits on its own, on SIGTERM, on SIGKILL   *)

Exits(p) ==
  /\ p \in live
  /\ live' = live \ {p}
  /\ UNCHANGED <<superVars, cmd, launches, late, since, wipes, entry, stopSide>>

Crash ==
  /\ crashes < MaxCrashes
  /\ crashes' = crashes + 1
  /\ \E p \in live \ (termed \cup killed) : Exits(p)

ObeyTerm == crashes' = crashes /\ \E p \in live \cap termed : Exits(p)

Die == crashes' = crashes /\ \E p \in live \cap killed : Exits(p)

--------------------------------------------------------------------------------
(* The callers of Stop                                                        *)

Move(s, from, to) == at[s] = from /\ at' = [at EXCEPT ![s] = to]

Take(s, r, to) ==
  /\ r \in Roles
  /\ Move(s, "idle", to)
  /\ role' = [role EXCEPT ![s] = r]

(* cmdStop, stopAll and cmdRestart copy d.runners under d.mu and stop later.  *)
BeginSnapshot(s) ==
  /\ mu = 0
  /\ place = "tracked"
  /\ \/ Take(s, "keep", "call")
     \/ registered /\ Take(s, "clear", "call")
  /\ UNCHANGED <<superSide, signalVars, target, read, stopped, entry,
                 registered, place, mu>>

(* cmdDelete forgets the runners, then refuses if the service is not stored.  *)
BeginDelete(s) ==
  /\ mu = 0
  /\ place = "tracked"
  /\ Take(s, "delete", IF registered THEN "call" ELSE "refused")
  /\ place' = "dropped"
  /\ UNCHANGED <<superSide, signalVars, target, read, stopped, entry,
                 registered, mu>>

(* cmdScale keeps d.mu until it returns.                                      *)
BeginScale(s) ==
  /\ mu = 0
  /\ registered
  /\ place = "tracked"
  /\ Take(s, "scale", "call")
  /\ mu' = s
  /\ UNCHANGED <<superSide, signalVars, target, read, stopped, entry,
                 registered, place>>

(* runReload swaps the runner out and reads its entry, if it still has one,   *)
(* to mark it draining; both under d.mu, which supervise does not take.        *)
BeginDrain(s) ==
  /\ mu = 0
  /\ place \in {"tracked", "dropped"}
  /\ \A t \in Stoppers : role[t] # "drain"
  /\ Take(s, "drain", IF entry = NoEntry THEN "call" ELSE "mark")
  /\ place' = "dropped"
  /\ mu' = IF entry = NoEntry THEN 0 ELSE s
  /\ read' = [read EXCEPT ![s] = IF entry = NoEntry THEN NoEntry
                                 ELSE [entry EXCEPT !.status = "draining"]]
  /\ UNCHANGED <<superSide, signalVars, target, stopped, entry, registered>>

MarkDraining(s) ==
  /\ Move(s, "mark", "call")
  /\ SetInstanceState(read[s])
  /\ read' = [read EXCEPT ![s] = NoEntry]
  /\ mu' = 0
  /\ UNCHANGED <<superSide, signalVars, role, target, stopped,
                 registered, place>>

(* runReload gives up on a replacement that never became healthy.             *)
BeginAbort(s) ==
  /\ place = "new"
  /\ Take(s, "abort", "call")
  /\ place' = "aborted"
  /\ UNCHANGED <<superSide, signalVars, target, read, stopped, entry,
                 registered, mu>>

(* runReload routes to a healthy replacement.                                 *)
Adopt ==
  /\ mu = 0
  /\ place = "new"
  /\ place' = "tracked"
  /\ UNCHANGED <<superSide, signalVars, stopperVars, stopped, entry,
                 registered, mu>>

(* Stop sets stopped and reads cmd in one critical section; a Cmd whose       *)
(* Process is still nil has nothing to signal.                                 *)
CallStop(s) ==
  /\ Move(s, "call", IF cmd = 0 THEN "setRead" ELSE "await")
  /\ stopped' = TRUE
  /\ target' = [target EXCEPT ![s] = cmd]
  /\ termed' = IF cmd = 0 THEN termed ELSE termed \cup {cmd}
  /\ UNCHANGED <<superSide, killed, role, read, entry, registered, place, mu>>

Exited(s) ==
  /\ target[s] \notin live
  /\ Move(s, "await", "setRead")
  /\ target' = [target EXCEPT ![s] = 0]
  /\ UNCHANGED <<superSide, signalVars, role, read, stopped, entry,
                 registered, place, mu>>

(* drainTimeout passed: SIGKILL, and no further wait.                         *)
SkipKill(s) == killed
Kill(s) == killed \cup {target[s]}

TimedOut(s) ==
  /\ Move(s, "await", "setRead")
  /\ killed' = Kill(s)
  /\ target' = [target EXCEPT ![s] = 0]
  /\ UNCHANGED <<superSide, termed, role, read, stopped, entry,
                 registered, place, mu>>

SetRead(s) ==
  /\ Move(s, "setRead", "setWrite")
  /\ read' = [read EXCEPT ![s] = Changed(entry, "stopped")]
  /\ UNCHANGED <<superSide, signalVars, role, target, stopped, entry,
                 registered, place, mu>>

SetWrite(s) ==
  /\ Move(s, "setWrite", "finish")
  /\ SetInstanceState(read[s])
  /\ read' = [read EXCEPT ![s] = NoEntry]
  /\ UNCHANGED <<superSide, signalVars, role, target, stopped, registered,
                 place, mu>>

(* What the caller does once Stop has returned.                               *)
FinishKeep(s) ==
  /\ role[s] = "keep"
  /\ Move(s, "finish", "done")
  /\ UNCHANGED <<superSide, signalVars, role, target, read, stopped, entry,
                 registered, place, mu>>

(* RemoveInstanceState, after a drain or an abort                             *)
FinishRemove(s) ==
  /\ role[s] \in {"drain", "abort"}
  /\ Move(s, "finish", "done")
  /\ entry' = NoEntry
  /\ UNCHANGED <<superSide, signalVars, role, target, read, stopped,
                 registered, place, mu>>

FinishScale(s) ==
  /\ role[s] = "scale"
  /\ Move(s, "finish", "done")
  /\ entry' = NoEntry
  /\ place' = "dropped"
  /\ mu' = 0
  /\ UNCHANGED <<superSide, signalVars, role, target, read, stopped,
                 registered>>

(* cmdRestart: all entries cleared, the service (re)stored, new runners.      *)
FinishClear(s) ==
  /\ role[s] = "clear"
  /\ mu = 0
  /\ Move(s, "finish", "done")
  /\ entry' = NoEntry
  /\ registered' = TRUE
  /\ place' = "dropped"
  /\ UNCHANGED <<superSide, signalVars, role, target, read, stopped, mu>>

FinishDelete(s) ==
  /\ role[s] = "delete"
  /\ Move(s, "finish", "done")
  /\ entry' = NoEntry
  /\ registered' = FALSE
  /\ UNCHANGED <<superSide, signalVars, role, target, read, stopped, place, mu>>

--------------------------------------------------------------------------------
(* Requests that reach the service but not this runner, which goes on.        *)

Wipe ==
  /\ wipes < MaxWipes
  /\ entry' = NoEntry
  /\ wipes' = wipes + 1
  /\ since' = 0
  /\ UNCHANGED <<superVars, cmd, launches, live, late, crashes, signalVars,
                 stopperVars, stopped, mu, policy>>

(* cmdResurrect, a restart that overlaps another one or a start, and a reload  *)
(* that finds no runners: the entries cleared, the service (re)stored, and     *)
(* d.runners overwritten with new runners.                                     *)
Forget ==
  /\ mu = 0
  /\ Wipe
  /\ registered' = TRUE
  /\ place' = IF place = "tracked" THEN "dropped" ELSE place

(* cmdDelete, where it found the runner not, or not yet, in d.runners.        *)
Unstore ==
  /\ registered
  /\ Wipe
  /\ registered' = FALSE
  /\ UNCHANGED place

Elsewhere == Forget \/ Unstore

--------------------------------------------------------------------------------
Begin(s) ==
  \/ BeginSnapshot(s) \/ BeginDelete(s) \/ BeginScale(s)
  \/ BeginDrain(s) \/ BeginAbort(s)

Stopping(s) ==
  \/ MarkDraining(s) \/ CallStop(s) \/ Exited(s) \/ TimedOut(s)
  \/ SetRead(s) \/ SetWrite(s)
  \/ FinishKeep(s) \/ FinishRemove(s) \/ FinishScale(s)
  \/ FinishClear(s) \/ FinishDelete(s)

Next ==
  \/ Supervise
  \/ Crash \/ ObeyTerm \/ Die
  \/ Adopt \/ Elsewhere
  \/ \E s \in Stoppers : Begin(s) \/ Stopping(s)

SafeSpec == Init /\ [][Next]_vars

(* Goroutines run, a killed process dies, and a stop that has begun goes on;   *)
(* nobody has to call stop, and a process may ignore SIGTERM for ever.         *)
Fairness ==
  /\ WF_vars(Supervise)
  /\ WF_vars(Die)
  /\ \A s \in Stoppers : WF_vars(Stopping(s))

Spec == SafeSpec /\ Fairness

--------------------------------------------------------------------------------
(* Properties                                                                 *)

Past(s) == at[s] \in {"setRead", "setWrite", "finish", "done"}

(* An instance is never two processes at a time: supervise launches the next  *)
(* one only after cmd.Wait has returned for the last (runner.go:207-223).      *)
OneProcess == \A p, q \in live : p = q

(* Stop races with a launch already past isStopped; that launch is the only   *)
(* one that can follow the stop (runner.go:105, 113, 207, 283-286).            *)
AtMostOneLateLaunch == \A p, q \in late : p = q

(* When a Stop is past its wait, what still runs was sent SIGKILL or is the    *)
(* late launch, whatever other callers stopped it meanwhile (runner.go:288-304).*)
ReturnedStopLeavesNothing ==
  (\E s \in Stoppers : Past(s)) => live \subseteq killed \cup late

(* Supervision never ends while a process of the instance runs: nobody would   *)
(* reap it or know of it (runner.go:102-156).                                  *)
GoneLeavesNoProcess == pc = "gone" => live = {}

(* Once supervision and every stop are over the entry advertises no pid, so    *)
(* `gpm list` cannot show one the system may have given to another process:    *)
(* the writers that race for the entry each clear it (runner.go:234-239, 270). *)
(* A drain is excepted: its mark may write back the pid of an earlier run.     *)
NoStalePid ==
  (pc = "gone" /\ \A s \in Stoppers :
                    role[s] # "drain" /\ at[s] \in {"idle", "refused", "done"})
    => entry.pid = 0

Undisturbed ==
  registered /\ ~stopped /\ \A s \in Stoppers : role[s] # "drain"

(* A service that fails reads "errored", not "stopped" or "running": while it  *)
(* backs off from crashLoopThreshold fast exits in a row and when it has given *)
(* up (runner.go:122-152).  An entry wiped meanwhile reads nothing.            *)
FailureIsSurfaced ==
  (Undisturbed /\ entry # NoEntry) =>
    /\ pc = "sleep" => (entry.status = "errored" <=> failures >= CrashLoopThreshold)
    /\ pc = "gone" => entry.status = IF policy.auto THEN "errored" ELSE "stopped"

(* max_restarts bounds the launches, although the counter lives in an entry    *)
(* that other goroutines rewrite and other requests wipe: between two wipings  *)
(* of the entry of a runner that goes on (daemon.go:486, 510, 547, 866) it is  *)
(* launched once and restarted max_restarts times, whatever copies of the      *)
(* entry are written back.  Instances being drained are excepted: the draining *)
(* mark writes back a count it read earlier (runner.go:127-144, daemon.go:612).*)
RestartBudget ==
  (policy.max > 0 /\ \A s \in Stoppers : role[s] # "drain")
    => since <= policy.max + 1

(* A stop that has seen the process ends supervision with nothing running:     *)
(* the wait is bounded by SIGKILL and isStopped forbids a restart.             *)
SeenStopTerminates ==
  \A s \in Stoppers : at[s] = "await" ~> (pc = "gone" /\ live = {})

(* Auto-restart: an instance that has exited is launched again, unless it is   *)
(* stopped or its service deleted; a runner that has given up on a deleted     *)
(* service does not come back when the service does.                           *)
CrashedComesBack ==
  (policy.auto /\ policy.max = 0 /\ live = {} /\ registered /\ ~stopped /\ pc # "gone")
    ~> (live # {} \/ stopped \/ ~registered)

(* The runner implements the abstract life cycle of an instance.               *)
phase == IF pc = "gone" THEN "retired" ELSE IF live = {} THEN "idle" ELSE "up"

Lifecycle == INSTANCE InstanceLifecycle
               WITH phase <- phase, asked <- stopped, overrun <- late # {}

Implements == Lifecycle!Spec

(* The safety part of Implements, proved for every instance in RunnerProof.    *)
ImplementsSteps == Lifecycle!Init /\ [][Lifecycle!Next]_(Lifecycle!vars)

--------------------------------------------------------------------------------
(* What the documentation says and the code does not keep.                     *)

(* runner.go:279-281: Stop "marks the runner stopped so supervise won't restart*)
(* it": once a Stop has returned nothing runs but what was sent SIGKILL.       *)
StopIsFinal == (\E s \in Stoppers : at[s] = "done") => live \subseteq killed

(* store.go:35-37: InstanceState is "the source of truth for per-instance      *)
(* status so that N instance runners never race": an instance stopped by       *)
(* cmdStop reads "stopped" once supervision and the stop are over, even where  *)
(* no launch slipped past the stop.                                            *)
StoppedReadsStopped ==
  (pc = "gone" /\ late = {} /\ \E s \in Stoppers : at[s] = "done" /\ role[s] = "keep"
     /\ \A t \in Stoppers : at[t] \in {"idle", "done"})
    => entry.status = "stopped"
================================================================================
