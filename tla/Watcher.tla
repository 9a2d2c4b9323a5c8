-------------------------------- MODULE Watcher --------------------------------
(******************************************************************************)
(* Watch mode of one service of one instance: the goroutines that poll the     *)
(* binary, the builds written to its path, the requests that start and stop    *)
(* them, and the reloads they ask for.  A fingerprint (size and modification   *)
(* time) is the number of the write that left it; 0 is an absent file.         *)
(******************************************************************************)
EXTENDS Integers, FiniteSets

CONSTANTS
  Ops,          \* requests made: "start", "stop", "restart", "reload"
  StableTicks,  \* equal reads after which a change is settled
  MaxWrites,    \* bound: writes to the binary
  MaxWatchers,  \* bound: watchers ever started
  MaxRequests   \* bound: requests

ASSUME WatcherAssumption ==
  /\ Ops \subseteq {"start", "stop", "restart", "reload"}
  /\ StableTicks \in Nat \ {0, 1}
  /\ MaxWrites \in Nat \ {0} /\ MaxWatchers \in Nat \ {0} /\ MaxRequests \in Nat

VARIABLES
  disk,      \* fingerprint of the binary
  whole,     \* it is a complete build
  writes,    \* writes so far
  reads,     \* watchers that have read a half-written binary as it is now
  inst,      \* the tracked instance
  roll,      \* the reload under way and its replacement
  current,   \* Daemon.watchers: the watcher, 0 for none
  watcher,   \* the watcher goroutines
  requests,  \* requests made
  builds,    \* auxiliary: fingerprints of complete builds
  missed,    \* auxiliary: those accepted with no reload for them
  aborted    \* auxiliary: those whose replacement failed its health check

fileVars  == <<disk, whole, writes, builds>>
serviceVars == <<inst, roll>>
watchVars == <<current, watcher, reads>>
auxVars == <<missed, aborted>>
vars == <<fileVars, serviceVars, watchVars, requests, auxVars>>

Sigs == 0..MaxWrites
Watchers == 1..MaxWatchers

\* ran: the build an instance executes, 0 before cmd.Start.
InstType == [at : {"none", "starting", "up", "stopped"}, ran : Sigs]
NoInst == [at |-> "none", ran |-> 0]
Starting == [at |-> "starting", ran |-> 0]

\* at: where the goroutine is; stop: its stop channel is closed.
WatcherType ==
  [at : {"none", "begin", "select", "settled", "gone"}, stop : BOOLEAN,
   accepted : Sigs, candidate : Sigs, stable : 0..StableTicks]
NoWatcher ==
  [at |-> "none", stop |-> FALSE, accepted |-> 0, candidate |-> 0, stable |-> 0]

TypeOK ==
  /\ disk \in Sigs /\ whole \in BOOLEAN /\ writes \in Sigs /\ reads \subseteq Watchers
  /\ inst \in InstType /\ (inst.at = "up" => inst.ran # 0)
  /\ roll \in [at : {"idle", "probe", "drain"}, new : InstType]
  /\ current \in 0..MaxWatchers
  /\ watcher \in [Watchers -> WatcherType]
  /\ requests \in 0..MaxRequests
  /\ builds \subseteq Sigs /\ missed \subseteq Sigs /\ aborted \subseteq Sigs

(* A registered service that has yet to be started, and its first build.      *)
Init ==
  /\ disk = 1 /\ whole = TRUE /\ writes = 1 /\ reads = {}
  /\ inst = NoInst /\ roll = [at |-> "idle", new |-> NoInst]
  /\ current = 0 /\ watcher = [w \in Watchers |-> NoWatcher]
  /\ requests = 0 /\ builds = {1} /\ missed = {} /\ aborted = {}

--------------------------------------------------------------------------------
(* The binary: written in place piece by piece, renamed into place, or removed *)
(* for a while.                                                               *)

Write(complete) ==
  /\ writes < MaxWrites
  /\ writes' = writes + 1
  /\ disk' = writes' /\ whole' = complete
  /\ builds' = IF complete THEN builds \cup {disk'} ELSE builds
  /\ reads' = {}
  /\ UNCHANGED <<serviceVars, current, watcher, requests, auxVars>>

Remove ==
  /\ whole /\ writes < MaxWrites
  /\ disk' = 0 /\ whole' = FALSE /\ reads' = {}
  /\ UNCHANGED <<writes, builds, serviceVars, current, watcher, requests, auxVars>>

--------------------------------------------------------------------------------
(* watchBinary                                                                *)

Watching(stop, accepted, candidate, stable) ==
  [at |-> "select", stop |-> stop,
   accepted |-> accepted, candidate |-> candidate, stable |-> stable]

(* The first read, in the goroutine: what changed since the instance was        *)
(* launched goes unnoticed.                                                    *)
Begin(w) ==
  /\ watcher[w].at = "begin"
  /\ watcher' = [watcher EXCEPT ![w] = Watching(@.stop, disk, 0, 0)]
  /\ missed' = IF \E i \in {inst, roll.new} : i.at = "up" /\ i.ran < disk
               THEN missed \cup {disk} ELSE missed
  /\ UNCHANGED <<fileVars, serviceVars, current, reads, requests, aborted>>

Settled(r) == [Watching(r.stop, disk, 0, 0) EXCEPT !.at = "settled"]

(* Mutants: changes counted whatever they changed to; a count that starts over. *)
PolledAnyChange(r) ==
  CASE disk \in {0, r.accepted} -> Watching(r.stop, r.accepted, 0, 0)
    [] disk \notin {0, r.accepted} /\ r.stable + 1 >= StableTicks -> Settled(r)
    [] OTHER -> Watching(r.stop, r.accepted, disk, r.stable + 1)
PolledAnew(r) ==
  IF disk \in {0, r.accepted} THEN Watching(r.stop, r.accepted, 0, 0)
  ELSE Watching(r.stop, r.accepted, disk, 1)

(* One tick: the watcher with its new candidate, count and accepted build.     *)
Polled(r) ==
  CASE disk \in {0, r.accepted} -> Watching(r.stop, r.accepted, 0, 0)
    [] disk \notin {0, r.accepted} /\ disk = r.candidate ->
         IF r.stable + 1 >= StableTicks THEN Settled(r)
         ELSE Watching(r.stop, r.accepted, disk, r.stable + 1)
    [] OTHER -> Watching(r.stop, r.accepted, disk, 1)

(* A build half written is written to again before a watcher's second tick.   *)
HalfWritten == disk # 0 /\ ~whole

(* The tick may win over a stop channel that is closed.                       *)
Poll(w) ==
  /\ watcher[w].at = "select"
  /\ HalfWritten => w \notin reads
  /\ watcher' = [watcher EXCEPT ![w] = Polled(@)]
  /\ reads' = IF HalfWritten THEN reads \cup {w} ELSE reads
  /\ UNCHANGED <<fileVars, serviceVars, current, requests, auxVars>>

Quit(w) ==
  /\ watcher[w].at = "select" /\ watcher[w].stop
  /\ watcher' = [watcher EXCEPT ![w].at = "gone"]
  /\ UNCHANGED <<fileVars, serviceVars, current, reads, requests, auxVars>>

(* cmdReload of a service with instances: a rolling reload unless one is under *)
(* way.                                                                        *)
BeginReload ==
  /\ roll.at = "idle"
  /\ roll' = [at |-> "probe", new |-> Starting]
  /\ UNCHANGED <<inst, missed>>

(* The watcher has accepted the build by then.                                *)
Refused(w) ==
  /\ roll.at # "idle"
  /\ missed' = missed \cup {watcher[w].accepted}
  /\ UNCHANGED serviceVars

Fire(w) ==
  /\ watcher[w].at = "settled"
  /\ watcher' = [watcher EXCEPT ![w].at = "select"]
  /\ BeginReload \/ Refused(w)
  /\ UNCHANGED <<fileVars, current, reads, requests, aborted>>

--------------------------------------------------------------------------------
(* Instances                                                                  *)

(* Mutant: an exec that does not need the file.                               *)
ExecBlind ==
  /\ inst.at = "starting"
  /\ inst' = [at |-> "up", ran |-> disk]
  /\ UNCHANGED <<roll, fileVars, watchVars, requests, auxVars>>

(* cmd.Start of supervise, which fails without a binary and is tried again.   *)
Exec ==
  /\ disk # 0
  /\ \/ /\ inst.at = "starting"
        /\ inst' = [at |-> "up", ran |-> disk]
        /\ UNCHANGED roll
     \/ /\ roll.new.at = "starting"
        /\ roll' = [roll EXCEPT !.new = [at |-> "up", ran |-> disk]]
        /\ UNCHANGED inst
  /\ UNCHANGED <<fileVars, watchVars, requests, auxVars>>

Crash ==
  /\ inst.at = "up"
  /\ inst' = Starting
  /\ UNCHANGED <<roll, fileVars, watchVars, requests, auxVars>>

(* The replacement passes its health check, which half a build does not.      *)
Healthy == roll.new.at = "up" /\ roll.new.ran \in builds

(* Mutant: the replacement is probed but not swapped in.                      *)
RollSwapForgotten ==
  /\ roll.at = "probe" /\ Healthy
  /\ roll' = [at |-> "drain", new |-> NoInst]
  /\ UNCHANGED <<inst, fileVars, watchVars, requests, auxVars>>

RollSwap ==
  /\ roll.at = "probe" /\ Healthy
  /\ inst' = roll.new
  /\ roll' = [at |-> "drain", new |-> NoInst]
  /\ UNCHANGED <<fileVars, watchVars, requests, auxVars>>

RollEnd ==
  /\ roll.at = "drain"
  /\ roll' = [roll EXCEPT !.at = "idle"]
  /\ UNCHANGED <<inst, fileVars, watchVars, requests, auxVars>>

(* The replacement is torn down and the old instance keeps serving.           *)
RollAbort ==
  /\ roll.at = "probe"
  /\ roll' = [at |-> "idle", new |-> NoInst]
  /\ aborted' = aborted \cup {watcher[w].accepted : w \in Watchers}
  /\ UNCHANGED <<inst, fileVars, watchVars, requests, missed>>

--------------------------------------------------------------------------------
(* Requests                                                                   *)

Accept(op) == op \in Ops /\ requests < MaxRequests /\ requests' = requests + 1

(* Mutant: the watcher of before is not told to stop.                         *)
StopNoWatcher == watcher

StopWatcher == [w \in Watchers |->
  IF w = current THEN [watcher[w] EXCEPT !.stop = TRUE] ELSE watcher[w]]

(* startInstancesLocked: the instance and its watcher, in place of any other.  *)
(* What a restart does to a replacement being probed is Daemon's.              *)
Launch ==
  /\ roll.at # "probe"
  /\ inst' = Starting
  /\ \E w \in Watchers :
       /\ watcher[w].at = "none" /\ \A v \in Watchers : v < w => watcher[v].at # "none"
       /\ current' = w
       /\ watcher' = [StopWatcher EXCEPT ![w].at = "begin"]
  /\ UNCHANGED <<roll, reads, fileVars, auxVars>>

(* Refused once there are runners, stopped ones too.                          *)
Start == Accept("start") /\ inst.at = "none" /\ Launch

Restart == Accept("restart") /\ Launch

Stop ==
  /\ Accept("stop")
  /\ watcher' = StopWatcher /\ current' = 0
  /\ inst' = IF inst.at = "none" THEN inst ELSE [inst EXCEPT !.at = "stopped"]
  /\ UNCHANGED <<roll, reads, fileVars, auxVars>>

Reload ==
  /\ Accept("reload")
  /\ \/ inst.at = "none" /\ Launch
     \/ inst.at # "none" /\ BeginReload /\ UNCHANGED <<watchVars, fileVars, aborted>>

--------------------------------------------------------------------------------
Watch(w) == Begin(w) \/ Poll(w) \/ Fire(w) \/ Quit(w)

Next ==
  \/ Write(TRUE) \/ Write(FALSE) \/ Remove
  \/ \E w \in Watchers : Watch(w)
  \/ Exec \/ Crash \/ RollSwap \/ RollEnd \/ RollAbort
  \/ Start \/ Restart \/ Stop \/ Reload

(* Watchers poll; nobody has to write or ask.                                 *)
Fairness == \A w \in Watchers : WF_vars(Watch(w))

Spec == Init /\ [][Next]_vars /\ Fairness

--------------------------------------------------------------------------------
(* Properties                                                                 *)

(* watchBinary debounces: a build it has settled on, which cmdReload is about  *)
(* to exec, is whole, whatever the order of the writer's and the watcher's     *)
(* steps.                                                                      *)
SettledOnWhole ==
  \A w \in Watchers : watcher[w].at = "settled" => watcher[w].accepted \in builds

(* startWatcherLocked, "never run two watchers for one service": of the        *)
(* goroutines that nobody told to stop there is one, and it is the registered  *)
(* one.                                                                        *)
OneWatcher ==
  \A w \in Watchers :
    watcher[w].at # "none" /\ ~watcher[w].stop <=> w = current

(* What the watcher has accepted is what runs once the reload is over, except  *)
(* where a reload was refused or aborted or the first read came late: no other *)
(* path through stop, restart, crash and reload leaves an old build behind a   *)
(* watcher that will not ask again.                                            *)
AcceptedRuns ==
  \A w \in Watchers :
    w = current /\ watcher[w].at = "select" /\ inst.at = "up" /\ roll.at # "probe"
      => \/ watcher[w].accepted <= inst.ran
         \/ watcher[w].accepted \in missed \cup aborted

(* "accepted ... fingerprint of the currently-running binary": the same        *)
(* without exceptions but that of a replacement that failed its health check.  *)
AcceptedIsRunning ==
  \A w \in Watchers :
    w = current /\ watcher[w].at = "select" /\ inst.at = "up" /\ roll.at = "idle"
      => watcher[w].accepted <= inst.ran \/ watcher[w].accepted \in aborted

(* A whole build that stays on disk while the service is watched is accepted.  *)
SettledIsAccepted ==
  \A b \in Sigs \ {0} :
    (disk = b /\ whole /\ current # 0)
      ~> (disk # b \/ ~whole \/ current = 0 \/ watcher[current].accepted = b)
================================================================================
