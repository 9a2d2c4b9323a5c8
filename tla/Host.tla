--------------------------------- MODULE Host ---------------------------------
(******************************************************************************)
(* The daemon as a process among the commands that start, reach, stop and      *)
(* update it: the socket path, the pid file, the client's auto-start and       *)
(* resend, the shutdown on a signal, and the services that live and die with   *)
(* a daemon.                                                                   *)
(******************************************************************************)
EXTENDS Integers, FiniteSets

CONSTANTS
  Clients,     \* gpm commands, one each
  Kinds,       \* what they are: "request", "start", "stop", "update"
  MaxDaemons,  \* bound: daemon processes ever spawned
  MaxCrashes,  \* bound: daemons killed
  DrainFits    \* services drain within the 5 s an update waits

ASSUME HostAssumption ==
  /\ Kinds \subseteq {"request", "start", "stop", "update"}
  /\ MaxDaemons \in Nat \ {0} /\ MaxCrashes \in Nat
  /\ DrainFits \in BOOLEAN

VARIABLES
  at,         \* where each daemon process is
  version,    \* the gpm it executes
  services,   \* the kinds of instances it runs
  orphans,    \* the kinds of instances that have outlived their daemon
  sock,       \* the daemon that bound the socket path, 0 without the path
  pidFile,    \* the pid in it, 0 without the file
  installed,  \* the gpm on disk
  client,     \* the commands
  handled,    \* auxiliary: times a daemon has handled a command's request
  crashes     \* auxiliary: daemons killed

daemonVars == <<at, version, services, orphans>>
vars == <<daemonVars, sock, pidFile, installed, client, handled, crashes>>

(* An instance is "tracked" while stopAll would find it in d.runners and end it. *)
(* "loose" is every other one: the replacement a reload is probing, one taken   *)
(* off d.runners that still drains, one a restart or a resurrect has forgotten, *)
(* one whose launch misses its Stop, one launched after stopAll's snapshot.    *)
Instances == {"tracked", "loose"}

Daemons == 1..MaxDaemons
Booting == {"exec", "boot", "bind"}
Accepting == {"up", "stopping", "drained"}
Live(d) == at[d] \in Booting \cup Accepting \cup {"closed"}

\* at: the next step of the command; pid: the process read from the pid file;
\* back: where it goes on when a daemon it has spawned answers.
ClientType ==
  [kind : Kinds \cup {"none"},
   at : {"idle", "install", "ping", "pid", "signal", "unpid", "wait", "spawn",
         "poll", "send", "ensure", "resend", "done", "failed"},
   pid : 0..MaxDaemons, back : {"done", "send", "resend"}]

TypeOK ==
  /\ at \in [Daemons -> {"none", "gone", "closed"} \cup Booting \cup Accepting]
  /\ version \in [Daemons -> {"old", "new"}] /\ installed \in {"old", "new"}
  /\ services \in [Daemons -> SUBSET Instances]
  /\ \A d \in Daemons : services[d] # {} => at[d] \in Accepting \cup {"closed"}
  /\ orphans \subseteq Instances
  /\ sock \in 0..MaxDaemons /\ pidFile \in 0..MaxDaemons
  /\ client \in [Clients -> ClientType]
  /\ handled \in [Clients -> 0..2]
  /\ crashes \in 0..MaxCrashes

(* No daemon yet, one that runs services, or what one that was killed left.   *)
Init ==
  \E first \in {"none", "up", "gone"} :
    /\ at = [d \in Daemons |-> IF d = 1 THEN first ELSE "none"]
    /\ services = [d \in Daemons |-> IF d = 1 /\ first = "up" THEN {"tracked"} ELSE {}]
    /\ sock = (IF first = "none" THEN 0 ELSE 1) /\ pidFile = sock
    /\ version = [d \in Daemons |-> "old"] /\ installed = "old"
    /\ orphans = {} /\ crashes = 0
    /\ client = [c \in Clients |-> [kind |-> "none", at |-> "idle", pid |-> 0, back |-> "done"]]
    /\ handled = [c \in Clients |-> 0]

--------------------------------------------------------------------------------
(* The daemon process: runDaemon, Run and stopAll                             *)

Goes(d, where) == at' = [at EXCEPT ![d] = where]

(* ln.Close, os.Remove and os.Exit follow one another at once: no other daemon *)
(* starts to run or listens between them.                                      *)
NoneClosing == \A e \in Daemons : at[e] # "closed"

WritePid(d) ==
  /\ at[d] = "exec" /\ NoneClosing
  /\ Goes(d, "boot")
  /\ pidFile' = d
  /\ UNCHANGED <<version, services, orphans, sock, installed, client, handled, crashes>>

LeaveStale(d) ==  \* bug: the socket of a daemon that was killed is not removed
  /\ at[d] = "boot"
  /\ Goes(d, "bind")
  /\ UNCHANGED <<version, services, orphans, sock, pidFile, installed, client, handled, crashes>>

(* os.Remove of the path, whoever listens behind it.                          *)
RemoveStale(d) ==
  /\ at[d] = "boot"
  /\ Goes(d, "bind")
  /\ sock' = 0
  /\ UNCHANGED <<version, services, orphans, pidFile, installed, client, handled, crashes>>

(* net.Listen; where it fails os.Exit leaves the pid file.                    *)
Listen(d) ==
  /\ at[d] = "bind" /\ NoneClosing
  /\ \/ sock = 0 /\ sock' = d /\ Goes(d, "up")
     \/ sock # 0 /\ Goes(d, "gone") /\ UNCHANGED sock
  /\ UNCHANGED <<version, services, orphans, pidFile, installed, client, handled, crashes>>

CloseFirst(d) ==  \* bug: the listener is closed before the services are stopped
  /\ at[d] = "stopping"
  /\ Goes(d, "closed")
  /\ sock' = 0
  /\ UNCHANGED <<version, services, orphans, pidFile, installed, client, handled, crashes>>

(* stopAll: r.Stop of every runner in d.runners, which the launch of a process *)
(* may miss.                                                                   *)
StopServices(d) ==
  /\ at[d] = "stopping"
  /\ Goes(d, "drained")
  /\ \E missed \in SUBSET {"loose"} :
       /\ "tracked" \in services[d] \/ missed = {}
       /\ services' = [services EXCEPT ![d] = (@ \ {"tracked"}) \cup missed]
  /\ UNCHANGED <<version, orphans, sock, pidFile, installed, client, handled, crashes>>

(* ln.Close unlinks the path, whoever has bound it since.                     *)
CloseListener(d) ==
  /\ at[d] = "drained"
  /\ Goes(d, "closed")
  /\ sock' = 0
  /\ UNCHANGED <<version, services, orphans, pidFile, installed, client, handled, crashes>>

Ends(d) ==
  /\ Goes(d, "gone")
  /\ services' = [services EXCEPT ![d] = {}]
  /\ orphans' = orphans \cup services[d]

(* os.Exit of the signal's goroutine against the return of Run: the path may   *)
(* be removed once more, main may remove the pid file.                         *)
Exit(d) ==
  /\ at[d] = "closed"
  /\ Ends(d)
  /\ sock' \in {sock, 0} /\ pidFile' \in {pidFile, 0}
  /\ UNCHANGED <<version, installed, client, handled, crashes>>

Crash(d) ==
  /\ Live(d) /\ crashes < MaxCrashes
  /\ Ends(d)
  /\ crashes' = crashes + 1
  /\ UNCHANGED <<version, sock, pidFile, installed, client, handled>>

(* An instance that stopAll would not reach: launched by a reload, a watcher's  *)
(* too, or taken off d.runners.                                                *)
Slips(d) ==
  /\ at[d] \in Accepting /\ services[d] # {}
  /\ services' = [services EXCEPT ![d] = @ \cup {"loose"}]
  /\ UNCHANGED <<at, version, orphans, sock, pidFile, installed, client, handled, crashes>>

(* The last of them is routed to and tracked, or has ended.                   *)
Settles(d) ==
  /\ at[d] \in Accepting /\ "loose" \in services[d]
  /\ services' = [services EXCEPT ![d] = @ \ {"loose"}]
  /\ UNCHANGED <<at, version, orphans, sock, pidFile, installed, client, handled, crashes>>

Daemon(d) ==
  \/ WritePid(d) \/ RemoveStale(d) \/ Listen(d)
  \/ StopServices(d) \/ CloseListener(d) \/ Exit(d)

--------------------------------------------------------------------------------
(* Commands                                                                   *)

Steps(c, where, pid, back) ==
  client' = [client EXCEPT ![c] =
               [kind |-> client[c].kind, at |-> where, pid |-> pid, back |-> back]]
Moves(c, where) == Steps(c, where, client[c].pid, client[c].back)

Reachable == \E d \in Daemons : sock = d /\ at[d] \in Accepting

First(k) ==
  CASE k = "request" -> "send" [] k = "start" -> "ping"
    [] k = "stop" -> "pid" [] k = "update" -> "install"

Issue(c) ==
  /\ client[c].at = "idle"
  /\ \E k \in Kinds : client' = [client EXCEPT ![c] = [kind |-> k, at |-> First(k), pid |-> 0, back |-> "done"]]
  /\ UNCHANGED <<daemonVars, sock, pidFile, installed, handled, crashes>>

(* runUpdate: there is nothing newer, the release cannot be had or does not    *)
(* match its checksum, or replaceBinary renames the new gpm over the old one.  *)
Install(c) ==
  /\ client[c].at = "install"
  /\ \/ \E end \in {"done", "failed"} : Moves(c, end) /\ UNCHANGED installed
     \/ Moves(c, "ping") /\ installed' = "new"
  /\ UNCHANGED <<daemonVars, sock, pidFile, handled, crashes>>

(* PingRaw: start goes on without a daemon, update, which saves, with one.    *)
Ping(c) ==
  /\ client[c].at = "ping"
  /\ Moves(c, CASE client[c].kind = "start" -> IF Reachable THEN "done" ELSE "spawn"
                [] client[c].kind = "update" -> IF Reachable THEN "pid" ELSE "done")
  /\ UNCHANGED <<daemonVars, sock, pidFile, installed, handled, crashes>>

(* startDaemonProcess                                                         *)
Spawn(c) ==
  /\ client[c].at = "spawn"
  /\ \E d \in Daemons :
       /\ at[d] = "none" /\ \A e \in Daemons : e < d => at[e] # "none"
       /\ Goes(d, "exec")
       /\ version' = [version EXCEPT ![d] = installed]
  /\ Steps(c, "poll", client[c].pid,
       IF client[c].kind = "update" /\ client[c].back = "done" THEN "send" ELSE client[c].back)
  /\ UNCHANGED <<services, orphans, sock, pidFile, installed, handled, crashes>>

PollForever(c) ==  \* bug: only an answer ends the wait
  /\ client[c].at = "poll" /\ Reachable
  /\ Moves(c, client[c].back)
  /\ UNCHANGED <<daemonVars, sock, pidFile, installed, handled, crashes>>

(* Any daemon's answer will do; 5 s are enough for one that boots.            *)
Poll(c) ==
  /\ client[c].at = "poll"
  /\ \/ Reachable /\ Moves(c, client[c].back)
     \/ ~Reachable /\ (\A d \in Daemons : at[d] \notin Booting) /\ Moves(c, "failed")
  /\ UNCHANGED <<daemonVars, sock, pidFile, installed, handled, crashes>>

(* dialSend of a request that launches services; the answer may come after the *)
(* deadline or not at all.                                                     *)
Handle(c, answered, lost) ==
  \E d \in Daemons :
    /\ sock = d /\ at[d] \in Accepting
    /\ services' = [services EXCEPT ![d] = @ \cup {IF at[d] = "up" THEN "tracked" ELSE "loose"}]
    /\ handled' = [handled EXCEPT ![c] = @ + 1]
    /\ Moves(c, answered) \/ Moves(c, lost)
    /\ UNCHANGED <<at, version, orphans, sock, pidFile, installed, crashes>>

Unreached(c, where) ==
  /\ ~Reachable
  /\ Moves(c, where)
  /\ UNCHANGED <<daemonVars, sock, pidFile, installed, handled, crashes>>

(* SendTimeout: whatever the error, auto-start and send again, once.          *)
Send(c) ==
  /\ client[c].at = "send"
  /\ Handle(c, "done", "ensure") \/ Unreached(c, "ensure")

ResendAgain(c) ==  \* bug: for as long as it is not answered
  /\ client[c].at = "resend"
  /\ Handle(c, "done", "resend") \/ Unreached(c, "failed")

Resend(c) ==
  /\ client[c].at = "resend"
  /\ Handle(c, "done", "failed") \/ Unreached(c, "failed")

(* ensureDaemonRunning                                                        *)
Ensure(c) ==
  /\ client[c].at = "ensure"
  /\ Steps(c, IF Reachable THEN "resend" ELSE "spawn", client[c].pid, "resend")
  /\ UNCHANGED <<daemonVars, sock, pidFile, installed, handled, crashes>>

(* stopDaemon                                                                 *)
ReadPid(c) ==
  /\ client[c].at = "pid"
  /\ Steps(c, IF pidFile = 0 THEN "failed" ELSE "signal", pidFile, client[c].back)
  /\ UNCHANGED <<daemonVars, sock, pidFile, installed, handled, crashes>>

(* SIGINT: before signal.Notify it kills, later ones than the first do nothing.*)
Signal(c) ==
  LET d == client[c].pid IN
  /\ client[c].at = "signal"
  /\ Moves(c, IF Live(d) THEN "unpid" ELSE "failed")
  /\ CASE at[d] \in Booting -> Goes(d, "gone")
       [] at[d] = "up" -> Goes(d, "stopping")
       [] OTHER -> UNCHANGED at
  /\ UNCHANGED <<version, services, orphans, sock, pidFile, installed, handled, crashes>>

RemovePid(c) ==
  /\ client[c].at = "unpid"
  /\ Moves(c, IF client[c].kind = "stop" THEN "done" ELSE "wait")
  /\ pidFile' = 0
  /\ UNCHANGED <<daemonVars, sock, installed, handled, crashes>>

NoWait(c) ==  \* bug: the new daemon is spawned at once
  /\ client[c].at = "wait"
  /\ Moves(c, "spawn")
  /\ UNCHANGED <<daemonVars, sock, pidFile, installed, handled, crashes>>

(* restartDaemonForUpdate waits until no ping is answered, 5 s at most.       *)
Wait(c) ==
  /\ client[c].at = "wait"
  /\ Reachable => ~DrainFits \/ \A d \in Daemons : at[d] \notin {"stopping", "drained", "closed"}
  /\ Moves(c, "spawn")
  /\ UNCHANGED <<daemonVars, sock, pidFile, installed, handled, crashes>>

Command(c) ==
  \/ Install(c) \/ Ping(c) \/ Spawn(c) \/ Poll(c) \/ Send(c) \/ Resend(c) \/ Ensure(c)
  \/ ReadPid(c) \/ Signal(c) \/ RemovePid(c) \/ Wait(c)

--------------------------------------------------------------------------------
Next ==
  \/ \E d \in Daemons : Daemon(d) \/ Slips(d) \/ Settles(d) \/ Crash(d)
  \/ \E c \in Clients : Issue(c) \/ Command(c)

(* Processes run; nobody has to issue a command, reload or kill a daemon.     *)
Fairness ==
  /\ \A d \in Daemons : WF_vars(Daemon(d))
  /\ \A c \in Clients : WF_vars(Command(c))

Spec == Init /\ [][Next]_vars /\ Fairness

--------------------------------------------------------------------------------
(* Properties                                                                 *)

(* Whatever way the goroutines of main and of the signal end the process, no   *)
(* instance that was tracked when stopAll began outlives a daemon that was not  *)
(* killed (daemon.go:70-79, 874-892, main.go:40-48).                           *)
TrackedStopped == crashes = 0 => "tracked" \notin orphans

(* An update that has printed its success with nobody else about leaves        *)
(* services under a new daemon, the one that commands reach, and has left no    *)
(* tracked one behind under the old (update.go:235-263; an update that fails on *)
(* the way says so and returns nil all the same).                              *)
UpdateApplied ==
  \A c \in Clients :
    /\ client[c].kind = "update" /\ client[c].at = "done" /\ client[c].back # "done"
    /\ crashes = 0 /\ \A o \in Clients \ {c} : client[o].at = "idle"
    /\ \A d \in Daemons : at[d] \in {"none", "up", "gone"}
    => \E d \in Daemons :
         /\ sock = d /\ at[d] = "up" /\ version[d] = "new"
         /\ "tracked" \in services[d] /\ "tracked" \notin orphans

(* Every command comes to an end, whoever starts, stops, kills or takes over   *)
(* the daemons it waits for (short of the bound on daemons).                   *)
CommandsEnd ==
  \A c \in Clients : client[c].at # "idle" ~>
    \/ client[c].at \in {"done", "failed"}
    \/ client[c].at = "spawn" /\ at[MaxDaemons] # "none"

(* A daemon spawned while no other lives comes up, whatever socket or pid file *)
(* a killed one has left (daemon.go:58-65).                                    *)
Alone(d) == \A e \in Daemons \ {d} : ~Live(e)
ComesUp ==
  \A d \in Daemons :
    at[d] = "exec" /\ Alone(d)
      ~> \/ at[d] = "up" \/ ~Alone(d) \/ crashes > 0
         \/ \E c \in Clients : client[c].pid = d

--------------------------------------------------------------------------------
(* What the documentation says and the code does not keep.                     *)

(* README.md:147: gpm daemon stop "stops the daemon and all managed services":  *)
(* the loose ones may outlive it.                                              *)
StopLeavesNothing == crashes = 0 => orphans = {}

(* client.go:23-25: "If the daemon isn't reachable, it auto-starts it and      *)
(* retries once": no request is handled twice.                                 *)
HandledOnce == \A c \in Clients : handled[c] <= 1

(* README.md:263: the daemon "is a single long-running process".               *)
SingleDaemon == \A d, e \in Daemons : at[d] = "up" /\ at[e] = "up" => d = e
================================================================================
