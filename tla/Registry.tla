------------------------------- MODULE Registry -------------------------------
(******************************************************************************)
(* The registry of services over the lives of the daemon: the store in memory, *)
(* ids, state.json, which every change rewrites in place, save.json, and what  *)
(* clean stops and crashes leave of them.  Of a service's runtime only whether *)
(* its entries read as running is kept; its processes are Runner's.            *)
(******************************************************************************)
EXTENDS Integers, FiniteSets, Functions

CONSTANTS
  Names,        \* service names
  MaxRequests,  \* bound: requests that change something
  MaxLives      \* bound: daemons started

ASSUME RegistryAssumption ==
  /\ IsFiniteSet(Names)
  /\ MaxRequests \in Nat /\ MaxLives \in Nat

VARIABLES
  up,         \* a daemon runs; FALSE from its exit to the next one's start
  lives,      \* daemons started
  mem,        \* Store.processes
  runners,    \* names with an entry in Daemon.runners
  job,        \* the request in hand
  requests,   \* requests accepted
  stateFile,  \* state.json
  saveFile,   \* save.json
  writing,    \* who is between truncating a file and having written it
  acked,      \* auxiliary: id of every service, as the requests answered have it
  want,       \* auxiliary: the same with the request in hand
  collided,   \* auxiliary: a resurrect has brought an id that was taken
  cut         \* auxiliary: services with an entry no stop has recorded: the daemon
              \* ended first, or the stop was overtaken (see StoppedRunners)

fileVars == <<stateFile, saveFile, writing>>
vars == <<up, lives, mem, runners, job, requests, fileVars, acked, want, collided, cut>>

\* live: what the instance entries say: "nil" when there is none, "running" for
\* running or starting, else "stopped".
Entry == [id : Nat, live : {"nil", "running", "stopped"}]
IsRegistry(r) == DOMAIN r \subseteq Names /\ r \in [DOMAIN r -> Entry]
Empty == [n \in {} |-> 0]

\* A missing file and one cut short read alike: ok is FALSE.
IsFile(f) == f.ok \in BOOLEAN /\ IsRegistry(f.procs)
Unreadable == [ok |-> FALSE, procs |-> Empty]

\* What the request in hand, or the signal's goroutine, has still to do.
Jobs == {"idle", "flush", "save", "stopping", "exit"}

Ids(r) == [n \in DOMAIN r |-> r[n].id]

TypeOK ==
  /\ up \in BOOLEAN /\ lives \in 0..MaxLives
  /\ IsRegistry(mem) /\ runners \subseteq Names
  /\ job \in Jobs /\ requests \in 0..MaxRequests
  /\ IsFile(stateFile) /\ IsFile(saveFile)
  /\ writing \subseteq {"handler", "runner", "save"}
  /\ \A ids \in {acked, want} : DOMAIN ids \subseteq Names /\ ids \in [DOMAIN ids -> Nat]
  /\ collided \in BOOLEAN /\ cut \subseteq Names

Init ==
  /\ up = FALSE /\ lives = 0
  /\ mem = Empty /\ runners = {}
  /\ job = "idle" /\ requests = 0
  /\ stateFile = Unreadable /\ saveFile = Unreadable /\ writing = {}
  /\ acked = Empty /\ want = Empty /\ collided = FALSE /\ cut = {}

--------------------------------------------------------------------------------
(* A daemon's life                                                            *)

(* NewStore: whatever cannot be read is an empty registry.                    *)
Boot ==
  /\ ~up /\ lives < MaxLives
  /\ up' = TRUE /\ lives' = lives + 1
  /\ mem' = IF stateFile.ok THEN stateFile.procs ELSE Empty
  /\ acked' = Ids(mem') /\ want' = Ids(mem')
  /\ cut' = cut \cap DOMAIN mem'
  /\ UNCHANGED <<runners, job, requests, fileVars, collided>>

Running(r) == {n \in DOMAIN r : r[n].live = "running"}

(* What runs is cut off; a file being written stays cut short.                *)
Ends ==
  /\ up' = FALSE /\ mem' = Empty /\ runners' = {}
  /\ job' = "idle" /\ writing' = {}
  /\ UNCHANGED <<lives, requests, stateFile, saveFile, acked, want, collided>>

(* SIGKILL or power failure.                                                  *)
Crash ==
  /\ up
  /\ Ends
  /\ cut' = Running(mem) \cup Running(stateFile.procs)

(* Readers of the store, which Flush and Save are, keep its writers out.      *)
Writable == writing = {}

StoppedUnrecorded(names, missed) ==  \* bug: runners that stop are not recorded
  mem

(* Every tracked runner of these services is stopped, which records and flushes *)
(* it, but for those missed: an entry that is running or starting may belong to *)
(* the replacement a reload is still probing, which d.runners does not have, or *)
(* to a runner that a restart has forgotten.                                   *)
StoppedRunners(names, missed) ==
  [n \in DOMAIN mem |->
     IF n \in names \ missed THEN [id |-> mem[n].id, live |-> "stopped"] ELSE mem[n]]

StopThese(names) ==
  \E missed \in SUBSET (names \cap Running(mem)) :
    /\ mem' = StoppedRunners(names, missed)
    /\ cut' = (cut \ names) \cup missed

(* Requests that slip in between the stops are Host's.                        *)
StopAll ==
  /\ up /\ job = "idle" /\ Writable
  /\ StopThese(runners)
  /\ job' = "stopping"
  /\ UNCHANGED <<up, lives, runners, requests, fileVars, acked, want, collided>>

\* n's entry, written back as it was before the stop.
WrittenBack(n) == [mem EXCEPT ![n] = [id |-> mem[n].id, live |-> "running"]]

(* supervise's report of a launch or an exit, which read the entry before the  *)
(* stop wrote it, or follows a launch the stop did not see, comes last.        *)
Overwrite(n) ==
  /\ up /\ Writable
  /\ n \in runners \cap DOMAIN mem /\ mem[n].live = "stopped"
  /\ mem' = WrittenBack(n)
  /\ cut' = cut \cup {n}
  /\ UNCHANGED <<up, lives, runners, job, requests, fileVars, acked, want, collided>>

(* os.Exit does not wait for a supervise goroutine that is still flushing.    *)
Exit ==
  /\ job = "exit"
  /\ Ends
  /\ UNCHANGED cut

--------------------------------------------------------------------------------
(* The files                                                                  *)

\* os.WriteFile truncates, then writes.
Truncate(w) ==
  /\ writing' = writing \cup {w}
  /\ IF w = "save"
     THEN saveFile' = Unreadable /\ UNCHANGED stateFile
     ELSE stateFile' = Unreadable /\ UNCHANGED saveFile

(* A supervise goroutine reports and flushes at any time while a runner is.   *)
BeginWrite(w) ==
  /\ up /\ w \notin writing
  /\ \/ w = "handler" /\ job \in {"flush", "stopping"}
     \/ w = "save" /\ job = "save"
     \/ w = "runner" /\ runners # {}
  /\ Truncate(w)
  /\ UNCHANGED <<up, lives, mem, runners, job, requests, acked, want, collided, cut>>

\* Save leaves the runtime out.
Saved == [n \in DOMAIN mem |-> [id |-> mem[n].id, live |-> "nil"]]

(* With the handler's write its request is answered, or the daemon may exit.  *)
EndWrite(w) ==
  /\ w \in writing
  /\ writing' = writing \ {w}
  /\ IF w = "save"
     THEN saveFile' = [ok |-> TRUE, procs |-> Saved] /\ UNCHANGED stateFile
     ELSE stateFile' = [ok |-> TRUE, procs |-> mem] /\ UNCHANGED saveFile
  /\ IF w = "runner" THEN UNCHANGED <<job, acked>>
     ELSE /\ job' = IF job = "stopping" THEN "exit" ELSE "idle"
          /\ acked' = want
  /\ UNCHANGED <<up, lives, mem, runners, requests, want, collided, cut>>

--------------------------------------------------------------------------------
(* Requests                                                                   *)

\* One that changes something, one at a time; handlers that overlap are Daemon's.
Accept ==
  /\ up /\ job = "idle" /\ Writable
  /\ requests < MaxRequests /\ requests' = requests + 1
  /\ UNCHANGED <<up, lives, fileVars, acked>>

AnyRunning(n) == n \in runners \/ mem[n].live = "running"

IdBelow ==  \* bug: off by one
  {Cardinality(DOMAIN mem) - 1}
IdCount ==  \* bug: the number of services, though deletes leave gaps
  {Cardinality(DOMAIN mem)}

(* The lowest one that is not used.                                           *)
NextFreeID ==
  LET used == {mem[n].id : n \in DOMAIN mem} IN
  {i \in 0..Cardinality(DOMAIN mem) : i \notin used /\ 0..(i - 1) \subseteq used}

Named(ids, n, i) ==
  [m \in DOMAIN ids \cup {n} |-> IF m = n THEN i ELSE ids[m]]

\* The registry with n registered, or started again, under id i.
Launched(n, i) ==
  [m \in DOMAIN mem \cup {n} |-> IF m = n THEN [id |-> i, live |-> "running"] ELSE mem[m]]

Start(n) ==
  /\ Accept
  /\ \/ /\ n \notin DOMAIN mem
        /\ \E i \in NextFreeID : mem' = Launched(n, i) /\ want' = Named(acked, n, i)
     \/ /\ n \in DOMAIN mem /\ ~AnyRunning(n)
        /\ mem' = Launched(n, mem[n].id) /\ UNCHANGED want
  /\ runners' = runners \cup {n}
  /\ cut' = cut \ {n}
  /\ job' = "flush" /\ UNCHANGED collided

\* reload of what does not run ends the same way.
Restart(n) ==
  /\ Accept
  /\ n \in DOMAIN mem
  /\ mem' = Launched(n, mem[n].id)
  /\ runners' = runners \cup {n}
  /\ cut' = cut \ {n}
  /\ job' = "flush" /\ UNCHANGED <<want, collided>>

Stop(n) ==
  /\ Accept
  /\ n \in runners \cap DOMAIN mem
  /\ StopThese({n})
  /\ job' = "flush" /\ UNCHANGED <<runners, want, collided>>

DeleteUnflushed(n) ==  \* bug: answered without a flush
  /\ up /\ job = "idle" /\ Writable
  /\ n \in DOMAIN mem
  /\ mem' = Restrict(mem, DOMAIN mem \ {n})
  /\ want' = Restrict(acked, DOMAIN acked \ {n}) /\ acked' = want'
  /\ runners' = runners \ {n}
  /\ UNCHANGED <<up, lives, job, requests, fileVars, collided, cut>>

Delete(n) ==
  /\ Accept
  /\ n \in DOMAIN mem
  /\ mem' = Restrict(mem, DOMAIN mem \ {n})
  /\ want' = Restrict(acked, DOMAIN acked \ {n})
  /\ runners' = runners \ {n}
  /\ cut' = cut \ {n}
  /\ job' = "flush" /\ UNCHANGED collided

Save ==
  /\ Accept
  /\ job' = "save" /\ UNCHANGED <<mem, runners, want, collided, cut>>

(* Every saved service with the id it had, whatever has been registered since. *)
Resurrect ==
  /\ Accept
  /\ saveFile.ok
  /\ LET saved == saveFile.procs
         S == DOMAIN saved
     IN  /\ mem' = [n \in DOMAIN mem \cup S |->
                      IF n \in S THEN [id |-> saved[n].id, live |-> "running"] ELSE mem[n]]
         /\ want' = [n \in DOMAIN acked \cup S |->
                       IF n \in S THEN saved[n].id ELSE acked[n]]
         /\ runners' = runners \cup S
         /\ cut' = cut \ S
         /\ collided' = (collided \/ ~IsInjective(Ids(mem')))
  /\ job' = "flush"

--------------------------------------------------------------------------------
Next ==
  \/ Boot \/ Crash \/ StopAll \/ Exit
  \/ \E w \in {"handler", "runner", "save"} : BeginWrite(w) \/ EndWrite(w)
  \/ \E n \in Names : Start(n) \/ Restart(n) \/ Stop(n) \/ Delete(n) \/ Overwrite(n)
  \/ Save \/ Resurrect

Spec == Init /\ [][Next]_vars

--------------------------------------------------------------------------------
(* Properties                                                                 *)

(* An id names one service, through starts, deletes that leave gaps, crashes   *)
(* and restarts of the daemon, until a resurrect brings back an id given to    *)
(* another service since the save (store.go:196-212, daemon.go:862-867).       *)
IdsUnique == ~collided => IsInjective(Ids(mem))

(* What has been answered is what is registered, with its id, now and after    *)
(* the next start, crash or no crash, as long as state.json can be read: no    *)
(* service is forgotten, and none that was deleted comes back; a request that  *)
(* a crash cut off has happened or not, nothing in between                     *)
(* (daemon.go:281, 508-509, store.go:118-150).                                 *)
RegistryDurable ==
  /\ up /\ job = "idle" => Ids(mem) = acked
  /\ ~up /\ stateFile.ok => Ids(stateFile.procs) \in {acked, want}

(* A stop stays recorded: start refuses a service that has no runner only when *)
(* the last daemon was killed, or an entry of the service escaped its stop, and *)
(* nothing has started, restarted, deleted or stopped it since                 *)
(* (daemon.go:167-170, 874-892, 916-929, runner.go:304).                       *)
RefusedOnlyIfCut ==
  \A n \in DOMAIN mem \ runners : up /\ AnyRunning(n) => n \in cut

--------------------------------------------------------------------------------
(* What the documentation says and the code does not keep.                     *)

(* README.md:129: "each service gets a stable integer id".                     *)
EveryIdUnique == IsInjective(Ids(mem))

(* README.md:123-124: after a reboot "you can go straight to managing          *)
(* services": a service without a runner can be started.  After a clean stop   *)
(* it may be refused as well, if an entry escaped the stop.                    *)
StartableAfterReboot == \A n \in DOMAIN mem \ runners : ~AnyRunning(n)

(* README.md:145-146: the daemon is stopped and started back up: its registry  *)
(* can be read once it has exited.                                             *)
ReadableAfterStop == [][job = "exit" /\ ~up' => stateFile'.ok]_vars
================================================================================
