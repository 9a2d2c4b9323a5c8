-------------------------------- MODULE Daemon --------------------------------
(******************************************************************************)
(* The control plane of one service: the daemon's request handlers, which run  *)
(* concurrently and share Daemon.mu only for parts of their work, the rolling  *)
(* reload in the background, the binary watcher and the daemon's shutdown.     *)
(* Runner.tla models what one runner does; here a runner is its index, its     *)
(* slot, whether it has been told to stop and whether its supervise goroutine  *)
(* has written its entry for the last time.  Runners are numbered in the order *)
(* they are created, 0 is none; so are the service's Process objects.          *)
(******************************************************************************)
EXTENDS Integers, Sequences, FiniteSets

CONSTANTS
  Clients,      \* connections that may be served at the same time
  Ops,          \* the requests they send
  Counts,       \* instance counts that may be asked for
  Modes,        \* kinds of service: "reuseport", "proxy", "portless"
  Watch,        \* the service is started with --watch
  MaxRequests   \* bound: requests accepted and watcher firings

AllOps == {"start", "stop", "restart", "delete", "reload", "scale", "save",
           "resurrect", "shutdown"}

ASSUME DaemonAssumption ==
  /\ 0 \notin Clients
  /\ Ops \subseteq AllOps
  /\ Counts \subseteq Nat \ {0}
  /\ Modes \subseteq {"reuseport", "proxy", "portless"}
  /\ Watch \in BOOLEAN
  /\ MaxRequests \in Nat

VARIABLES
  mode,       \* the service's Mode and Port
  svc,        \* the Process registered in the store, 0 if none
  specs,      \* Instances of every Process object
  listed,     \* the indices in InstanceStates of the Process last registered
  saved,      \* Instances in save.json, 0 if the service is not in it
  inst,       \* every runner created
  arrays,     \* the backing arrays of the slices of runners
  runners,    \* Daemon.runners: a slice of one of them
  nextIdx,    \* Daemon.nextIdx
  proxy,      \* Daemon.proxies: open or not, and its upstreams
  reloading,  \* Daemon.reloading
  watcher,    \* Daemon.watchers has one
  due,        \* a watcher has found a settled change and is about to reload
  mu,         \* the client that holds Daemon.mu across steps, 0 if none
  job,        \* per client, the handler that is stopping runners
  rolls,      \* the reload goroutines
  requests,   \* requests accepted and watcher firings so far
  seen,       \* auxiliary: what was requested so far
  exited      \* the daemon is gone

storeVars  == <<svc, specs, listed, saved>>
runnerVars == <<inst, arrays, runners, nextIdx>>
reloadVars == <<reloading, rolls>>
watchVars  == <<watcher, due>>
countVars  == <<requests, seen>>
vars == <<mode, storeVars, runnerVars, proxy, reloadVars, watchVars, mu, job,
          countVars, exited>>

NoJob == [op |-> "none", arr |-> 0, i |-> 1, n |-> 0, r |-> 0, p |-> 0,
          goal |-> 0]

Closed == [open |-> FALSE, ups |-> {}]

Runners == 1..Len(inst)

TypeOK ==
  /\ mode \in Modes
  /\ svc \in 0..Len(specs)
  /\ specs \in Seq(Counts)
  /\ listed \subseteq Nat
  /\ saved \in Counts \cup {0}
  /\ inst \in Seq([idx : Nat, slot : Nat, stopped : BOOLEAN, over : BOOLEAN])
  /\ arrays \in Seq(Seq(0..Len(inst)))
  /\ runners \in [arr : 0..Len(arrays), len : Nat]
  /\ nextIdx \in Nat
  /\ proxy \in [open : BOOLEAN, ups : SUBSET Runners]
  /\ reloading \in BOOLEAN /\ watcher \in BOOLEAN /\ due \in BOOLEAN
  /\ mu \in Clients \cup {0}
  /\ job \in [Clients ->
                [op : {"none", "stop", "restart", "delete", "scale", "shutdown"},
                 arr : 0..Len(arrays), i : Nat, n : Nat, r : 0..Len(inst),
                 p : 0..Len(specs), goal : Nat]]
  /\ rolls \in Seq([at : {"next", "probe", "abort", "done"},
                    todo : Seq(Runners), new : 0..Len(inst),
                    drains : SUBSET Runners, stopping : SUBSET Runners])
  /\ requests \in Nat
  /\ seen \subseteq AllOps
  /\ exited \in BOOLEAN

(* A daemon started on an empty state directory.                              *)
Init ==
  /\ mode \in Modes
  /\ svc = 0 /\ specs = <<>> /\ listed = {} /\ saved = 0
  /\ inst = <<>> /\ arrays = <<>> /\ runners = [arr |-> 0, len |-> 0]
  /\ nextIdx = 0
  /\ proxy = Closed
  /\ reloading = FALSE /\ rolls = <<>>
  /\ watcher = FALSE /\ due = FALSE
  /\ mu = 0
  /\ job = [c \in Clients |-> NoJob]
  /\ requests = 0 /\ seen = {}
  /\ exited = FALSE

--------------------------------------------------------------------------------
(* The store                                                                  *)

(* SetInstanceState, for all indices of a set; ignored without the service.   *)
(* What an entry says is Runner.tla's business.                               *)
Recorded(I) == IF svc = 0 THEN listed ELSE listed \cup I

(* RemoveInstanceState                                                        *)
NotRemoved(i) == listed
Removed(i) == IF svc = 0 THEN listed ELSE listed \ {i}

--------------------------------------------------------------------------------
(* The slice of runners.  Handlers copy its header, not the runners.          *)

At(i) == arrays[runners.arr][i]
Tracked == {At(i) : i \in 1..runners.len}
NoRunners == [arr |-> 0, len |-> 0]

Cap == IF runners.arr = 0 THEN 0 ELSE Len(arrays[runners.arr])

(* append: in place while the capacity lasts, else into a doubled array.      *)
Grown(n) ==
  {k \in n..(2 * n - 1) :
     \E e \in 0..n : k = (IF Cap = 0 THEN 1 ELSE Cap) * 2^e}

AppendRunners(R) ==
  LET n == runners.len + Len(R)
      Elem(i) == IF i <= runners.len THEN At(i)
                 ELSE IF i <= n THEN R[i - runners.len] ELSE 0 IN
  \/ /\ n <= Cap
     /\ arrays' = [arrays EXCEPT ![runners.arr] =
                      [i \in 1..Cap |-> IF i \in 1..n THEN Elem(i) ELSE @[i]]]
     /\ runners' = [runners EXCEPT !.len = n]
  \/ /\ n > Cap
     /\ \E k \in Grown(n) : arrays' = Append(arrays, [i \in 1..k |-> Elem(i)])
     /\ runners' = [arr |-> Len(arrays) + 1, len |-> n]

(* allocIndexLocked and NewRunner, for the k slots from `slot` on.            *)
NewIdxs(k) == nextIdx..(nextIdx + k - 1)
NewIdsOffByOne(k) == [j \in 1..k |-> Len(inst) + j + 1]
NewIds(k) == [j \in 1..k |-> Len(inst) + j]

NewRunners(k, slot) ==
  /\ inst' = inst \o [j \in 1..k |-> [idx |-> nextIdx + j - 1,
                                      slot |-> slot + j - 1,
                                      stopped |-> FALSE, over |-> FALSE]]
  /\ nextIdx' = nextIdx + k

(* Sorting a sequence of runners by slot, ties in any order (sort.Slice).     *)
Arrangements(s) ==
  {[i \in 1..Len(s) |-> s[f[i]]] :
     f \in {g \in [1..Len(s) -> 1..Len(s)] :
             \A i, j \in 1..Len(s) : g[i] = g[j] => i = j}}

Sortings(s) ==
  {t \in Arrangements(s) :
     \A i, j \in 1..Len(s) : i < j => inst[t[i]].slot <= inst[t[j]].slot}

Slice == [i \in 1..runners.len |-> At(i)]

--------------------------------------------------------------------------------
(* Proxy and watcher                                                          *)

ProxyCreatedOnly(R) ==
  IF mode # "proxy" \/ proxy.open THEN UNCHANGED proxy
  ELSE proxy' = [open |-> TRUE, ups |-> R] \/ UNCHANGED proxy

StopProxy == proxy' = Closed
StartWatcher == watcher' = Watch
StopWatcher == watcher' = FALSE

(* syncProxyLocked, R being the runners it is to serve; listening may fail.   *)
SyncProxy(R) ==
  IF mode # "proxy" THEN UNCHANGED proxy
  ELSE \/ proxy' = [open |-> TRUE, ups |-> R]
       \/ ~proxy.open /\ UNCHANGED proxy

(* startInstancesLocked for the Process p of n instances: whatever runners    *)
(* there were are forgotten, not stopped.                                     *)
StartInstances(p, n) ==
  /\ NewRunners(n, 0)
  /\ svc' = p
  /\ listed' = NewIdxs(n)
  /\ arrays' = Append(arrays, NewIds(n))
  /\ runners' = [arr |-> Len(arrays) + 1, len |-> n]
  /\ SyncProxy({NewIds(n)[j] : j \in 1..n})
  /\ StartWatcher

--------------------------------------------------------------------------------
(* Requests that need no runner to stop are served in one critical section.   *)

(* Daemon.mu can be taken.  Nothing happens any more once the daemon is gone.  *)
Free == ~exited /\ mu = 0

Accept(op) ==
  /\ ~exited
  /\ op \in Ops
  /\ requests < MaxRequests
  /\ requests' = requests + 1
  /\ seen' = seen \cup {op}

(* anyRunningLocked.  Without a runner left, an entry may still read "running" *)
(* and start is refused, or "errored" or "stopped" and it is not.              *)
AnyRunning == runners.len > 0

Start ==
  /\ Free
  /\ Accept("start")
  /\ \/ /\ svc # 0
        /\ ~AnyRunning
        /\ StartInstances(svc, specs[svc])
        /\ UNCHANGED specs
     \/ /\ svc = 0
        /\ \E n \in Counts : /\ specs' = Append(specs, n)
                             /\ StartInstances(Len(specs) + 1, n)
  /\ UNCHANGED <<mode, saved, reloadVars, due, mu, job, exited>>

Save ==
  /\ Accept("save")
  /\ saved' = IF svc = 0 THEN 0 ELSE specs[svc]
  /\ UNCHANGED <<mode, svc, specs, listed, runnerVars, proxy, reloadVars,
                 watchVars, mu, job, exited>>

(* A new Process from save.json takes the place of any registered one.        *)
Resurrect ==
  /\ Free
  /\ saved # 0
  /\ Accept("resurrect")
  /\ specs' = Append(specs, saved)
  /\ StartInstances(Len(specs) + 1, saved)
  /\ UNCHANGED <<mode, saved, reloadVars, due, mu, job, exited>>

ScaleUp ==
  /\ Free
  /\ svc # 0 /\ runners.len > 0
  /\ Accept("scale")
  /\ \E n \in Counts :
       LET k == n - runners.len IN
       /\ k > 0
       /\ listed' = Recorded(NewIdxs(k))
       /\ NewRunners(k, runners.len)
       /\ AppendRunners(NewIds(k))
       /\ SyncProxy(Tracked \cup {NewIds(k)[j] : j \in 1..k})
       /\ specs' = [specs EXCEPT ![svc] = n]
  /\ UNCHANGED <<mode, svc, saved, reloadVars, watchVars, mu, job, exited>>

--------------------------------------------------------------------------------
(* Requests that stop runners one after the other.  All but a scale-down let   *)
(* go of Daemon.mu meanwhile, and read the next runner from the shared array.  *)

Job(op, first, goal) ==
  [op |-> op, arr |-> runners.arr, i |-> first, n |-> runners.len, r |-> 0,
   p |-> svc, goal |-> goal]

Loop(c, op) ==
  /\ job[c] = NoJob
  /\ job' = [job EXCEPT ![c] = Job(op, 1, 0)]

Stop(c) ==
  /\ Free
  /\ svc # 0 \/ runners.len > 0
  /\ Accept("stop")
  /\ Loop(c, "stop")
  /\ StopWatcher
  /\ StopProxy
  /\ UNCHANGED <<mode, storeVars, runnerVars, reloadVars, due, mu, exited>>

Restart(c) ==
  /\ Free
  /\ svc # 0
  /\ Accept("restart")
  /\ Loop(c, "restart")
  /\ UNCHANGED <<mode, storeVars, runnerVars, proxy, reloadVars, watchVars, mu,
                 exited>>

(* cmdDelete forgets the runners even when there is no service to delete.     *)
Delete(c) ==
  /\ Free
  /\ Accept("delete")
  /\ IF svc = 0 THEN UNCHANGED job ELSE Loop(c, "delete")
  /\ runners' = NoRunners
  /\ nextIdx' = 0
  /\ StopWatcher
  /\ StopProxy
  /\ UNCHANGED <<mode, storeVars, inst, arrays, reloadVars, due, mu, exited>>

(* The slice is sorted in place, under the eyes of whoever else holds it.     *)
ScaleDown(c) ==
  /\ Free
  /\ svc # 0
  /\ Accept("scale")
  /\ job[c] = NoJob
  /\ \E n \in Counts, t \in Sortings(Slice) :
       /\ n < runners.len
       /\ arrays' = [arrays EXCEPT ![runners.arr] =
                       [i \in DOMAIN @ |-> IF i <= runners.len THEN t[i] ELSE @[i]]]
       /\ job' = [job EXCEPT ![c] = Job("scale", n + 1, n)]
  /\ mu' = c
  /\ UNCHANGED <<mode, storeVars, inst, runners, nextIdx, proxy, reloadVars,
                 watchVars, exited>>

(* SIGTERM to the daemon: stopAll                                             *)
Shutdown(c) ==
  /\ Free
  /\ "shutdown" \notin seen
  /\ Accept("shutdown")
  /\ Loop(c, "shutdown")
  /\ StopWatcher
  /\ StopProxy
  /\ UNCHANGED <<mode, storeVars, runnerVars, reloadVars, due, mu, exited>>

(* Runner.Stop, from setting stopped to its return                            *)
TellStop(c) ==
  LET j == job[c]  r == arrays[j.arr][j.i] IN
  /\ ~exited
  /\ j.op # "none" /\ j.r = 0 /\ j.i <= j.n
  /\ inst' = [inst EXCEPT ![r].stopped = TRUE]
  /\ job' = [job EXCEPT ![c].r = r]
  /\ UNCHANGED <<mode, storeVars, arrays, runners, nextIdx, proxy, reloadVars,
                 watchVars, mu, countVars, exited>>

StopReturns(c) ==
  LET j == job[c]  idx == inst[j.r].idx IN
  /\ ~exited
  /\ j.r # 0
  /\ listed' = IF j.op = "scale" THEN Removed(idx) ELSE Recorded({idx})
  /\ job' = [job EXCEPT ![c].r = 0, ![c].i = @ + 1]
  /\ UNCHANGED <<mode, svc, specs, saved, runnerVars, proxy, reloadVars,
                 watchVars, mu, countVars, exited>>

Finishes(c, op) ==
  /\ ~exited
  /\ job[c].op = op /\ job[c].r = 0 /\ job[c].i > job[c].n
  /\ job' = [job EXCEPT ![c] = NoJob]

StopDone(c) ==
  /\ Finishes(c, "stop")
  /\ UNCHANGED <<mode, storeVars, runnerVars, proxy, reloadVars, watchVars, mu,
                 countVars, exited>>

(* The Process read before the runners were stopped is registered again.      *)
RestartDone(c) ==
  /\ Free
  /\ Finishes(c, "restart")
  /\ StartInstances(job[c].p, specs[job[c].p])
  /\ UNCHANGED <<mode, specs, saved, reloadVars, due, mu, countVars, exited>>

(* store.Delete, not under Daemon.mu                                          *)
DeleteDone(c) ==
  /\ Finishes(c, "delete")
  /\ svc' = 0
  /\ UNCHANGED <<mode, specs, listed, saved, runnerVars, proxy, reloadVars,
                 watchVars, mu, countVars, exited>>

ForgetUnlock == mu
Unlock == 0

ScaleDownDone(c) ==
  LET j == job[c] IN
  /\ Finishes(c, "scale")
  /\ runners' = [runners EXCEPT !.len = j.goal]
  /\ SyncProxy({At(i) : i \in 1..j.goal})
  /\ specs' = [specs EXCEPT ![j.p] = j.goal]
  /\ svc' = j.p
  /\ mu' = Unlock
  /\ UNCHANGED <<mode, listed, saved, inst, arrays, nextIdx, reloadVars,
                 watchVars, countVars, exited>>

ShutdownDone(c) ==
  /\ Finishes(c, "shutdown")
  /\ exited' = TRUE
  /\ UNCHANGED <<mode, storeVars, runnerVars, proxy, reloadVars, watchVars, mu,
                 countVars>>

Serve(c) ==
  \/ TellStop(c) \/ StopReturns(c)
  \/ StopDone(c) \/ RestartDone(c) \/ DeleteDone(c) \/ ScaleDownDone(c)
  \/ ShutdownDone(c)

--------------------------------------------------------------------------------
(* Rolling reload                                                             *)

MayReloadAnyway == TRUE
MayReload == ~reloading

(* cmdReload.  A service without a port is restarted, one without runners is  *)
(* started, else runReload gets a copy of the slice, which it sorts.           *)
ReloadPortless(c) ==
  /\ mode = "portless"
  /\ Loop(c, "restart")
  /\ UNCHANGED <<storeVars, runnerVars, proxy, reloadVars, watcher>>

ReloadStarts ==
  /\ mode # "portless" /\ MayReload /\ runners.len = 0
  /\ StartInstances(svc, specs[svc])
  /\ UNCHANGED <<specs, saved, reloadVars, job>>

ReloadRolls ==
  /\ mode # "portless" /\ MayReload /\ runners.len > 0
  /\ reloading' = TRUE
  /\ \E t \in Sortings(Slice) :
       rolls' = Append(rolls, [at |-> "next", todo |-> t, new |-> 0,
                               drains |-> {}, stopping |-> {}])
  /\ UNCHANGED <<storeVars, runnerVars, proxy, watcher, job>>

Reload(c) ==
  /\ Free
  /\ svc # 0
  /\ ReloadPortless(c) \/ ReloadStarts \/ ReloadRolls
  /\ UNCHANGED <<mode, mu, exited>>

RequestReload(c) ==
  /\ Accept("reload")
  /\ Reload(c)
  /\ UNCHANGED due

(* The watcher sees its stop channel only between two ticks: a change it has   *)
(* found leads to cmdReload even if it is stopped meanwhile.                    *)
WatcherFires ==
  /\ ~exited
  /\ watcher /\ ~due
  /\ requests < MaxRequests
  /\ due' = TRUE
  /\ requests' = requests + 1
  /\ seen' = seen \cup {"reload"}
  /\ UNCHANGED <<mode, storeVars, runnerVars, proxy, reloadVars, watcher, mu,
                 job, exited>>

WatcherReloads(c) ==
  /\ due
  /\ due' = FALSE
  /\ Reload(c)
  /\ UNCHANGED countVars

(* The change is not looked at again.                                         *)
WatcherRefused ==
  /\ due
  /\ Free
  /\ svc = 0 \/ (mode # "portless" /\ ~MayReload)
  /\ due' = FALSE
  /\ UNCHANGED <<mode, storeVars, runnerVars, proxy, reloadVars, watcher, mu,
                 job, countVars, exited>>

(* runReload, one slot after the other                                        *)
RollLaunch(k) ==
  LET roll == rolls[k] IN
  /\ Free
  /\ roll.at = "next" /\ roll.todo # <<>>
  /\ NewRunners(1, inst[Head(roll.todo)].slot)
  /\ listed' = Recorded(NewIdxs(1))
  /\ rolls' = [rolls EXCEPT ![k].at = "probe", ![k].new = Len(inst) + 1]
  /\ UNCHANGED <<mode, svc, specs, saved, arrays, runners, proxy, reloading,
                 watchVars, mu, job, countVars, exited>>

ReplaceFound(old, nw) ==
  IF old \notin Tracked THEN UNCHANGED <<arrays, runners>>
  ELSE \E i \in 1..runners.len :
         /\ At(i) = old
         /\ arrays' = [arrays EXCEPT ![runners.arr][i] = nw]
         /\ UNCHANGED runners

(* replaceRunnerLocked                                                        *)
Replace(old, nw) ==
  \/ \E i \in 1..runners.len :
       /\ At(i) = old
       /\ \A j \in 1..(i - 1) : At(j) # old
       /\ arrays' = [arrays EXCEPT ![runners.arr][i] = nw]
       /\ UNCHANGED runners
  \/ /\ old \notin Tracked
     /\ AppendRunners(<<nw>>)

(* WaitReady succeeded: the replacement is routed to, the old one drains and   *)
(* its entry, if there still is one, is marked so.                             *)
RollSwap(k) ==
  LET roll == rolls[k]  old == Head(roll.todo) IN
  /\ Free
  /\ roll.at = "probe"
  /\ Replace(old, roll.new)
  /\ SyncProxy({arrays'[runners'.arr][i] : i \in 1..runners'.len})
  /\ rolls' = [rolls EXCEPT ![k].at = "next", ![k].todo = Tail(@),
                            ![k].new = 0, ![k].drains = @ \cup {old}]
  /\ UNCHANGED <<mode, storeVars, inst, nextIdx, reloading, watchVars, mu, job,
                 countVars, exited>>

(* WaitReady gave up: the replacement is stopped, the other slots left alone. *)
GivenUpOld(k) == Head(rolls[k].todo)
GivenUp(k) == rolls[k].new

RollAbort(k) ==
  /\ ~exited
  /\ rolls[k].at = "probe"
  /\ inst' = [inst EXCEPT ![GivenUp(k)].stopped = TRUE]
  /\ rolls' = [rolls EXCEPT ![k].at = "abort"]
  /\ UNCHANGED <<mode, storeVars, arrays, runners, nextIdx, proxy, reloading,
                 watchVars, mu, job, countVars, exited>>

RollAbortDone(k) ==
  /\ ~exited
  /\ rolls[k].at = "abort"
  /\ listed' = Removed(inst[rolls[k].new].idx)
  /\ rolls' = [rolls EXCEPT ![k].at = "next", ![k].todo = <<>>, ![k].new = 0]
  /\ UNCHANGED <<mode, svc, specs, saved, runnerVars, proxy, reloading,
                 watchVars, mu, job, countVars, exited>>

(* A drain runs in a goroutine of its own.                                    *)
DrainTell(k, old) ==
  /\ ~exited
  /\ old \in rolls[k].drains
  /\ inst' = [inst EXCEPT ![old].stopped = TRUE]
  /\ rolls' = [rolls EXCEPT ![k].drains = @ \ {old},
                            ![k].stopping = @ \cup {old}]
  /\ UNCHANGED <<mode, storeVars, arrays, runners, nextIdx, proxy, reloading,
                 watchVars, mu, job, countVars, exited>>

DoneForgotten(k, old) == rolls[k].stopping
DoneWith(k, old) == rolls[k].stopping \ {old}

DrainDone(k, old) ==
  /\ ~exited
  /\ old \in rolls[k].stopping
  /\ listed' = Removed(inst[old].idx)
  /\ rolls' = [rolls EXCEPT ![k].stopping = DoneWith(k, old)]
  /\ UNCHANGED <<mode, svc, specs, saved, runnerVars, proxy, reloading,
                 watchVars, mu, job, countVars, exited>>

AllDrained(roll) == roll.drains = {} /\ roll.stopping = {}

RollDone(k) ==
  /\ Free
  /\ rolls[k].at = "next" /\ rolls[k].todo = <<>>
  /\ AllDrained(rolls[k])
  /\ rolls' = [rolls EXCEPT ![k].at = "done"]
  /\ reloading' = FALSE
  /\ UNCHANGED <<mode, storeVars, runnerVars, proxy, watchVars, mu, job,
                 countVars, exited>>

Roll(k) ==
  \/ RollLaunch(k) \/ RollSwap(k) \/ RollAbort(k) \/ RollAbortDone(k)
  \/ RollDone(k)
  \/ \E old \in Runners : DrainTell(k, old) \/ DrainDone(k, old)

--------------------------------------------------------------------------------
(* supervise writes its entry, and adds it where it is missing: "running" at a *)
(* launch, "starting" or "errored" after an exit.  A launch that a Stop came   *)
(* too late for is written as well, see Exec and Publish in Runner.tla.        *)
Report(r) ==
  LET idx == inst[r].idx IN
  /\ ~exited
  /\ ~inst[r].over
  /\ svc # 0 /\ idx \notin listed
  /\ listed' = Recorded({idx})
  /\ inst' = [inst EXCEPT ![r].over = inst[r].stopped]
  /\ UNCHANGED <<mode, svc, specs, saved, arrays, runners, nextIdx, proxy,
                 reloadVars, watchVars, mu, job, countVars, exited>>

Request(c) ==
  \/ Stop(c) \/ Restart(c) \/ Delete(c) \/ ScaleDown(c) \/ Shutdown(c)
  \/ RequestReload(c)

Next ==
  \/ Start \/ Save \/ Resurrect \/ ScaleUp
  \/ WatcherFires \/ WatcherRefused
  \/ \E c \in Clients : Request(c) \/ Serve(c) \/ WatcherReloads(c)
  \/ \E k \in DOMAIN rolls : Roll(k)
  \/ \E r \in Runners : Report(r)

SafeSpec == Init /\ [][Next]_vars

(* A handler and the goroutines of a reload go on once they run: a Stop is     *)
(* bounded by SIGKILL and a health wait by its deadline.  Nobody has to send   *)
(* requests or rebuild the binary.                                              *)
Fairness ==
  /\ \A c \in Clients : WF_vars(Serve(c))
  /\ \A k \in 1..MaxRequests : WF_vars(k \in DOMAIN rolls /\ Roll(k))

Spec == SafeSpec /\ Fairness

--------------------------------------------------------------------------------
(* Properties                                                                 *)

Live == {r \in Runners : ~inst[r].stopped}
Active == {k \in DOMAIN rolls : rolls[k].at # "done"}

(* Runners some loop has still to stop.                                       *)
Pending == UNION {{arrays[job[c].arr][i] : i \in job[c].i..job[c].n} : c \in Clients}

(* Runners a rolling reload is responsible for.                               *)
Rolling == UNION {rolls[k].drains \cup rolls[k].stopping
                    \cup (IF rolls[k].new = 0 THEN {} ELSE {rolls[k].new})
                    : k \in DOMAIN rolls}

(* No request that replaces or forgets the slice of runners as a whole.        *)
SliceKept ==
  /\ seen \cap {"restart", "delete", "resurrect"} = {}
  /\ mode = "portless" => "reload" \notin seen

Quiet == Active = {} /\ \A c \in Clients : job[c] = NoJob

(* One rolling reload at a time, from the request that starts it until its last*)
(* drain has ended, whatever happens to the service meanwhile                  *)
(* (daemon.go:538-555, 570-576).                                               *)
OneRolling ==
  /\ \A j, k \in Active : j = k
  /\ reloading = (Active # {})

(* While no handler is inside the critical section a proxy has exactly the     *)
(* tracked instances as upstreams, through every start, swap and scale         *)
(* (daemon.go:324-351, 611, 718).                                              *)
ProxyTracksRunners == (proxy.open /\ mu = 0) => proxy.ups = Tracked

(* No index is ever given to two runners, so none of them writes another's     *)
(* entry or logs, as long as the service is not deleted (daemon.go:894-900).   *)
UniqueIndex ==
  "delete" \notin seen =>
    \A q, r \in Runners : inst[q].idx = inst[r].idx => q = r

(* Stopping, scaling and reloading, in any overlap, lose no running instance:  *)
(* one that has not been told to stop is tracked, or a reload or a stop loop   *)
(* has it in hand (daemon.go:451-466, 609-629, 693-716).                       *)
NoLostRunner ==
  SliceKept => Live \subseteq Tracked \cup Pending \cup Rolling

(* Once nothing is in progress the tracked runners are one for each slot       *)
(* 0..N-1 of the stored spec, whatever requests overlapped, reloads excepted   *)
(* (daemon.go:263-282, 693-720).                                               *)
SlotsExact ==
  (Quiet /\ runners.len > 0 /\ svc # 0 /\ "reload" \notin seen) =>
    /\ runners.len = specs[svc]
    /\ {inst[r].slot : r \in Tracked} = 0..(specs[svc] - 1)

(* A reload alone keeps every slot served at every moment, aborted or not: the *)
(* old instance goes only when its replacement is routed to                    *)
(* (daemon.go:594-629).                                                        *)
EverySlotServed ==
  (svc # 0 /\ seen \subseteq {"start", "reload", "save"} /\ mode # "portless") =>
    \A slot \in 0..(specs[svc] - 1) :
      \E r \in Tracked : ~inst[r].stopped /\ inst[r].slot = slot

(* Slots are kept, by reloads alone at every moment and by all else once it is *)
(* over.                                                                       *)
SlotsKept == EverySlotServed /\ SlotsExact

(* Once nothing is in progress the list has an entry for every tracked runner  *)
(* and for no other, drained, aborted or dropped, but one whose last launch    *)
(* slipped past its stop (daemon.go:600, 626, 712; runner.go:105-113, 226-232).*)
ListedExactly ==
  (Quiet /\ svc # 0 /\ seen \subseteq {"start", "reload", "scale", "save"}
     /\ mode # "portless") =>
    LET Idxs(R) == {inst[r].idx : r \in R} IN
    /\ Idxs(Tracked) \subseteq listed
    /\ listed \subseteq Idxs(Tracked \cup {r \in Runners : inst[r].over})

(* A reload ends: its drains are bounded and never wait for one another.       *)
ReloadEnds == reloading ~> (~reloading \/ exited)

(* Every request that stops runners is answered, whatever else holds or waits  *)
(* for Daemon.mu.                                                              *)
RequestsAnswered == \A c \in Clients : job[c] # NoJob ~> (job[c] = NoJob \/ exited)

--------------------------------------------------------------------------------
(* What the documentation says and the code does not keep.                     *)

(* daemon.go:468-469: restart means "stop every instance, then start fresh":   *)
(* once nothing is in progress only the tracked instances run.                 *)
RestartStartsFresh == Quiet => Live \subseteq Tracked

(* daemon.go:455: stop's "don't auto-reload a service we're stopping": without *)
(* a later start or reload request, a stopped service has nothing running.     *)
StoppedNotReloaded ==
  ("stop" \in seen /\ Quiet /\ ~due) => Live = {}

(* runner.go:51: an index is a "unique key for logs/state (monotonic across    *)
(* reloads)": runners in use do not share one.                                 *)
IndexIsKey ==
  \A q, r \in Live \cup Rolling : inst[q].idx = inst[r].idx => q = r
================================================================================
