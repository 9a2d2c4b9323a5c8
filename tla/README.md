# A TLA+ model of gpm

gpm is a process manager for Go services: a daemon supervises the instances of
each service, replaces them one at a time without downtime, fronts opaque
services with a TCP proxy, and is driven by a command line over a Unix socket.
This directory holds TLA+ modules that model its concurrent core, TLC
configurations that check them on small instances, and TLAPS proofs of what
holds for every instance. File names below are relative to `src/`; `runner.go`,
`daemon.go`, `store.go`, `proxy.go`, `health.go` and `graceful.go` are
`internal/process/runner.go`, `internal/daemon/daemon.go`,
`internal/state/store.go`, `internal/proxy/proxy.go`,
`internal/health/health.go` and `pkg/gpm/graceful.go`.

    tlc -workers 2 -config runner.cfg MCRunner
    tlapm RunnerProof.tla

## 1. Inventory

| Component | State | Operations | What makes it correct |
|---|---|---|---|
| **Runner** (`runner.go`) | `stopped`, `cmd`, the loop's `failures` | `supervise`/`runOnce` (one goroutine per instance), `Stop` (any number of callers) | one process at a time; a stop leaves nothing running; restart budget; crash loops are visible |
| **Store** (`store.go`) | services, an `InstanceState` entry per instance, `state.json`, `save.json` | upsert, remove, get, `Flush`, `Save`, `Load`, `NextFreeID` | entries tell the truth, none is lost or left behind; a crash leaves a readable file |
| **Daemon** (`daemon.go`) | `runners`, `nextIdx`, `proxies`, `reloading`, `watchers` under `mu` | start, stop, restart, delete, reload, scale, save, resurrect, list, logs, shutdown | no running instance is forgotten; slots exactly filled; one reload at a time |
| **Rolling reload** (`daemon.go:513-665`) | the slice it walks, its replacement, its drains | launch, probe, swap or abort, drain | never down; an abort changes nothing; it ends |
| **Binary watcher** (`daemon.go:379-440`) | fingerprint accepted, stable count | poll, reload | reloads once per settled build, never after stop |
| **Proxy** (`proxy.go`) | upstream set, round-robin counter | `SetUpstreams`, accept, dial with retry, splice, close | connections reach a live instance |
| **Health** (`health.go`) | none | `Check`, `WaitReady` | passes only a ready instance; bounded |
| **SDK** (`pkg/gpm`) | `ready`, `readyManaged`, the listener | `Listen`, `Serve`, `WaitForShutdown`, `Ready`, `SetReady` | unready until warm; in-flight requests survive SIGTERM |
| **IPC** (`internal/ipc`) | the socket | one request per connection, 10 s deadline, auto-start and resend | a request takes effect once |
| **Daemon process** (`main.go`, `cmd/commands.go`) | pid file, socket | start, detach, stop | one daemon; services survive its restart |
| **Self-update** (`cmd/update.go`) | the binary, `save.json` | download, replace, restart daemon, resurrect | the services come back, once |
| Command line, examples | - | flags, tables, log tailing | pure I/O |

How they interact: a client connection is served by a goroutine of its own, and
a handler holds `Daemon.mu` for all of its work (start, save, resurrect, scale),
for its two ends only (stop, restart, delete: the stopping in between is
unlocked), or just to begin (reload: a background goroutine takes `mu` again
for each launch and swap). Every tracked runner has a `supervise` goroutine,
which shares `Runner.mu` with the callers of `Stop` and writes its entry
through the store, whose lock covers single reads and writes but no
read-modify-write. A reload's drains are goroutines of their own. A watcher
calls the reload handler directly. The proxy reads its upstream set through an
atomic value, with no lock. The kernel's signals, listeners and queues are
between the daemon and the services.

Hard behaviours, listed one by one at their lines in `PROJECT.json`
("hazards"): a stop racing a launch; two stops of one process; lost updates of
an entry; handlers that copy a slice header, release the lock and walk the
array while another handler sorts, appends to or swaps elements of it; requests
resent after a deadline; a watcher that fires after its stop; a reload whose
old runner has been scaled away, restarted or deleted meanwhile; a dial with a
stale upstream set; a replacement that never becomes healthy; a binary read
half written; an application that warms up beside `Serve`; SIGTERM at any
moment of a process's life; crashes of the daemon between two writes; two
daemons on one socket path.

## 2. Modules

| Module | Models |
|---|---|
| `InstanceLifecycle` | abstract: an instance is idle, up or retired; after a stop request at most one launch |
| `Runner` | one instance: `supervise`, `runOnce`, `Stop` and its callers, the processes, the entry |
| `RunnerProof` | proofs of all safety properties of `Runner`, and that it implements `InstanceLifecycle` |
| `Daemon` | one service: all handlers that change state, the reload goroutines, the watcher's firing, shutdown |
| `DaemonProof` | proofs of `OneRolling` and `UniqueIndex` |
| `SliceProof` | proofs of the other safety properties of `Daemon`, all about the shared slice of runners |
| `Traffic` | what clients see: connections, proxy or shared port, instances coming up and draining, reload and scale |
| `TrafficProof` | proofs of all safety properties of `Traffic` |
| `Graceful` | one process of the SDK: `Serve`, `WaitForShutdown`, readiness, the health server, SIGTERM and the two budgets |
| `GracefulProof` | proofs of all safety properties of `Graceful` |
| `Watcher` | the builds of a binary and the watchers that poll it, against requests and reloads |
| `WatcherProof` | proofs of the safety properties of `Watcher` |
| `Registry` | services and ids over the lives of the daemon: memory, `state.json`, `save.json`, crashes |
| `RegistryProof` | proofs of all properties of `Registry` |
| `Host` | daemon processes among the commands that start, reach, stop and update them |
| `HostProof` | proofs of all safety properties of `Host` |
| `MCRunner`, `MCDaemon`, ... | model values and symmetry sets for TLC |

The models meet at what each takes for granted of the next. `Runner`
models a single instance in full and lets any mix of callers stop it, in the
six roles the daemon has for that. `Daemon` takes from it that a `Stop` returns
(checked there as `SeenStopTerminates`) and that `supervise` may write its
entry once more after its stop (the late launch, `AtMostOneLateLaunch`), and
models what the overlapping handlers do to the shared tables. `Traffic` takes
one daemon operation at a time and adds what `Daemon` leaves out: time passing
between bind, ready, SIGTERM and exit, and connections in every stage.
`Graceful` opens up one process of `Traffic`: that it becomes ready only when it
should, and what SIGTERM costs its requests. `Watcher` opens up `WatcherFires`
of `Daemon`. `Registry` keeps only ids and "running" of every service, over
several daemons that come one after the other; `Host` keeps only whether a
daemon has services, for several daemons at a time.

### Runner

An action is the code between two points at which another goroutine may
interfere: a lock taken or released, a system call, a store access.
`Top`, `Lookup`, `Load`, `Exec`, `Publish`, `WaitReturns`, `Reap`, `ExitRead`,
`ExitWrite` are `supervise`'s loop head and `runOnce` in order; `Check`, `Found`,
`GiveUp`/`Reschedule`, `RescheduleWrite`, `Wake` its second half; `RetireRead`,
`RetireWrite` are `setInstanceStatus`. A caller of `Stop` goes `Begin...`,
(`MarkDraining`,) `CallStop`, `Exited` or `TimedOut`, `SetRead`, `SetWrite`,
`Finish...`, the last by its role. `Crash`, `ObeyTerm` and `Die` are the
operating system's. `Elsewhere` is what other requests do to the entry of a
runner they leave running: `Forget` wipes it and replaces the service's runners
(resurrect, `daemon.go:864-867`; a restart that overlaps a restart or a start,
483-488; a reload that found no runner, 545-549), `Unstore` deletes the service
under it (`cmdDelete` while the runner is not in `d.runners`).

Choices: processes are launch numbers. The local copies of an entry (`st`,
`read`) are real state, since the races are about them, and are reset once
written back. The service's restart policy is chosen in `Init`. A run is short
or long nondeterministically (`short`), and a backoff takes any time. A process
may ignore SIGTERM for ever; SIGKILL takes effect eventually. `abort` needs no
`Daemon.mu`; a second waiter for a process returns only after the death, as
both wait on what `cmd.Wait` reports. The entry belongs to one runner: that
another is given the same index after a delete (`Daemon!IndexIsKey`) and writes
the same entry is in no module. Environment, working directory and log
files are left out.

### Daemon

`runners` is a slice: a header (`arr`, `len`) over a backing array in `arrays`,
so that copies of the header alias, `sort.Slice` works in place and `append`
writes in place while the capacity lasts. A handler that releases `mu` keeps
its header in `job` and walks it. Reloads are the elements of `rolls`; each
has the runners still to do, the replacement it probes, and its drains.
`TellStop` is the moment `Stop` sets `stopped`; `StopReturns` any later one.
`due` is a watcher past its `select`. `listed` is the set of indices with an
entry (what an entry says is `Runner`'s business), and `Report` is `supervise`
upserting its own.

Choices: one service, whose mode does not change; `start` is accepted whenever
the service has no runner, as its entries may read stopped or errored; binary
checks, `freeLoopbackAddr` failing and a proxy that cannot listen are left out;
at most one fired watcher waits at a time; store writes of other goroutines do
not fall between two store writes of one critical section. `Init` is a daemon
on an empty state directory.

### Traffic

An instance is launched, bound, ready, closing, gone. `Bind` and `BecomesReady`
are `gpm.Listen` and `gpm.Serve` (or the same of an opaque service);
`Terminate` is SIGTERM: the listener closes, which resets what its queue still
holds, and `Exit` waits for open connections, `Overrun` is the spent drain
budget. `Healthy` is `health.Check`: with a `tcp` probe a bound listener
suffices, with `http` the instance must be ready; the SDK is always asked by
HTTP (`daemon.go:247-252`). `RollLaunch`, `RollSwap`, `RollAbort`, `Drain`,
`RollEnd` are `runReload`; `ScaleUp` routes to the new instance without a probe
and `ScaleDown` stops the highest slot before the proxy is told, as in
`cmdScale`. A proxied connection loads the upstream set once (`Load`) and dials
its elements in turn from an arbitrary start (`DialOrder`); on a shared port
the kernel picks any listener (`Connect`).

Choices: operations do not overlap (that is `Daemon`), instances do not crash
by themselves (that is `Runner`), services honour SIGTERM, the service is not
stopped, a client's exchange is one step (half-closing is left out).

### Graceful

`style` says whether the program calls `Serve` or `WaitForShutdown`. `main` is
where its main goroutine is, `srv` the one that runs `srv.Serve`; the test of
`readyManaged` (`LoadManaged`) and the store that follows (`StoreReady`) are two
steps, between which the application's `Ready` and `SetReady` (`Call`,
`CallStores`, two stores each) and the signal may come. `Signal` is
`Runner.Stop`'s SIGTERM: the default action until `Notify` has run. `age`
counts ticks since it was sent and `began` is when the process took it, so that
the SDK's budget (`SdkBudget`) runs from one and the daemon's (`DrainTimeout`)
from the other. `Probe` is one successful `Check`, `GiveUp` an aborted reload.
`word`, `warm`, `raced` and `lost` are auxiliary.

Choices: `Prompt` says what takes no tick: taking the signal, closing what has
drained or overstayed, exiting. `Configured`, the budgets of services with a
port, are at least a tick; one without a port (0) has no health address and
gets neither budget. Requests are counted, not told apart. `http.Server.Shutdown`
waits for what is in flight; an `onShutdown` may be nil, return at once with
requests in flight, or overstay its context, and while it runs the application
may go on accepting (`Drained`, `Shutdown`, `Accept`).

### Watcher

A fingerprint is the number of the write that left it, so two writes never have
the same (the code compares size and modification time in nanoseconds); 0 is an
absent file. `Begin` is the goroutine's first `stat`, which comes some time
after the instance was launched; `Poll` one tick (`Polled` is the `switch`);
`Fire` the call of `cmdReload`; `Quit` the `select` that sees its stop channel
closed. `Exec` reads whatever is on disk.

Choices: one service of one instance with a port; a build that is half written
is written to again before the same watcher's second tick at it (`HalfWritten`;
a write that pauses for longer is settled on, and the code has no more to go
by); a restart does not come while a replacement is being probed (that is
`Daemon`); half a build fails its health check.

### Registry

`mem` has an id per service and what its entries say (`live`); `stateFile` and
`saveFile` are what can be read of the files, of which a truncated one gives
nothing (`Unreadable`). Writing is two steps, `BeginWrite` and `EndWrite`, by
the request in hand, by a `supervise` goroutine at any time there is a runner,
and by `Save`. A stop (`StopThese`, of a request or of `stopAll`) records
"stopped" in every entry it reaches; what it may miss is the entry of a
replacement still being probed, or of a runner that a restart has forgotten, and
a report that `supervise` had begun, or that follows a late launch, may
overwrite it afterwards (`Overwrite`; `Runner` has that race step by step). `cut`
is the services with an entry that escaped in one of these ways, or that a
crash caught running. `Crash` may fall between any two steps; `Exit` is `os.Exit`,
which does not wait for the goroutine that is writing. `Boot` is `NewStore`.

Choices: requests that change the registry come one at a time. Overlapping ones
are `Daemon`'s, which has no ids: a restart that overlaps a delete and a start
stores the service it read before (`daemon.go:473`, 487) with an id that may
have been given away, and no module has that. While a file is being written no request changes `mem`,
since the writers hold the store's read lock and marshal under it; instances
fail or stop only by request, so that "running" is "running or starting".

### Host

`sock` is the daemon that has bound the socket path, if the path exists: unlinking
is by path, so any daemon's `RemoveStale`, `CloseListener` or `Exit` takes it
from whoever listens. A daemon goes `exec`, `boot`, `bind`, `up`, `stopping`,
`drained`, `closed`, `gone`. A command goes through `SendTimeout`,
`ensureDaemonRunning`, `startDaemonProcess`, `stopDaemon` and
`restartDaemonForUpdate` one system call at a time (`client[c].at` is the next).
`services` is the kinds of instances a daemon runs: "tracked" are those `stopAll`
would find in `d.runners` and end; "loose" is every other: a replacement being
probed (`daemon.go:580-592`), the instances of a delete or a drain under way
(495-507, 623-630), what a restart or a resurrect has forgotten, a launch that
misses its stop (`Runner`), and what is launched after the snapshot. `Slips` and
`Settles` make loose instances come and go, by reloads, watchers and requests
under way; `StopServices` ends the tracked ones and may leave one late launch.
`orphans` is the kinds that have outlived their daemon.

Choices: a command's request launches services (one that takes the last one
away is `Registry`'s); a booting daemon answers within the 5 s a command polls for; from
`ln.Close` to `os.Exit` no other daemon is scheduled (`NoneClosing`), which
takes microseconds; pids are not reused; the release lookup, download and checksum of an
update are one choice with three outcomes (`Install`); `DrainFits` says whether
services drain within the 5 s an update waits. A command that is "done" or
"failed" has printed so; `runUpdate` exits with status 0 even where the restart of
the daemon failed (`update.go:250-265`).

## 3. Runs

| Run | Bounds | States | Shows |
|---|---|---|---|
| `runner` | 2 stoppers in any of 6 roles, 3 policies, 2 crashes, 1 wipe, threshold 2 | 8 780 325 | the safety properties below |
| `runner_live` | 2 stoppers in roles clear and drain, unlimited restarts, 1 crash, 1 wipe | 520 610 | liveness and the refinement |
| `daemon` | 2 connections, all 9 requests, 1 or 2 instances, proxy and portless, watch, 4 requests or firings | 2 131 967 | the safety properties below |
| `daemon_live` | 2 connections, 5 requests, proxy, 3 requests | 16 048 | reloads end, requests are answered |
| `traffic` | 2 connections, 2 slots, 5 instances, both modes, both probes | 2 076 209 | the safety properties below |
| `graceful` | both styles, budgets of 1 and 2 ticks and none, 2 calls, 2 requests | 61 558 | readiness and drain |
| `watcher` | 3 writes, 2 watchers, 3 requests, 2 stable ticks | 186 907 | debounce and acceptance |
| `registry` | 3 services, 6 requests, 3 lives | 194 561 | ids and durability |
| `host` | 2 commands of 4 kinds, 4 daemons, 1 killed | 586 800 | stop, update, auto-start |
| `daemon_restart`, `traffic_drop`, `host_update` | smallest that shows it | - | three places where the code does not do what it documents (section 6) |

**runner.** `OneProcess`; `AtMostOneLateLaunch`: a stop may miss the launch
already past `isStopped`, but only that one; `ReturnedStopLeavesNothing`: past
the wait of any `Stop`, what runs was sent SIGKILL or is that late launch,
whoever else stopped the instance; `NoStalePid`, `FailureIsSurfaced`, `RestartBudget`:
the entry clears its pid, reads "errored" exactly when it should, and bounds the
launches, although several goroutines rewrite it. These three except an
instance that is being drained: the draining mark (`daemon.go:612-615`) really
can write back an old pid and restart count there. `FailureIsSurfaced` is about
an entry that exists. A request that wipes the entry of a runner it leaves
running starts the count of its restarts afresh, which is what the code does;
`RestartBudget` then bounds the launches since (`since`). Two stoppers are the least
that race with each other as well as with `supervise`, in every pair of roles
(the proofs cover any number); one wipe (`MaxWipes`) may fall between any two
steps; two crashes reach the threshold, spend the budget
of one restart, and would show one launch too many.

**runner_live.** A stop that has seen a process ends supervision; an instance
that has crashed is launched again; the runner implements `InstanceLifecycle`,
its liveness included (`Implements`). The two roles are one that holds `Daemon.mu`
to finish and clears the entry and one that marks it, releases the lock and
removes it; the others differ from these in the lock and in what they clear at
the end, and `runner` has them all.

**daemon.** `OneRolling`; `ProxyTracksRunners`; `NoLostRunner`: stop, scale and
reload, in any overlap, leave no running instance that nobody tracks or is
about to stop; `SlotsKept`: through reloads and aborts every slot is served
(`EverySlotServed`), and when all is quiet the slots are 0..N-1 (`SlotsExact`);
`ListedExactly`: the list has the tracked instances and no other, but one whose
last launch slipped past its stop. Each property's guard names the requests
under which it holds, and the exceptions are what the code does: restart,
delete and resurrect during another request replace the runners and lose some;
a scale during a reload may leave a slot twice; a stop that overlaps a drain
leaves an entry behind. Four requests are a start, the two that overlap, and
one that comes after or between; two instances are the least for slots,
sorting and in-place swaps to matter.

**daemon_live.** A reload's end waits for its drains and for `mu`, which a
scale-down holds while it waits for a process; nothing waits in a circle.

**traffic.** `AlwaysServed`: at every moment some healthy instance can be
reached; `NoNeedlessRefusal`: a connection is refused only when every instance
that listened when the upstreams were loaded has been told to stop since, and
never on a shared port; `AbortHarmless`: no proxied connection goes to a
replacement that is given up. Two slots and five instances are a whole reload
and a scaling besides, or an aborted one and another; two connections race for
the same instance.

**graceful.** `LastWordStands`: readiness is what was last asked for, by the
application, by the signal, or by `Serve` if nobody has spoken, except for an
order given just when `Serve` had tested `readyManaged` and not yet stored
(`raced`: that window is real); `HeldWhileWarming`: an application that holds
itself back before it serves is not passed by the reload's gate before it calls
`Ready`; `DrainHasItsBudget`: SIGKILL meets a process with a port that has taken
SIGTERM only after its whole budget, and only in an `onShutdown` that overstays;
before that, requests are lost only where `WaitForShutdown`'s `onShutdown`
returns, or there is none, with some in flight, and never by `Serve`;
`StopEnds`. Two ticks tell a budget from a budget and its
grace; two calls are the least to be undone; a request is in flight or one
more comes.

**watcher.** `SettledOnWhole`; `AcceptedRuns`: what the watcher will not ask
for again is what runs, save where a reload was refused (`daemon.go:435`
accepts before it asks) or given up, or the first read came late;
`SettledIsAccepted`: a whole build that stays is accepted in the end. Three
writes are a first build, half a second one and its rest; two watchers are one
and the one that follows it while it has still to quit.

**registry.** `IdsUnique`: until a resurrect brings an id back that was given to
another service meanwhile; `RegistryDurable`: what was answered is what the
next daemon finds, if it can read the file; `RefusedOnlyIfCut`: start refuses a
service without a runner only where the last daemon was killed, or an entry of
the service escaped its stop. Three services
leave a gap between two; three lives are a crash, what the next one makes of
it, and what that leaves.

**host.** `TrackedStopped`: no instance that was tracked when the stop began
outlives a daemon that was not killed, whichever of its goroutines ends the
process; `UpdateApplied`: an update that prints its success, with nobody else
about, leaves the services under a new daemon that commands reach, and nothing
that the old one tracked, when they drain within 5 s (a reload under way may
leave its replacement behind); `CommandsEnd`; `ComesUp`: whatever
a killed daemon left behind, the next one comes up. Two commands are the least
to start a daemon each, or to stop one that the other starts; four daemons are
one to begin with and one for every start of both.

Deadlock is not checked: each bound is a guard (`MaxCrashes`, `MaxRequests`,
`MaxInst`), and a bounded system stops when it has used its share; a runner
that has been retired, and a daemon that has exited, stop as well.

`PROJECT.json` lists for every property a plausible bug, defined beside the
code's definition in the module (`WaitReturnsEarly`, `ReplaceFound`,
`GateMissing`, ...), with which TLC finds the property violated.

## 4. Fairness

`Runner` assumes that the `supervise` goroutine and each caller of `Stop` that
has begun keep running, as Go's scheduler guarantees, and that a process sent
SIGKILL dies. Nobody has to call `Stop`, processes need not crash, and none has
to obey SIGTERM: the wait in `Stop` has a deadline. `Daemon` assumes that a
handler and the goroutines of a reload go on once begun: what they wait for is
bounded (`Stop` by SIGKILL, `WaitReady` by its deadline) and Go's mutexes do
not starve a waiter; weak fairness is enough because `MaxRequests` bounds how
often the lock can be taken from under one. Requests and rebuilds need not
come. `Traffic` and `Registry` have safety properties only. `Graceful` assumes
that goroutines and time go on, that `Shutdown` returns or its context expires,
and that a probe under way passes or is given up; an `onShutdown` need never
return, nor a request be answered. `Watcher` assumes that watchers keep polling.
`Host` assumes that daemons boot and stop once begun (their drains are bounded
by SIGKILL) and that commands run on: each of their waits has a deadline.

## 5. Proofs

All by TLAPS, for every value of the constants that meets the module's
`ASSUME` (the constants' types; `0` is not a client or stopper; budgets, the
crash-loop threshold and `Slots` are at least one).

**RunnerProof.** None of the invariants is inductive alone. `IInv` adds to
`TypeOK`: `AttachedInv`, that from `cmd.Start` to the return of `cmd.Wait` the
only live process is the last one launched, and before and after there is none;
`LateInv`, that after a late launch `supervise` can only go to its end;
`AwaitInv`, that what a stopper waits for is the last launch, or the late one
has followed; `PastInv`, that past the wait everything alive was killed or is
late. `OneProcess`, `AtMostOneLateLaunch`, `ReturnedStopLeavesNothing` and
`GoneLeavesNoProcess` follow. `RunnerImplements` maps every step to one of
`InstanceLifecycle` or a stutter, the late launch to the one the abstract
specification allows.

The entry comes after that. Where nobody drains the instance (a drain's
mark may write back anything it has read before), `PidInv` says that only between
the entry's publication and the exit's write has the entry a pid, and that no
copy a stopper holds has one; `StatusInv` and `CountInv` that until `stopped` is
set only `supervise` writes the entry, and others at most wipe it, so that each
launch since the last wiping but the first has been counted, in the entry or in
the copy about to be written over it; after `stopped` at most one launch follows,
of one already counted, and a deleted service's runner launches at most what it
had begun to.
`NoStalePid`, `FailureIsSurfaced` and `RestartBudget` follow.

**DaemonProof.** `OneRolling` ties the flag to the reload goroutines and is
inductive once `rolls` is known to be a sequence of records (`RollsShape`): a
reload starts only with the flag down, and only the goroutine that is done
lowers it, after its last drain.

`UniqueIndex` (`UniqueIndexes`) needs `IndexInv`, that until a delete sets it
back `nextIdx` is beyond every index given, and `CountsInv`, that whatever a
handler launches is a number of instances: stored and saved counts, the length
of the slice, and the goals and services of the handlers under way, which hold
on to a `Process` after the lock is released.

**SliceProof.** Everything is about runners at positions of arrays that several
handlers hold headers of, so the first invariant, `Base`, is inductive alone: the
types; `Header`, that a header lies within its array and has a runner at every
position (an append in place writes beyond every other header's length, a sort
permutes, a swap replaces); `ScaleAlone`, that a handler which sorts has
`Daemon.mu`, and a header that is the slice's own; `RollState`, what a reload
holds at each of its stages. `TypeOK` is `Base` with the flags, the list and the
proxy. The rest is proved on top of `Base`, each invariant with one lemma per action:

- `ProxyTracksRunners` (`ProxyTracks`): in `ProxyInv` it is inductive, because
  every step that changes the slice outside a scaling also sets the upstreams;
  a scale-down sets them only when it is through, which is why `mu = 0` is there.
- `NoLostRunner` (`NoneLost`) from `LostInv`, which is stronger: while nobody
  restarts, deletes or resurrects, what runs is tracked or held by a reload, and
  the loops of the handlers are not needed to account for it. A scale-down is
  the only other step that drops runners; `ScaleInv` says it has stopped them
  all, `SeenInv` that a handler or a reload under way was asked for, and
  `RollsTold` that what a reload waits for it has told to stop.
- `SlotsKept` (`SlotsAreKept`) has two halves. Without reloads, `SlotsInv`: the
  runner at position *i* has slot *i - 1* (`InOrder`), so the sort of a scale-down
  moves nothing (`MonotoneFixes`), and the length is what the spec says whenever the
  lock is free. With reloads, `ServedInv`: position and slot agree all along, none of
  the tracked runners has been told to stop, and a replacement has the slot of
  the runner it is for. That swap and drain take the right one needs
  `HoldInv`: no runner is tracked twice, and no reload has one in two of its
  roles (to be replaced, new, draining, stopping) or holds one that is tracked,
  which in turn rests on `OneRolling`.
- `ListedExactly` (`ListIsExact`) from `ListedInv`: an entry for every runner that is
  tracked and not among those a scale-down has just stopped (`Kept`) and for
  every replacement being probed; and for every entry a runner with its index
  that is kept, held by a reload, or reported after its stop (`Explained`). To
  remove one runner's entry must not remove another's (`IndexInv`, which is behind
  `UniqueIndex`), and what reports without having been stopped is kept or in a
  reload's hands (`LostInv`). Once nothing is in progress no reload holds
  anything and `Kept` is all that is tracked.

**TrafficProof.** `IInv` is `TypeOK` with: `Tracked`, that the tracked
instances are distinct, launched, neither draining nor given up, and are the
proxy's upstreams; `RollSound`, that the replacement being probed is none of
them; `FirstHealthy`, that the first slot's instance is healthy, since it is
replaced only by one that has just passed the probe and scaling down stops the
last of several; `GoesToProven`, that no proxied connection goes, or may still
go, to a replacement on probation; `DialsAll`, that a dial has yet to try each
instance it knew of that still listens. The lemma `DialOrderCovers` is about
the round-robin index: from any start it visits every upstream. `TypeOK`,
`AlwaysServed`, `NoNeedlessRefusal` and `AbortHarmless` follow.

**GracefulProof.** `ReadyInv` says what may still be stored: after `Serve` has
looked, the application has spoken only if it is storing or has raced, and after
the signal there is no store but a raced one. `HoldInv`: what is held back has
`readyManaged` set before `Serve` looks. `DrainInv`: the signal is taken at age
zero, so the configured budget ends before the daemon's, which has `Grace` more;
`http.Server` leaves at its own budget with what is in flight or before it with
nothing, so it is gone by then, and only an `onShutdown` that overstays is killed.

**WatcherProof.** `FilesInv`: what is on disk is the last write or nothing, a whole
one is among the builds, and watchers know of no write to come. `DebounceInv`: a
watcher's candidate that is still on disk is a build, or half of one which it
has read as it is now (`reads`); it will not read that half again, so its second
equal read is of a build, hence `SettledOnWhole`. `OneInv` adds to `OneWatcher`
that a watcher not yet started has not been told to stop. `RunsInv`: what is
accepted, missed and aborted ones excepted, runs in the replacement being probed
if there is one, else in the instance; hence `AcceptedRuns`.

**RegistryProof.** `WriteInv` says whose job it is to be writing; `IdsInv` is
`IdsUnique` for memory and the file; `DurableInv`, that memory has what the
request in hand wants, that this is what was answered unless it has yet to be
flushed, and that a file that can be read is one of the two; `CutInv`, that what
reads as running has a runner or is in `cut`, in memory and file, and that once
a clean stop has recorded what it could only entries in `cut` do.

**HostProof.** `TrackedStopped` needs `ServicesInv`: a daemon that has drained
has no tracked instances, whatever loose ones slip in, and only a daemon that
accepts or is closing has any. `TypeOK` needs `ClientsInv`: where each kind of
command can be, and that only a `resend` follows a first handling, so that no
request is handled a third time. `UpdateApplied` (`UpdateIsApplied`) needs
`UpdateInv`, which follows an update that is the only command: at each of its
steps, how far the first daemon has gone out (`Running`, `Leaving`, `Out`) and the
second come up (`Second`, `Serves`). The second is spawned only when the first no
longer answers, which, as it owns the socket, is when it has closed; the new one
takes no step before the old has exited (`NoneClosing`), so nobody unlinks
its socket. Loose instances come and go at both without taking a tracked one away
(`InstancesInStep`). The hypothesis `DrainFits` is needed: the run `host_update` shows what
happens without it.

Only model-checked: the liveness properties (`SeenStopTerminates`,
`CrashedComesBack`, `ReloadEnds`, `RequestsAnswered`, `StopEnds`,
`SettledIsAccepted`, `CommandsEnd`, `ComesUp`, the fairness part of
`Implements`), which are beyond the prover. Every invariant that a run checks is
also a theorem. Proved and in no run's list: `GoneLeavesNoProcess` (theorem
`NoOrphan`), `UniqueIndex`, `OneWatcher` (`NeverTwo`).

## 6. Where the code departs from its documentation

Each of these is stated as a property at the end of its module, and TLC finds
it violated. Three have a run:

- `daemon_restart`: of two overlapping restarts the second forgets what the
  first has started (`daemon.go:483`). One command is enough when the drain
  outlasts the client's deadline, since the client sends the request again.
- `traffic_drop`: a connection that has loaded a one-element upstream set is
  refused when that instance is swapped out and drained before the dial
  (`proxy.go:83-99`).
- `host_update`: an old daemon that drains longer than an update waits unlinks
  the new one's socket; the update reports success and no command reaches the
  services (`update.go:255`, `daemon.go:76-77`).

The others show with a configuration of a line or two more than the module's
own run, with the property as its only invariant:

- `Runner!StopIsFinal` (one stopper, role "keep"): a `Stop` between `isStopped`
  and `cmd.Start` finds nothing to signal and returns; the process is launched
  afterwards and runs on (`runner.go:279-288`).
- `Runner!StoppedReadsStopped` (the same): an exit and a `Stop` both read, change
  and write the entry; the instance is stopped and reads "running"
  (`runner.go:234-237`, against `store.go:35-37`).
- `Daemon!StoppedNotReloaded` (start and stop, with watch): a watcher past its
  `select` reloads the service that has just been stopped (`daemon.go:437`,
  against the comment at 455).
- `Daemon!IndexIsKey` (start, delete, reload): delete during a reload restarts the
  index counter, and two instances share an entry (`daemon.go:496`, against
  `runner.go:51`).
- `Watcher!AcceptedIsRunning`: a reload that is refused, or a build written
  between the launch and the watcher's first read, leaves the old build
  running (`daemon.go:411`, 435).
- `Graceful!BudgetsAgree`: a service without a port that gives no shutdown timeout
  is killed after 5 s while its context runs for 30 (`runner.go:317`, against
  `graceful.go:86-87`). The comment at `graceful.go:138`, that gpm falls back to
  TCP probing where the health server cannot listen, is not true either: the
  reload is given up (`Gpm`).
- `Registry!EveryIdUnique`: resurrect brings an id back that was given away
  (`daemon.go:865`, against `README.md:129`); `StartableAfterReboot`: after a
  reboot start refuses a service whose entries still read running, and even after
  a clean stop one with an entry that escaped it
  (`daemon.go:922`, against `README.md:123-124`); `ReadableAfterStop`: `os.Exit`
  may cut off a `supervise` goroutine that is rewriting `state.json`, and the
  next daemon begins empty (`daemon.go:78`, `store.go:111`, 148).
- `Host!StopLeavesNothing`: an instance that is not in `d.runners` when `stopAll`
  takes its snapshot outlives the daemon: a replacement being probed, a drain
  under way, a launch that misses its stop, or one that comes after
  (`daemon.go:874-892`, against `README.md:147`); `HandledOnce`: a request whose answer is late is handled twice
  (`client.go:34`, against 23-25); `SingleDaemon`: two commands that find no
  daemon start two (`commands.go:562`, against `README.md:263`).

## 7. Not modelled

- The 5 s timeout of a dial (`proxy.go:95`): an instance whose backlog is full
  refuses nobody in `Traffic`.
- An index given twice after a delete as two runners' one entry, and an id stored
  twice by a restart that overlaps a delete and a start (section 2).
- Delete among the requests of `Watcher`: a fired watcher of a deleted service is
  in `Daemon`.
- `list` and `logs`, and `Resolve`, which change nothing; a torn read of
  `InstanceStates` by `list` (`daemon.go:175`) shows in a table only.
- The splice of a half-closed connection (`proxy.go:80`): connections are whole
  exchanges in `Traffic`. The accept queue a draining process resets
  (`graceful.go:77`) is in `Traffic` as what the kernel does (`Lose`).
- The operating system's allocation of ports (`daemon.go:936`), reuse of pids.
- Flag parsing, tables and log tailing; release lookup, download, checksum and
  version comparison of the self-update; log files; the examples: pure I/O or
  pure functions of their input.
- The lengths of backoffs, probe intervals and poll intervals.
