-------------------------------- MODULE Traffic --------------------------------
(******************************************************************************)
(* What clients see while a service is reloaded or scaled: their connections,  *)
(* the front proxy that dials an instance for each of them (or the kernel that *)
(* picks a listener of the shared port), the health gate of the rolling reload *)
(* and the graceful shutdown of the instances it drains.                       *)
(* One operation runs at a time here, overlaps are Daemon.tla's; an instance   *)
(* is named by its index, and does not crash: supervision is Runner.tla's.     *)
(******************************************************************************)
EXTENDS Integers, Sequences, FiniteSets

CONSTANTS
  Conns,      \* connections clients open
  Modes,      \* kinds of service: "proxy", "reuseport"
  Probes,     \* kinds of health check: "tcp" connect, "http" request
  Slots,      \* instances the service is started with
  MaxInst     \* bound: instances ever launched

ASSUME TrafficAssumption ==
  /\ Modes \subseteq {"proxy", "reuseport"}
  /\ Probes \subseteq {"tcp", "http"}
  /\ Slots \in Nat \ {0}
  /\ MaxInst \in Nat /\ Slots <= MaxInst

VARIABLES
  mode,     \* the service's Mode
  probe,    \* how its instances are probed
  stage,    \* how far each instance is
  count,    \* instances launched so far
  runners,  \* Daemon.runners, by slot
  ups,      \* the proxy's upstreams
  roll,     \* the operation under way
  drains,   \* instances whose drain goroutine has yet to call Stop
  conn,     \* the connections
  aborted   \* auxiliary: replacements that were given up

instVars == <<stage, count>>
ctrlVars == <<runners, ups, roll, drains, aborted>>
vars == <<mode, probe, instVars, ctrlVars, conn>>

Insts == 1..MaxInst

Stages == {"none", "launched", "bound", "ready", "closing", "gone"}

NoConn == [at |-> "new", us |-> <<>>, to |-> 0, knew |-> {}]
Idle == [at |-> "idle", slot |-> 0, new |-> 0]

RollType ==
  [at : {"idle", "next", "probe", "end", "down"}, slot : Nat, new : 0..MaxInst]

\* us: still to be dialled; to: the instance it goes to; knew: auxiliary, the
\* upstreams that listened when it loaded them.
ConnType ==
  [at : {"new", "dialing", "queued", "open", "answered", "refused", "reset", "cut"},
   us : Seq(Insts), to : 0..MaxInst, knew : SUBSET Insts]

TypeOK ==
  /\ mode \in Modes /\ probe \in Probes
  /\ stage \in [Insts -> Stages]
  /\ count \in 0..MaxInst
  /\ runners \in Seq(Insts)
  /\ ups \in Seq(Insts)
  /\ roll \in RollType
  /\ drains \subseteq Insts
  /\ conn \in [Conns -> ConnType]
  /\ aborted \subseteq Insts

(* A service that has come up.  Without a health path an opaque service is     *)
(* probed by connecting; the SDK's health server is always asked by HTTP.      *)
Init ==
  /\ mode \in Modes
  /\ probe \in IF mode = "proxy" THEN Probes ELSE Probes \ {"tcp"}
  /\ stage = [r \in Insts |-> IF r <= Slots THEN "ready" ELSE "none"]
  /\ count = Slots
  /\ runners = [k \in 1..Slots |-> k]
  /\ ups = runners
  /\ roll = Idle
  /\ drains = {} /\ aborted = {}
  /\ conn = [c \in Conns |-> NoConn]

--------------------------------------------------------------------------------
(* An instance                                                                *)

(* The kernel queues connections to it.                                       *)
Listening(r) == stage[r] \in {"bound", "ready"}

Bind(r) ==
  /\ stage[r] = "launched"
  /\ stage' = [stage EXCEPT ![r] = "bound"]
  /\ UNCHANGED <<mode, probe, count, ctrlVars, conn>>

BecomesReady(r) ==
  /\ stage[r] = "bound"
  /\ stage' = [stage EXCEPT ![r] = "ready"]
  /\ UNCHANGED <<mode, probe, count, ctrlVars, conn>>

(* health.Check                                                               *)
Healthy(r) == IF probe = "tcp" THEN Listening(r) ELSE stage[r] = "ready"

Lose(r, from, how) ==
  conn' = [c \in Conns |-> IF conn[c].to = r /\ conn[c].at = from
                           THEN [conn[c] EXCEPT !.at = how] ELSE conn[c]]

(* SIGTERM: the listener closes, and connections still in its queue are reset. *)
Terminate(r) ==
  /\ stage' = [stage EXCEPT ![r] = IF @ = "launched" THEN "gone" ELSE "closing"]
  /\ Lose(r, "queued", "reset")

Busy(r) == \E c \in Conns : conn[c].to = r /\ conn[c].at = "open"

Exit(r) ==
  /\ stage[r] = "closing" /\ ~Busy(r)
  /\ stage' = [stage EXCEPT ![r] = "gone"]
  /\ UNCHANGED <<mode, probe, count, ctrlVars, conn>>

(* The drain budget is spent: connections still open are closed.              *)
Overrun(r) ==
  /\ stage[r] = "closing" /\ Busy(r)
  /\ stage' = [stage EXCEPT ![r] = "gone"]
  /\ Lose(r, "open", "cut")
  /\ UNCHANGED <<mode, probe, count, ctrlVars>>

--------------------------------------------------------------------------------
(* The daemon                                                                 *)

SyncProxy(rs) == ups' = IF mode = "proxy" THEN rs ELSE ups

LaunchOne ==
  /\ count < MaxInst
  /\ count' = count + 1
  /\ stage' = [stage EXCEPT ![count + 1] = "launched"]

RollStart ==
  /\ roll.at = "idle"
  /\ count + Len(runners) <= MaxInst
  /\ roll' = [at |-> "next", slot |-> 1, new |-> 0]
  /\ UNCHANGED <<mode, probe, instVars, runners, ups, drains, conn, aborted>>

EarlyUpstream == SyncProxy(Append(ups, count + 1))
LaunchUpstreams == UNCHANGED ups

RollLaunch ==
  /\ roll.at = "next" /\ roll.slot <= Len(runners)
  /\ LaunchOne
  /\ LaunchUpstreams
  /\ roll' = [roll EXCEPT !.at = "probe", !.new = count + 1]
  /\ UNCHANGED <<mode, probe, runners, drains, conn, aborted>>

GateMissing(r) == TRUE
Gate(r) == Healthy(r)

RollSwap ==
  LET rs == [runners EXCEPT ![roll.slot] = roll.new] IN
  /\ roll.at = "probe"
  /\ Gate(roll.new)
  /\ runners' = rs
  /\ SyncProxy(rs)
  /\ drains' = drains \cup {runners[roll.slot]}
  /\ roll' = [at |-> "next", slot |-> roll.slot + 1, new |-> 0]
  /\ UNCHANGED <<mode, probe, instVars, conn, aborted>>

(* WaitReady's budget is spent.                                               *)
RollAbort ==
  /\ roll.at = "probe"
  /\ Terminate(roll.new)
  /\ aborted' = aborted \cup {roll.new}
  /\ roll' = [roll EXCEPT !.at = "end"]
  /\ UNCHANGED <<mode, probe, count, runners, ups, drains>>

Drain(r) ==
  /\ r \in drains
  /\ Terminate(r)
  /\ drains' = drains \ {r}
  /\ UNCHANGED <<mode, probe, count, runners, ups, roll, aborted>>

Stopping == {r \in Insts : stage[r] = "closing"}

RollEnd ==
  /\ roll.at = "end" \/ (roll.at = "next" /\ roll.slot > Len(runners))
  /\ drains = {} /\ Stopping = {}
  /\ roll' = Idle
  /\ UNCHANGED <<mode, probe, instVars, runners, ups, drains, conn, aborted>>

(* cmdScale routes to a new instance at once, without a probe.                *)
ScaleUp ==
  /\ roll.at = "idle"
  /\ LaunchOne
  /\ runners' = Append(runners, count + 1)
  /\ SyncProxy(runners')
  /\ UNCHANGED <<mode, probe, roll, drains, conn, aborted>>

(* It stops the highest slot first and routes around it afterwards.           *)
ScaleDown ==
  /\ roll.at = "idle" /\ Len(runners) > 1
  /\ Terminate(runners[Len(runners)])
  /\ roll' = [Idle EXCEPT !.at = "down"]
  /\ UNCHANGED <<mode, probe, count, runners, ups, drains, aborted>>

ScaleDownDone ==
  /\ roll.at = "down" /\ Stopping = {}
  /\ runners' = SubSeq(runners, 1, Len(runners) - 1)
  /\ SyncProxy(runners')
  /\ roll' = Idle
  /\ UNCHANGED <<mode, probe, instVars, drains, conn, aborted>>

--------------------------------------------------------------------------------
(* A connection                                                               *)

(* dial: all of the upstreams once, beginning anywhere.                       *)
DialPositions(us, start) == [i \in 1..Len(us) |-> (start + i) % Len(us)]
DialOrder(us, start) ==
  [i \in 1..Len(us) |-> us[((start + i) % Len(us)) + 1]]

Upstreams == {ups[i] : i \in DOMAIN ups}

(* proxy.handle loads the upstreams once.                                     *)
Load(c) ==
  /\ mode = "proxy"
  /\ conn[c].at = "new"
  /\ \E start \in 0..(Len(ups) - 1) :
       conn' = [conn EXCEPT ![c] =
                  [NoConn EXCEPT !.at = "dialing", !.us = DialOrder(ups, start),
                     !.knew = {r \in Upstreams : Listening(r)}]]
  /\ UNCHANGED <<mode, probe, instVars, ctrlVars>>

DialSucceeds(c) ==
  /\ conn[c].at = "dialing" /\ conn[c].us # <<>>
  /\ Listening(Head(conn[c].us))
  /\ conn' = [conn EXCEPT ![c] =
                [NoConn EXCEPT !.at = "queued", !.to = Head(conn[c].us)]]
  /\ UNCHANGED <<mode, probe, instVars, ctrlVars>>

GiveUpAtOnce(us) == <<>>
Others(us) == Tail(us)

DialFails(c) ==
  /\ conn[c].at = "dialing" /\ conn[c].us # <<>>
  /\ ~Listening(Head(conn[c].us))
  /\ conn' = [conn EXCEPT ![c].us = Others(@)]
  /\ UNCHANGED <<mode, probe, instVars, ctrlVars>>

NoUpstream(c) ==
  /\ conn[c].at = "dialing" /\ conn[c].us = <<>>
  /\ conn' = [conn EXCEPT ![c].at = "refused"]
  /\ UNCHANGED <<mode, probe, instVars, ctrlVars>>

(* SO_REUSEPORT: the kernel picks any listener, ready or not.                 *)
Connect(c) ==
  /\ mode = "reuseport"
  /\ conn[c].at = "new"
  /\ \/ \E r \in Insts :
          /\ Listening(r)
          /\ conn' = [conn EXCEPT ![c] = [@ EXCEPT !.at = "queued", !.to = r]]
     \/ /\ \A r \in Insts : ~Listening(r)
        /\ conn' = [conn EXCEPT ![c].at = "refused"]
  /\ UNCHANGED <<mode, probe, instVars, ctrlVars>>

Accept(c) ==
  /\ conn[c].at = "queued" /\ Listening(conn[c].to)
  /\ conn' = [conn EXCEPT ![c].at = "open"]
  /\ UNCHANGED <<mode, probe, instVars, ctrlVars>>

Answer(c) ==
  /\ conn[c].at = "open"
  /\ conn' = [conn EXCEPT ![c].at = "answered"]
  /\ UNCHANGED <<mode, probe, instVars, ctrlVars>>

--------------------------------------------------------------------------------
Dial(c) == DialSucceeds(c) \/ DialFails(c) \/ NoUpstream(c)

Operate ==
  \/ RollLaunch \/ RollSwap \/ RollAbort \/ RollEnd \/ ScaleDownDone
  \/ \E r \in Insts : Drain(r)

Next ==
  \/ Operate \/ RollStart \/ ScaleUp \/ ScaleDown
  \/ \E r \in Insts : Bind(r) \/ BecomesReady(r) \/ Exit(r) \/ Overrun(r)
  \/ \E c \in Conns : Load(c) \/ Connect(c) \/ Dial(c) \/ Accept(c) \/ Answer(c)

Spec == Init /\ [][Next]_vars

--------------------------------------------------------------------------------
(* Properties                                                                 *)

(* At every moment of reloads and scalings some instance that has passed the   *)
(* health check can be reached: the port is never down (daemon.go:594-625).     *)
AlwaysServed ==
  \E r \in IF mode = "proxy" THEN Upstreams ELSE Insts : Healthy(r)

(* The proxy refuses a connection only if there were instances listening when  *)
(* it loaded its upstreams and every one of them was told to stop before it    *)
(* was dialled: it tries all of them, past those that have yet to come up or   *)
(* are gone (proxy.go:88-101).  On a shared port none is ever refused.         *)
NoNeedlessRefusal ==
  \A c \in Conns : conn[c].at = "refused" =>
    /\ mode = "proxy"
    /\ conn[c].knew # {}
    /\ \A r \in conn[c].knew : ~Listening(r)

(* A reload that is given up costs a proxied client nothing: no connection     *)
(* ever went to the replacement (daemon.go:597-611).                           *)
AbortHarmless ==
  mode = "proxy" => \A c \in Conns : conn[c].to \notin aborted

--------------------------------------------------------------------------------
(* What the documentation says and the code does not keep.                     *)

(* proxy.go:83-87: retrying past a failed dial "is what makes reload truly     *)
(* zero-downtime": no connection is refused.                                   *)
NoDroppedConnection == \A c \in Conns : conn[c].at # "refused"
================================================================================
