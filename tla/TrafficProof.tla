----------------------------- MODULE TrafficProof -----------------------------
(* What clients can rely on while a service is reloaded and scaled, for any     *)
(* number of instances and connections.                                        *)
EXTENDS Traffic, TLAPS

(* The tracked instances are distinct, launched, and neither draining nor       *)
(* given up; the one being probed is none of them.                             *)
Tracked ==
  /\ Len(runners) >= 1
  /\ \A i \in 1..Len(runners) :
       runners[i] \in 1..count /\ runners[i] \notin drains /\ runners[i] \notin aborted
  /\ \A i, j \in 1..Len(runners) : runners[i] = runners[j] => i = j
  /\ aborted \subseteq 1..count /\ drains \subseteq 1..count
  /\ mode = "proxy" => ups = runners

RollSound ==
  /\ roll.at = "next" => roll.slot >= 1
  /\ roll.at = "down" => Len(runners) > 1
  /\ roll.at = "probe" =>
       /\ roll.slot \in 1..Len(runners)
       /\ roll.new \in 1..count /\ roll.new \notin drains /\ roll.new \notin aborted
       /\ \A i \in 1..Len(runners) : runners[i] # roll.new

Ctrl == TypeOK /\ Tracked /\ RollSound

(* The first slot's instance is a healthy one.                                *)
FirstHealthy == Healthy(runners[1])

(* Where a proxied connection goes, or may go, is no replacement on probation. *)
Proven(r) ==
  /\ r \in 0..count /\ r \notin aborted
  /\ roll.at = "probe" => r # roll.new

BoundForProven(c) ==
  /\ Proven(conn[c].to)
  /\ \A i \in 1..Len(conn[c].us) : Proven(conn[c].us[i])

GoesToProven == mode = "proxy" => \A c \in Conns : BoundForProven(c)

(* A dial has yet to try every instance it knew of that still listens.        *)
HasStopped(r) == stage[r] \in {"closing", "gone"}

DialsRest(c) ==
  /\ conn[c].knew \subseteq 1..count
  /\ conn[c].at \in {"dialing", "refused"} => mode = "proxy" /\ conn[c].knew # {}
  /\ conn[c].at = "dialing" =>
       \A r \in conn[c].knew :
         \/ HasStopped(r)
         \/ Listening(r) /\ \E i \in 1..Len(conn[c].us) : conn[c].us[i] = r
  /\ conn[c].at = "refused" => \A r \in conn[c].knew : HasStopped(r)

DialsAll == \A c \in Conns : DialsRest(c)

IInv == Ctrl /\ FirstHealthy /\ GoesToProven /\ DialsAll

--------------------------------------------------------------------------------
(* A remainder is its own remainder, one turn later too.                       *)
LEMMA Rotation ==
  ASSUME NEW n \in Nat \ {0}, NEW a \in 0..(n - 1)
  PROVE  a % n = a /\ (a + n) % n = a
  <1>1. a % n = a
    OBVIOUS
  <1>2. (a + n) % n = a
    OBVIOUS
  <1>3. QED
    BY <1>1, <1>2

(* A dial has as many tries as there are upstreams, each at one of them.      *)
LEMMA DialOrderType ==
  ASSUME NEW S, NEW us \in Seq(S), NEW start \in Nat, us # <<>>
  PROVE  DialOrder(us, start) \in Seq(S) /\ Len(DialOrder(us, start)) = Len(us)
  <1> DEFINE n == Len(us)
  <1>1. n \in Nat \ {0}
    OBVIOUS
  <1>2. \A i \in 1..n : (start + i) % n \in 0..(n - 1)
    BY <1>1
  <1>3. \A i \in 1..n : us[((start + i) % n) + 1] \in S
    BY <1>1, <1>2
  <1>4. QED
    BY <1>1, <1>3 DEF DialOrder

(* Dialling visits every upstream (proxy.go:93-95).                           *)
LEMMA DialOrderCovers ==
  ASSUME NEW S, NEW us \in Seq(S), us # <<>>, NEW start \in 0..(Len(us) - 1),
         NEW k \in 1..Len(us)
  PROVE  \E i \in 1..Len(us) : DialOrder(us, start)[i] = us[k]
  <1> DEFINE n == Len(us)
             i == IF k - 1 > start THEN k - 1 - start ELSE k - 1 - start + n
  <1>1. n \in Nat \ {0} /\ k \in 1..n /\ start \in 0..(n - 1)
    OBVIOUS
  <1>2. i \in 1..n
    BY <1>1
  <1>3. (start + i) % n = k - 1
    <2>1. CASE k - 1 > start
      <3>1. start + i = k - 1 /\ k - 1 \in 0..(n - 1)
        BY <1>1, <2>1
      <3>2. (k - 1) % n = k - 1
        BY <1>1, <3>1, Rotation
      <3>3. QED
        BY <3>1, <3>2
    <2>2. CASE ~(k - 1 > start)
      <3>1. start + i = k - 1 + n /\ k - 1 \in 0..(n - 1)
        BY <1>1, <2>2
      <3>2. (k - 1 + n) % n = k - 1
        BY <1>1, <3>1, Rotation
      <3>3. QED
        BY <3>1, <3>2
    <2>3. QED
      BY <2>1, <2>2
  <1> HIDE DEF i
  <1>4. DialOrder(us, start)[i] = us[((start + i) % n) + 1]
    BY <1>2 DEF DialOrder
  <1>5. ((start + i) % n) + 1 = k
    BY <1>1, <1>3
  <1>6. DialOrder(us, start)[i] = us[k]
    BY <1>4, <1>5
  <1>7. QED
    BY <1>2, <1>6

(* It goes nowhere but to upstreams.                                          *)
LEMMA DialOrderOnly ==
  ASSUME NEW us, NEW S, us \in Seq(S), us # <<>>, NEW start \in Nat,
         NEW i \in 1..Len(us)
  PROVE  \E k \in 1..Len(us) : DialOrder(us, start)[i] = us[k]
  <1> DEFINE k == ((start + i) % Len(us)) + 1
  <1>1. Len(us) \in Nat \ {0}
    OBVIOUS
  <1>2. (start + i) % Len(us) \in 0..(Len(us) - 1)
    BY <1>1
  <1>3. k \in 1..Len(us)
    BY <1>1, <1>2
  <1>4. DialOrder(us, start)[i] = us[k]
    BY DEF DialOrder
  <1>5. QED
    BY <1>3, <1>4

--------------------------------------------------------------------------------
(* One step of the daemon keeps its bookkeeping sound.                         *)

(* Steps of instances and connections leave the bookkeeping alone.            *)
LEMMA CtrlUntouched ==
  ASSUME Tracked, RollSound, UNCHANGED <<mode, count, ctrlVars>>
  PROVE  Tracked' /\ RollSound'
  BY DEF Tracked, RollSound, ctrlVars

(* A reload begins at the first slot.                                         *)
LEMMA RollStartCtrl ==
  ASSUME Ctrl, RollStart PROVE Tracked' /\ RollSound'
  BY DEF Ctrl, Tracked, RollSound, RollStart, TypeOK, instVars, Idle

(* The replacement is new to every table.                                     *)
LEMMA RollLaunchCtrl ==
  ASSUME Ctrl, RollLaunch PROVE Tracked' /\ RollSound'
  <1>1. /\ count \in Nat /\ count' = count + 1
        /\ UNCHANGED <<mode, ups, runners, drains, aborted>>
        /\ drains \subseteq 1..count /\ aborted \subseteq 1..count
    BY DEF Ctrl, Tracked, RollSound, TypeOK, RollType, RollLaunch, LaunchOne, LaunchUpstreams
  <1>2. Tracked'
    BY <1>1 DEF Ctrl, Tracked
  <1>3. roll'.at = "probe" /\ roll'.new = count + 1 /\ roll'.slot = roll.slot
        /\ roll.at = "next" /\ roll.slot \in 1..Len(runners)
    BY DEF Ctrl, RollSound, TypeOK, RollType, RollLaunch
  <1>4. RollSound'
    BY <1>1, <1>3 DEF Ctrl, Tracked, RollSound
  <1>5. QED
    BY <1>2, <1>4

(* The replacement takes the place of the instance that now drains.           *)
LEMMA RollSwapCtrl ==
  ASSUME Ctrl, RollSwap PROVE Tracked' /\ RollSound'
  <1>1. /\ count \in Nat /\ UNCHANGED <<mode, count, aborted>>
        /\ roll.slot \in 1..Len(runners) /\ runners \in Seq(Insts)
        /\ runners' = [runners EXCEPT ![roll.slot] = roll.new]
        /\ roll.new \in 1..count /\ roll.new \notin drains /\ roll.new \notin aborted
        /\ \A i \in 1..Len(runners) : runners[i] # roll.new
        /\ drains' = drains \cup {runners[roll.slot]}
        /\ mode = "proxy" => ups' = runners'
        /\ roll' = [at |-> "next", slot |-> roll.slot + 1, new |-> 0]
    BY DEF Ctrl, RollSound, TypeOK, RollType, RollSwap, SyncProxy, instVars
  <1>2. /\ Len(runners') = Len(runners)
        /\ runners'[roll.slot] = roll.new
        /\ \A i \in 1..Len(runners) : i # roll.slot => runners'[i] = runners[i]
    BY <1>1
  <1>3. Tracked'
    <2>1. \A i, j \in 1..Len(runners') : runners'[i] = runners'[j] => i = j
      BY <1>1, <1>2 DEF Ctrl, Tracked
    <2>2. \A i \in 1..Len(runners') :
            runners'[i] \in 1..count /\ runners'[i] \notin drains' /\ runners'[i] \notin aborted
      BY <1>1, <1>2 DEF Ctrl, Tracked
    <2>3. QED
      BY <1>1, <1>2, <2>1, <2>2 DEF Ctrl, Tracked
  <1>4. RollSound'
    BY <1>1 DEF RollSound
  <1>5. QED
    BY <1>3, <1>4

(* A replacement that is given up was not tracked.                            *)
LEMMA RollAbortCtrl ==
  ASSUME Ctrl, RollAbort PROVE Tracked' /\ RollSound'
  <1>1. /\ UNCHANGED <<mode, count, runners, ups, drains>>
        /\ aborted' = aborted \cup {roll.new} /\ roll'.at = "end"
        /\ roll.new \in 1..count
        /\ \A i \in 1..Len(runners) : runners[i] # roll.new
    BY DEF Ctrl, RollSound, TypeOK, RollType, RollAbort
  <1>2. QED
    BY <1>1 DEF Ctrl, Tracked, RollSound

(* A drain only ends.                                                         *)
LEMMA DrainCtrl ==
  ASSUME NEW r, Ctrl, Drain(r) PROVE Tracked' /\ RollSound'
  BY DEF Ctrl, Tracked, RollSound, Drain

(* A reload ends with the tables as they are.                                 *)
LEMMA RollEndCtrl ==
  ASSUME Ctrl, RollEnd PROVE Tracked' /\ RollSound'
  BY DEF Ctrl, Tracked, RollSound, RollEnd, instVars, Idle

(* A new slot is appended.                                                    *)
LEMMA ScaleUpCtrl ==
  ASSUME Ctrl, ScaleUp PROVE Tracked' /\ RollSound'
  <1>1. /\ count \in Nat /\ count' = count + 1 /\ UNCHANGED <<mode, roll, drains, aborted>>
        /\ roll.at = "idle" /\ runners \in Seq(Insts) /\ Len(runners) \in Nat
        /\ runners' = Append(runners, count + 1)
        /\ mode = "proxy" => ups' = runners'
    BY DEF Ctrl, TypeOK, RollType, ScaleUp, LaunchOne, SyncProxy
  <1>2. /\ Len(runners') = Len(runners) + 1 /\ runners'[Len(runners) + 1] = count + 1
        /\ \A i \in 1..Len(runners) : runners'[i] = runners[i]
    BY <1>1
  <1>3. Tracked'
    <2>1. \A i \in 1..Len(runners') : i \in 1..Len(runners) \/ i = Len(runners) + 1
      BY <1>1, <1>2
    <2>2. \A i \in 1..Len(runners) : runners[i] \in 1..count
      BY DEF Ctrl, Tracked
    <2>3. \A i, j \in 1..Len(runners') : runners'[i] = runners'[j] => i = j
      BY <1>1, <1>2, <2>1, <2>2 DEF Ctrl, Tracked
    <2>4. \A i \in 1..Len(runners') :
            runners'[i] \in 1..count' /\ runners'[i] \notin drains' /\ runners'[i] \notin aborted'
      BY <1>1, <1>2, <2>1, <2>2 DEF Ctrl, Tracked
    <2>5. QED
      BY <1>1, <1>2, <2>3, <2>4 DEF Ctrl, Tracked
  <1>4. RollSound'
    BY <1>1 DEF RollSound
  <1>5. QED
    BY <1>3, <1>4

(* Scaling down leaves a slot.                                                *)
LEMMA ScaleDownCtrl ==
  ASSUME Ctrl, ScaleDown PROVE Tracked' /\ RollSound'
  BY DEF Ctrl, Tracked, RollSound, ScaleDown, TypeOK, Idle

(* The last slot is dropped.                                                  *)
LEMMA ScaleDownDoneCtrl ==
  ASSUME Ctrl, ScaleDownDone PROVE Tracked' /\ RollSound'
  <1>1. /\ UNCHANGED <<mode, count, drains, aborted>> /\ roll'.at = "idle"
        /\ runners \in Seq(Insts) /\ Len(runners) \in Nat /\ Len(runners) > 1
        /\ runners' = SubSeq(runners, 1, Len(runners) - 1)
        /\ mode = "proxy" => ups' = runners'
    BY DEF Ctrl, RollSound, TypeOK, RollType, ScaleDownDone, SyncProxy, instVars, Idle
  <1>2. /\ Len(runners') = Len(runners) - 1
        /\ \A i \in 1..(Len(runners) - 1) : runners'[i] = runners[i]
    BY <1>1
  <1>3. Tracked'
    BY <1>1, <1>2 DEF Ctrl, Tracked
  <1>4. RollSound'
    BY <1>1 DEF RollSound
  <1>5. QED
    BY <1>3, <1>4

(* Every step keeps the bookkeeping.                                          *)
LEMMA CtrlStep ==
  ASSUME Ctrl, [Next]_vars PROVE Tracked' /\ RollSound'
  <1>1. ASSUME NEW r \in Insts, Bind(r) \/ BecomesReady(r) \/ Exit(r) \/ Overrun(r)
        PROVE  Tracked' /\ RollSound'
    BY <1>1, CtrlUntouched DEF Ctrl, Bind, BecomesReady, Exit, Overrun
  <1>2. ASSUME NEW c \in Conns, Load(c) \/ Connect(c) \/ Dial(c) \/ Accept(c) \/ Answer(c)
        PROVE  Tracked' /\ RollSound'
    BY <1>2, CtrlUntouched
       DEF Ctrl, Load, Connect, Dial, DialSucceeds, DialFails, NoUpstream, Accept,
           Answer, instVars
  <1>3. CASE UNCHANGED vars
    BY <1>3, CtrlUntouched DEF Ctrl, vars, instVars
  <1>4. QED
    BY <1>1, <1>2, <1>3, RollStartCtrl, RollLaunchCtrl, RollSwapCtrl, RollAbortCtrl,
       DrainCtrl, RollEndCtrl, ScaleUpCtrl, ScaleDownCtrl, ScaleDownDoneCtrl
       DEF Next, Operate

--------------------------------------------------------------------------------
(* Types.                                                                     *)

(* A lost connection is still a connection.                                   *)
LEMMA LoseType ==
  ASSUME TypeOK, NEW r, NEW from, NEW how \in {"reset", "cut"}, Lose(r, from, how)
  PROVE  conn' \in [Conns -> ConnType]
  BY DEF TypeOK, Lose, ConnType

(* Steps of an instance.                                                      *)
LEMMA InstanceType ==
  ASSUME TypeOK, NEW r \in Insts, Bind(r) \/ BecomesReady(r) \/ Exit(r) \/ Overrun(r)
  PROVE  TypeOK'
  <1>1. CASE Bind(r) \/ BecomesReady(r) \/ Exit(r)
    BY <1>1 DEF TypeOK, Bind, BecomesReady, Exit, ctrlVars, Stages
  <1>2. CASE Overrun(r)
    BY <1>2, LoseType DEF TypeOK, Overrun, ctrlVars, Stages
  <1>3. QED
    BY <1>1, <1>2

(* SIGTERM.                                                                   *)
LEMMA TerminateType ==
  ASSUME TypeOK, NEW r \in Insts, Terminate(r)
  PROVE  /\ stage' \in [Insts -> Stages]
         /\ conn' \in [Conns -> ConnType]
  BY LoseType DEF TypeOK, Terminate, Stages

(* A launch below the bound.                                                  *)
LEMMA LaunchType ==
  ASSUME TypeOK, LaunchOne
  PROVE  /\ count + 1 \in Insts /\ count' \in 0..MaxInst
         /\ stage' \in [Insts -> Stages]
  BY TrafficAssumption DEF TypeOK, LaunchOne, Insts, Stages

(* The replacement being probed is an instance, and so is its slot.           *)
LEMMA OnProbation ==
  ASSUME Ctrl, roll.at = "probe"
  PROVE  roll.new \in Insts /\ roll.slot \in 1..Len(runners)
  BY TrafficAssumption DEF Ctrl, TypeOK, RollSound, Insts

(* Steps of the daemon.                                                       *)
LEMMA OperationType ==
  ASSUME Ctrl, Operate \/ RollStart \/ ScaleUp \/ ScaleDown
  PROVE  TypeOK'
  <1> USE DEF Ctrl
  <1>1. CASE RollStart
    <2>1. roll' \in RollType
      BY <1>1, TrafficAssumption DEF RollType, RollStart, Idle
    <2>2. QED
      BY <1>1, <2>1 DEF TypeOK, RollStart, instVars
  <1>2. CASE RollLaunch
    BY <1>2, LaunchType DEF TypeOK, RollType, RollLaunch, LaunchOne, LaunchUpstreams, Insts
  <1>3. CASE RollSwap
    <2>1. roll.new \in Insts /\ roll.slot \in 1..Len(runners)
      BY <1>3, OnProbation DEF RollSwap
    <2>2. runners' \in Seq(Insts) /\ drains' \subseteq Insts /\ ups' \in Seq(Insts)
      BY <1>3, <2>1 DEF TypeOK, RollSwap, SyncProxy
    <2>3. QED
      BY <1>3, <2>1, <2>2, TrafficAssumption DEF TypeOK, RollType, RollSwap, instVars
  <1>4. CASE RollAbort
    <2>1. roll.new \in Insts
      BY <1>4, OnProbation DEF RollAbort
    <2>2. QED
      BY <1>4, <2>1, TerminateType DEF TypeOK, RollType, RollAbort
  <1>5. CASE \E r \in Insts : Drain(r)
    <2>1. PICK r \in Insts : Drain(r)
      BY <1>5
    <2>2. QED
      BY <2>1, TerminateType DEF TypeOK, Drain
  <1>6. CASE RollEnd
    BY <1>6, TrafficAssumption DEF TypeOK, RollType, RollEnd, instVars, Idle
  <1>7. CASE ScaleUp
    <2>1. runners' \in Seq(Insts) /\ ups' \in Seq(Insts)
      BY <1>7, LaunchType DEF TypeOK, ScaleUp, SyncProxy
    <2>2. QED
      BY <1>7, <2>1, LaunchType DEF TypeOK, ScaleUp
  <1>8. CASE ScaleDown
    <2>1. runners[Len(runners)] \in Insts
      BY <1>8 DEF TypeOK, ScaleDown
    <2>2. Terminate(runners[Len(runners)])
      BY <1>8 DEF ScaleDown
    <2>3. roll' \in RollType
      BY <1>8, TrafficAssumption DEF RollType, ScaleDown, Idle
    <2>4. QED
      BY <1>8, <2>1, <2>2, <2>3, TerminateType DEF TypeOK, ScaleDown
  <1>9. CASE ScaleDownDone
    <2>1. runners' \in Seq(Insts) /\ ups' \in Seq(Insts)
      BY <1>9 DEF TypeOK, RollSound, ScaleDownDone, SyncProxy
    <2>2. QED
      BY <1>9, <2>1, TrafficAssumption DEF TypeOK, RollType, ScaleDownDone, instVars, Idle
  <1>10. QED
    BY <1>1, <1>2, <1>3, <1>4, <1>5, <1>6, <1>7, <1>8, <1>9 DEF Operate

(* Steps of a connection.                                                     *)
LEMMA ConnectionType ==
  ASSUME Ctrl, NEW c \in Conns,
         Load(c) \/ Connect(c) \/ Dial(c) \/ Accept(c) \/ Answer(c)
  PROVE  TypeOK'
  <1> USE DEF Ctrl
  <1>1. SUFFICES conn' \in [Conns -> ConnType]
    BY DEF TypeOK, Load, Connect, Dial, DialSucceeds, DialFails, NoUpstream, Accept,
           Answer, instVars, ctrlVars
  <1>2. NoConn \in ConnType
    BY TrafficAssumption DEF NoConn, ConnType
  <1>3. CASE Load(c)
    <2>1. PICK start \in 0..(Len(ups) - 1) :
            conn' = [conn EXCEPT ![c] =
                  [NoConn EXCEPT !.at = "dialing", !.us = DialOrder(ups, start),
                     !.knew = {r \in Upstreams : Listening(r)}]]
      BY <1>3 DEF Load
    <2>2. DialOrder(ups, start) \in Seq(Insts)
      BY <2>1, DialOrderType DEF TypeOK
    <2>3. {r \in Upstreams : Listening(r)} \in SUBSET Insts
      BY DEF TypeOK, Upstreams
    <2>4. QED
      BY <1>2, <2>1, <2>2, <2>3 DEF TypeOK, ConnType
  <1>4. CASE DialSucceeds(c)
    <2>1. Head(conn[c].us) \in Insts
      BY <1>4 DEF TypeOK, ConnType, DialSucceeds
    <2>2. Head(conn[c].us) \in 0..MaxInst
      BY <2>1 DEF Insts
    <2>3. QED
      BY <1>2, <1>4, <2>2 DEF TypeOK, ConnType, DialSucceeds
  <1>5. CASE DialFails(c)
    <2>1. Tail(conn[c].us) \in Seq(Insts)
      BY <1>5 DEF TypeOK, ConnType, DialFails
    <2>2. QED
      BY <1>5, <2>1 DEF TypeOK, ConnType, DialFails, Others
  <1>6. CASE NoUpstream(c)
    BY <1>6 DEF TypeOK, ConnType, NoUpstream
  <1>7. CASE Connect(c)
    <2>1. CASE \E r \in Insts : conn' = [conn EXCEPT ![c] = [@ EXCEPT !.at = "queued", !.to = r]]
      <3>1. PICK r \in Insts : conn' = [conn EXCEPT ![c] = [@ EXCEPT !.at = "queued", !.to = r]]
        BY <2>1
      <3>2. r \in 0..MaxInst
        BY DEF Insts
      <3>3. QED
        BY <3>1, <3>2 DEF TypeOK, ConnType
    <2>2. CASE conn' = [conn EXCEPT ![c].at = "refused"]
      BY <2>2 DEF TypeOK, ConnType
    <2>3. QED
      BY <1>7, <2>1, <2>2 DEF Connect
  <1>8. CASE Accept(c) \/ Answer(c)
    BY <1>8 DEF TypeOK, ConnType, Accept, Answer
  <1>9. QED
    BY <1>3, <1>4, <1>5, <1>6, <1>7, <1>8 DEF Dial

(* Every step keeps the types.                                                *)
LEMMA TypeStep ==
  ASSUME Ctrl, [Next]_vars PROVE TypeOK'
  <1>1. CASE UNCHANGED vars
    BY <1>1 DEF Ctrl, TypeOK, vars, instVars, ctrlVars
  <1>2. QED
    BY <1>1, InstanceType, OperationType, ConnectionType DEF Ctrl, Next

--------------------------------------------------------------------------------
(* An instance only goes forward; what is told to stop is not tracked, or is   *)
(* the last of several slots.                                                  *)

(* SIGTERM stops its target and changes no other instance.                    *)
LEMMA TerminateEffect ==
  ASSUME TypeOK, NEW x, Terminate(x), NEW r \in Insts
  PROVE  stage'[r] = IF r # x THEN stage[r]
                     ELSE IF stage[r] = "launched" THEN "gone" ELSE "closing"
  BY DEF TypeOK, Terminate

(* A launch changes no instance launched before.                              *)
LEMMA LaunchEffect ==
  ASSUME TypeOK, LaunchOne, NEW r \in 1..count
  PROVE  stage'[r] = stage[r]
  BY TrafficAssumption DEF TypeOK, LaunchOne, Insts

(* By itself an instance comes up or, once stopping, exits.                   *)
LEMMA InstanceEffect ==
  ASSUME TypeOK, NEW x \in Insts, Bind(x) \/ BecomesReady(x) \/ Exit(x) \/ Overrun(x),
         NEW r \in Insts
  PROVE  \/ stage'[r] = stage[r]
         \/ stage[r] = "launched" /\ stage'[r] = "bound"
         \/ stage[r] = "bound" /\ stage'[r] = "ready"
         \/ stage[r] = "closing" /\ stage'[r] = "gone"
  BY DEF TypeOK, Bind, BecomesReady, Exit, Overrun

(* What has stopped stays stopped, what listens goes on or stops.             *)
LEMMA Forward ==
  ASSUME Ctrl, [Next]_vars, NEW r \in 1..count
  PROVE  /\ HasStopped(r) => HasStopped(r)'
         /\ Listening(r) => Listening(r)' \/ HasStopped(r)'
  <1> USE DEF HasStopped, Listening
  <1>0. TypeOK /\ r \in Insts
    BY TrafficAssumption DEF Ctrl, TypeOK, Insts
  <1>1. CASE \E x \in Insts : Bind(x) \/ BecomesReady(x) \/ Exit(x) \/ Overrun(x)
    BY <1>0, <1>1, InstanceEffect
  <1>2. CASE \E x : Terminate(x)
    BY <1>0, <1>2, TerminateEffect
  <1>3. CASE LaunchOne
    BY <1>0, <1>3, LaunchEffect
  <1>4. CASE UNCHANGED stage
    BY <1>4
  <1>5. QED
    BY <1>1, <1>2, <1>3, <1>4
       DEF Next, Operate, RollStart, RollLaunch, RollSwap, RollAbort, Drain, RollEnd,
           ScaleUp, ScaleDown, ScaleDownDone, Load, Connect, Dial, DialSucceeds,
           DialFails, NoUpstream, Accept, Answer, instVars, vars

(* The first slot's instance stays healthy until its healthy replacement takes *)
(* over.                                                                       *)
LEMMA FirstStep ==
  ASSUME Ctrl, FirstHealthy, [Next]_vars PROVE FirstHealthy'
  <1> DEFINE f == runners[1]
  <1>0. /\ TypeOK /\ f \in Insts /\ f \in 1..count /\ f \notin drains
        /\ 1 \in 1..Len(runners) /\ runners \in Seq(Insts)
    BY DEF Ctrl, TypeOK, Tracked
  <1>1. ASSUME NEW x, Terminate(x), x # f, UNCHANGED <<probe, runners>>
        PROVE  FirstHealthy'
    BY <1>0, <1>1, TerminateEffect DEF FirstHealthy, Healthy, Listening
  <1>2. ASSUME NEW x \in Insts, Bind(x) \/ BecomesReady(x) \/ Exit(x) \/ Overrun(x)
        PROVE  FirstHealthy'
    <2>1. UNCHANGED <<probe, runners>>
      BY <1>2 DEF Bind, BecomesReady, Exit, Overrun, ctrlVars
    <2>2. QED
      BY <1>0, <1>2, <2>1, InstanceEffect DEF FirstHealthy, Healthy, Listening
  <1>3. CASE RollAbort
    BY <1>0, <1>1, <1>3 DEF RollAbort, Ctrl, RollSound
  <1>4. ASSUME NEW x \in Insts, Drain(x) PROVE FirstHealthy'
    BY <1>0, <1>1, <1>4 DEF Drain
  <1>5. CASE ScaleDown
    <2>1. runners[Len(runners)] # f /\ Terminate(runners[Len(runners)])
      BY <1>0, <1>5 DEF ScaleDown, Ctrl, Tracked
    <2>2. QED
      BY <1>1, <1>5, <2>1 DEF ScaleDown
  <1>6. CASE RollLaunch
    BY <1>0, <1>6, LaunchEffect DEF RollLaunch, FirstHealthy, Healthy, Listening
  <1>7. CASE ScaleUp
    <2>1. runners'[1] = f
      BY <1>0, <1>7 DEF ScaleUp
    <2>2. QED
      BY <1>0, <1>7, <2>1, LaunchEffect DEF ScaleUp, FirstHealthy, Healthy, Listening
  <1>8. CASE RollSwap
    <2>1. runners'[1] = IF roll.slot = 1 THEN roll.new ELSE f
      BY <1>0, <1>8 DEF RollSwap
    <2>2. Healthy(roll.new)
      BY <1>8 DEF RollSwap, Gate
    <2>3. QED
      BY <1>8, <2>1, <2>2 DEF RollSwap, instVars, FirstHealthy, Healthy, Listening
  <1>9. CASE ScaleDownDone
    <2>1. Len(runners) > 1
      BY <1>9 DEF ScaleDownDone, Ctrl, RollSound
    <2>2. runners'[1] = f
      BY <1>0, <1>9, <2>1 DEF ScaleDownDone
    <2>3. QED
      BY <1>9, <2>2 DEF ScaleDownDone, instVars, FirstHealthy, Healthy, Listening
  <1>10. CASE UNCHANGED <<probe, stage, runners>>
    BY <1>10 DEF FirstHealthy, Healthy, Listening
  <1>11. QED
    BY <1>2, <1>3, <1>4, <1>5, <1>6, <1>7, <1>8, <1>9, <1>10
       DEF Next, Operate, RollStart, RollEnd, Load, Connect, Dial, DialSucceeds,
           DialFails, NoUpstream, Accept, Answer, instVars, ctrlVars, vars

--------------------------------------------------------------------------------
(* Where connections go.                                                      *)

(* Nothing the daemon does puts a routed instance back on probation.          *)
LEMMA ProvenStays ==
  ASSUME Ctrl, [Next]_vars, NEW r, Proven(r)
  PROVE  Proven(r)'
  <1>0. count \in Nat
    BY DEF Ctrl, TypeOK
  <1>1. CASE RollLaunch
    BY <1>0, <1>1 DEF RollLaunch, LaunchOne, Proven, Ctrl, TypeOK, RollType
  <1>2. CASE RollAbort
    BY <1>2 DEF RollAbort, Proven, Ctrl, TypeOK, RollType
  <1>3. CASE ScaleUp
    BY <1>0, <1>3 DEF ScaleUp, LaunchOne, Proven
  <1>4. CASE RollSwap
    BY <1>4 DEF RollSwap, instVars, Proven
  <1>5. CASE RollStart \/ RollEnd \/ ScaleDown \/ ScaleDownDone
    BY <1>5 DEF RollStart, RollEnd, ScaleDown, ScaleDownDone, Idle, instVars, Proven
  <1>6. CASE UNCHANGED <<count, aborted, roll>>
    BY <1>6 DEF Proven
  <1>7. QED
    BY <1>1, <1>2, <1>3, <1>4, <1>5, <1>6
       DEF Next, Operate, Drain, Bind, BecomesReady, Exit, Overrun, Load, Connect,
           Dial, DialSucceeds, DialFails, NoUpstream, Accept, Answer, instVars,
           ctrlVars, vars

(* A connection whose place is not changed by the step.                        *)
Unmoved(c) == conn'[c].to = conn[c].to /\ conn'[c].us = conn[c].us

(* A lost connection changes nothing but its outcome.                         *)
LEMMA LoseUnmoved ==
  ASSUME TypeOK, NEW r, NEW from, NEW how, Lose(r, from, how), NEW c \in Conns
  PROVE  /\ Unmoved(c) /\ conn'[c].knew = conn[c].knew
         /\ conn'[c].at = conn[c].at \/ conn'[c].at = how
  BY DEF TypeOK, ConnType, Lose, Unmoved

(* Every step keeps proxied connections off replacements on probation.        *)
LEMMA GoesStep ==
  ASSUME Ctrl, GoesToProven, [Next]_vars PROVE GoesToProven'
  <1> SUFFICES ASSUME mode = "proxy", NEW c \in Conns
               PROVE  BoundForProven(c)'
    <2>1. mode' = mode
      BY DEF Next, Operate, RollStart, RollLaunch, RollSwap, RollAbort, Drain, RollEnd,
             ScaleUp, ScaleDown, ScaleDownDone, Bind, BecomesReady, Exit, Overrun,
             Load, Connect, Dial, DialSucceeds, DialFails, NoUpstream, Accept, Answer, vars
    <2>2. QED
      BY <2>1 DEF GoesToProven
  <1>0. /\ Proven(conn[c].to)
        /\ \A i \in 1..Len(conn[c].us) : Proven(conn[c].us[i])
        /\ conn \in [Conns -> ConnType]
    BY DEF GoesToProven, BoundForProven, Ctrl, TypeOK
  <1>1. CASE Unmoved(c)
    BY <1>0, <1>1, ProvenStays DEF Unmoved, BoundForProven, Proven
  <1>2. CASE Load(c)
    <2>1. PICK start \in 0..(Len(ups) - 1) :
            conn' = [conn EXCEPT ![c] =
                  [NoConn EXCEPT !.at = "dialing", !.us = DialOrder(ups, start),
                     !.knew = {r \in Upstreams : Listening(r)}]]
      BY <1>2 DEF Load
    <2>2. conn'[c].to = 0 /\ conn'[c].us = DialOrder(ups, start)
      BY <1>0, <2>1 DEF NoConn
    <2>3. Proven(0)
      BY DEF Ctrl, TypeOK, Tracked, RollSound, Proven
    <2>4. ups \in Seq(Insts) /\ ups # <<>> /\ start \in Nat
      BY DEF Ctrl, TypeOK, Tracked
    <2>5. \A k \in 1..Len(ups) : Proven(ups[k])
      BY DEF Ctrl, TypeOK, Tracked, RollSound, Proven
    <2>6. \A i \in 1..Len(ups) : Proven(DialOrder(ups, start)[i])
      BY <2>4, <2>5, DialOrderOnly
    <2>7. Len(DialOrder(ups, start)) = Len(ups)
      BY <2>4, DialOrderType
    <2>8. QED
      BY <2>2, <2>3, <2>6, <2>7, ProvenStays DEF BoundForProven, Proven
  <1>3. CASE DialSucceeds(c)
    <2>1. conn'[c].to = conn[c].us[1] /\ conn'[c].us = <<>> /\ 1 \in 1..Len(conn[c].us)
      BY <1>0, <1>3 DEF DialSucceeds, NoConn, ConnType
    <2>2. QED
      BY <1>0, <2>1, ProvenStays DEF BoundForProven, Proven
  <1>4. CASE DialFails(c)
    <2>1. conn'[c].to = conn[c].to /\ conn'[c].us = Tail(conn[c].us)
      BY <1>0, <1>4 DEF DialFails, Others
    <2>2. conn[c].us \in Seq(Insts) /\ conn[c].us # <<>>
      BY <1>0, <1>4 DEF DialFails, ConnType
    <2>3. \A i \in 1..Len(conn'[c].us) :
            i + 1 \in 1..Len(conn[c].us) /\ conn'[c].us[i] = conn[c].us[i + 1]
      BY <2>1, <2>2
    <2>4. QED
      BY <1>0, <2>1, <2>3, ProvenStays DEF BoundForProven, Proven
  <1>5. CASE NoUpstream(c) \/ Accept(c) \/ Answer(c)
    BY <1>0, <1>1, <1>5 DEF NoUpstream, Accept, Answer, Unmoved, ConnType
  <1>6. ASSUME NEW d \in Conns, d # c,
               Load(d) \/ Dial(d) \/ Accept(d) \/ Answer(d)
        PROVE  Unmoved(c)
    BY <1>0, <1>6 DEF Load, Dial, DialSucceeds, DialFails, NoUpstream, Accept, Answer, Unmoved
  <1>7. CASE \E r, from, how : Lose(r, from, how)
    BY <1>1, <1>7, LoseUnmoved DEF Ctrl
  <1>8. CASE UNCHANGED conn
    BY <1>1, <1>8 DEF Unmoved
  <1>9. QED
    BY <1>1, <1>2, <1>3, <1>4, <1>5, <1>6, <1>7, <1>8
       DEF Next, Operate, RollStart, RollLaunch, RollSwap, RollAbort, Drain, RollEnd,
           ScaleUp, ScaleDown, ScaleDownDone, Bind, BecomesReady, Exit, Overrun,
           Connect, Dial, Terminate, vars

--------------------------------------------------------------------------------
(* Which upstreams a dial tries.                                              *)

(* Nothing about the dial of c is changed by the step.                         *)
SameDial(c) ==
  /\ conn'[c].us = conn[c].us /\ conn'[c].knew = conn[c].knew
  /\ conn'[c].at \in {"dialing", "refused"} => conn'[c].at = conn[c].at

(* Every step leaves each dial the upstreams that still listen.               *)
LEMMA DialsStep ==
  ASSUME Ctrl, FirstHealthy, DialsAll, [Next]_vars PROVE DialsAll'
  <1> SUFFICES ASSUME NEW c \in Conns PROVE DialsRest(c)'
    BY DEF DialsAll
  <1>a. mode' = mode /\ (count' = count \/ count' = count + 1)
    BY DEF Next, Operate, RollStart, RollLaunch, RollSwap,
           RollAbort, Drain, RollEnd, ScaleUp, ScaleDown, ScaleDownDone, Bind,
           BecomesReady, Exit, Overrun, Load, Connect, Dial, DialSucceeds, DialFails,
           NoUpstream, Accept, Answer, LaunchOne, instVars, vars
  <1>0. /\ DialsRest(c) /\ conn \in [Conns -> ConnType] /\ conn[c] \in ConnType
        /\ mode' = mode /\ count \in Nat /\ (count' = count \/ count' = count + 1)
    BY <1>a DEF DialsAll, Ctrl, TypeOK
  <1>1. CASE SameDial(c)
    <2>1. \A r \in conn[c].knew :
            /\ HasStopped(r) => HasStopped(r)'
            /\ Listening(r) => Listening(r)' \/ HasStopped(r)'
      BY <1>0, Forward DEF DialsRest
    <2>2. QED
      BY <1>0, <1>1, <2>1 DEF SameDial, DialsRest, HasStopped, Listening
  <1>2. CASE Load(c)
    <2>1. PICK start \in 0..(Len(ups) - 1) :
            conn' = [conn EXCEPT ![c] =
                  [NoConn EXCEPT !.at = "dialing", !.us = DialOrder(ups, start),
                     !.knew = {r \in Upstreams : Listening(r)}]]
      BY <1>2 DEF Load
    <2>2. /\ conn'[c].at = "dialing" /\ conn'[c].us = DialOrder(ups, start)
          /\ conn'[c].knew = {r \in Upstreams : Listening(r)}
      BY <1>0, <2>1 DEF NoConn
    <2>3. /\ mode = "proxy" /\ ups = runners /\ UNCHANGED <<mode, stage, count>>
          /\ ups \in Seq(Insts) /\ ups # <<>> /\ 1 \in 1..Len(ups) /\ start \in Nat
          /\ \A k \in 1..Len(ups) : ups[k] \in 1..count
      BY <1>2 DEF Load, instVars, Ctrl, TypeOK, Tracked
    <2>4. \A r : r \in Upstreams <=> \E k \in 1..Len(ups) : r = ups[k]
      BY <2>3 DEF Upstreams
    <2>5. runners[1] \in conn'[c].knew
      BY <2>2, <2>3, <2>4 DEF FirstHealthy, Healthy, Listening
    <2>6. \A k \in 1..Len(ups) : \E i \in 1..Len(ups) : DialOrder(ups, start)[i] = ups[k]
      BY <2>3, DialOrderCovers
    <2>7. Len(DialOrder(ups, start)) = Len(ups)
      BY <2>3, DialOrderType
    <2>8. \A r \in conn'[c].knew :
            Listening(r) /\ r \in 1..count /\ \E i \in 1..Len(conn'[c].us) : conn'[c].us[i] = r
      <3> SUFFICES ASSUME NEW r \in conn'[c].knew
                   PROVE  /\ Listening(r) /\ r \in 1..count
                          /\ \E i \in 1..Len(conn'[c].us) : conn'[c].us[i] = r
        OBVIOUS
      <3>1. r \in Upstreams /\ Listening(r)
        BY <2>2
      <3>2. PICK k \in 1..Len(ups) : r = ups[k]
        BY <2>4, <3>1
      <3>3. PICK i \in 1..Len(ups) : DialOrder(ups, start)[i] = ups[k]
        BY <2>6
      <3>4. i \in 1..Len(conn'[c].us) /\ conn'[c].us[i] = r
        BY <2>2, <2>7, <3>2, <3>3
      <3>5. QED
        BY <2>3, <3>1, <3>2, <3>4
    <2>9. QED
      BY <2>2, <2>3, <2>5, <2>8 DEF DialsRest, Listening
  <1>3. CASE DialFails(c)
    <2>1. /\ conn'[c].us = Tail(conn[c].us) /\ conn'[c].knew = conn[c].knew
          /\ conn'[c].at = "dialing" /\ conn[c].at = "dialing"
          /\ UNCHANGED <<stage, count>> /\ ~Listening(conn[c].us[1])
      BY <1>0, <1>3 DEF DialFails, Others, instVars, ConnType
    <2>2. conn[c].us \in Seq(Insts) /\ conn[c].us # <<>>
      BY <1>0, <1>3 DEF DialFails, ConnType
    <2>3. \A i \in 1..Len(conn[c].us) :
            i # 1 => i - 1 \in 1..Len(conn'[c].us) /\ conn'[c].us[i - 1] = conn[c].us[i]
      BY <2>1, <2>2
    <2>4. \A r \in conn[c].knew :
            \/ HasStopped(r)
            \/ Listening(r) /\ \E i \in 1..Len(conn'[c].us) : conn'[c].us[i] = r
      BY <1>0, <2>1, <2>3 DEF DialsRest, Listening
    <2>5. QED
      BY <1>0, <2>1, <2>4 DEF DialsRest, HasStopped, Listening
  <1>4. CASE DialSucceeds(c)
    BY <1>0, <1>4 DEF DialSucceeds, NoConn, DialsRest
  <1>5. CASE NoUpstream(c)
    <2>1. /\ conn'[c].at = "refused" /\ conn'[c].knew = conn[c].knew
          /\ conn[c].at = "dialing" /\ Len(conn[c].us) = 0 /\ UNCHANGED <<stage, count>>
      BY <1>0, <1>5 DEF NoUpstream, instVars, ConnType
    <2>2. \A r \in conn[c].knew : HasStopped(r)
      BY <1>0, <2>1 DEF DialsRest
    <2>3. QED
      BY <1>0, <2>1, <2>2 DEF DialsRest, HasStopped
  <1>6. CASE Connect(c)
    <2>1. runners[1] \in Insts /\ Listening(runners[1])
      BY DEF Ctrl, TypeOK, Tracked, FirstHealthy, Healthy, Listening
    <2>2. PICK r \in Insts : conn' = [conn EXCEPT ![c] = [@ EXCEPT !.at = "queued", !.to = r]]
      BY <1>6, <2>1 DEF Connect
    <2>3. conn'[c] = [conn[c] EXCEPT !.at = "queued", !.to = r] /\ count' = count
      BY <1>0, <1>6, <2>2 DEF Connect, instVars
    <2>4. conn'[c].at = "queued" /\ conn'[c].knew = conn[c].knew
      BY <1>0, <2>3 DEF ConnType
    <2>5. QED
      BY <1>0, <2>3, <2>4 DEF DialsRest
  <1>7. CASE Accept(c) \/ Answer(c)
    BY <1>0, <1>1, <1>7 DEF Accept, Answer, SameDial, ConnType
  <1>8. ASSUME NEW d \in Conns, d # c,
               Load(d) \/ Connect(d) \/ Dial(d) \/ Accept(d) \/ Answer(d)
        PROVE  SameDial(c)
    BY <1>0, <1>8 DEF Load, Connect, Dial, DialSucceeds, DialFails, NoUpstream, Accept,
                      Answer, SameDial
  <1>9. ASSUME NEW r, NEW from, NEW how \in {"reset", "cut"}, Lose(r, from, how)
        PROVE  SameDial(c)
    BY <1>9, LoseUnmoved DEF Ctrl, SameDial, Unmoved
  <1>10. CASE UNCHANGED conn
    BY <1>1, <1>10 DEF SameDial
  <1>11. QED
    BY <1>1, <1>2, <1>3, <1>4, <1>5, <1>6, <1>7, <1>8, <1>9, <1>10
       DEF Next, Operate, RollStart, RollLaunch, RollSwap, RollAbort, Drain, RollEnd,
           ScaleUp, ScaleDown, ScaleDownDone, Bind, BecomesReady, Exit, Overrun, Dial,
           Terminate, vars

--------------------------------------------------------------------------------
(* A service that has come up satisfies the invariant.                        *)
LEMMA Initially == Init => IInv
  <1> SUFFICES ASSUME Init PROVE IInv
    OBVIOUS
  <1>1. /\ Slots \in Nat /\ Slots >= 1 /\ Slots <= MaxInst /\ count = Slots
        /\ runners = [k \in 1..Slots |-> k] /\ ups = runners
    BY TrafficAssumption DEF Init
  <1>2. runners \in Seq(Insts) /\ Len(runners) = Slots
    <2>1. \A k \in 1..Slots : k \in Insts
      BY <1>1, TrafficAssumption DEF Insts
    <2>2. QED
      BY <1>1, <2>1
  <1>3. NoConn \in ConnType /\ Idle \in RollType
    BY TrafficAssumption DEF NoConn, ConnType, Idle, RollType
  <1>4. TypeOK
    BY <1>1, <1>2, <1>3, TrafficAssumption DEF Init, TypeOK, Stages
  <1>5. Tracked /\ RollSound
    BY <1>1, <1>2 DEF Init, Tracked, RollSound, Idle
  <1>6. FirstHealthy
    BY <1>1, <1>2 DEF Init, FirstHealthy, Healthy, Listening, Insts
  <1>7. GoesToProven
    BY <1>1 DEF Init, GoesToProven, BoundForProven, Proven, NoConn, Idle
  <1>8. DialsAll
    BY DEF Init, DialsAll, DialsRest, NoConn
  <1>9. QED
    BY <1>4, <1>5, <1>6, <1>7, <1>8 DEF IInv, Ctrl

(* Every step keeps the invariant.                                            *)
LEMMA InductiveStep == IInv /\ [Next]_vars => IInv'
  BY CtrlStep, TypeStep, FirstStep, GoesStep, DialsStep DEF IInv, Ctrl

(* The invariant the rest follows from.                                        *)
THEOREM TrafficInductive == Spec => []IInv
  BY Initially, InductiveStep, PTL DEF Spec

(* Every variable keeps its type, whatever is launched, drained and dialled.   *)
THEOREM TrafficTypes == Spec => []TypeOK
  <1>1. IInv => TypeOK
    BY DEF IInv, Ctrl
  <1>2. QED
    BY <1>1, TrafficInductive, PTL

(* Through every reload, abort and scaling some healthy instance can be        *)
(* reached: the port is never down (daemon.go:594-625, 693-715).                *)
THEOREM ServedThroughout == Spec => []AlwaysServed
  <1>1. IInv => AlwaysServed
    <2> SUFFICES ASSUME IInv PROVE AlwaysServed
      OBVIOUS
    <2>1. runners[1] \in Insts /\ Healthy(runners[1])
      BY DEF IInv, Ctrl, TypeOK, Tracked, FirstHealthy
    <2>2. mode = "proxy" => runners[1] \in Upstreams
      BY DEF IInv, Ctrl, TypeOK, Tracked, Upstreams
    <2>3. QED
      BY <2>1, <2>2 DEF AlwaysServed
  <1>2. QED
    BY <1>1, TrafficInductive, PTL

(* The proxy refuses a connection only when every instance that listened when  *)
(* it loaded its upstreams has been told to stop; on a shared port no          *)
(* connection is refused (proxy.go:88-101).                                    *)
THEOREM RefusedOnlyInNeed == Spec => []NoNeedlessRefusal
  <1>1. IInv => NoNeedlessRefusal
    BY DEF IInv, DialsAll, DialsRest, NoNeedlessRefusal, HasStopped, Listening
  <1>2. QED
    BY <1>1, TrafficInductive, PTL

(* No proxied connection ever goes to a replacement that is given up           *)
(* (daemon.go:597-611).                                                        *)
THEOREM AbortCostsNothing == Spec => []AbortHarmless
  <1>1. IInv => AbortHarmless
    BY DEF IInv, GoesToProven, BoundForProven, Proven, AbortHarmless
  <1>2. QED
    BY <1>1, TrafficInductive, PTL
================================================================================
