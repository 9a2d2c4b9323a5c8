------------------------------ MODULE RunnerProof ------------------------------
(******************************************************************************)
(* Proofs about Runner, for any number of concurrent stoppers, any policies    *)
(* and any bound on the crashes.                                               *)
(******************************************************************************)
EXTENDS Runner, TLAPS

(* supervise has a process it has not reaped yet.                             *)
Attached == pc = "wait" \/ (pc = "publish" /\ st.status = "running")

AttachedInv ==
  /\ Attached => cmd = launches /\ launches > 0 /\ live \subseteq {launches}
  /\ ~Attached => cmd = 0 /\ live = {}

(* After a late launch supervise has only the way to its end before it.       *)
LateInv ==
  late # {} =>
    /\ late = {launches}
    /\ stopped
    /\ pc \in {"publish", "wait", "exitRead", "exitWrite", "check", "gone"}

(* What a stopper waits for is the last launch, unless that one was late.     *)
AwaitInv ==
  \A s \in Stoppers :
    at[s] = "await" =>
      /\ stopped
      /\ target[s] # 0
      /\ target[s] = launches \/ launches \in late

PastInv ==
  \A s \in Stoppers :
    Past(s) => stopped /\ live \subseteq killed \cup late

IInv == TypeOK /\ AttachedInv /\ LateInv /\ AwaitInv /\ PastInv

--------------------------------------------------------------------------------
(* The updates of a local copy of an entry.                                   *)
LEMMA EntryUpdates ==
  ASSUME NEW e \in EntryType, NEW a \in Statuses, NEW p \in Nat
  PROVE  /\ [e EXCEPT !.status = a, !.pid = p] \in EntryType
         /\ [e EXCEPT !.status = a, !.pid = p].status = a
         /\ [e EXCEPT !.restarts = p, !.status = a] \in EntryType
  <1>1. [e EXCEPT !.status = a, !.pid = p] \in EntryType
    BY DEF EntryType
  <1>2. [e EXCEPT !.status = a, !.pid = p].status = a
    BY DEF EntryType
  <1>3. [e EXCEPT !.restarts = p, !.status = a] \in EntryType
    BY DEF EntryType
  <1>4. QED
    BY <1>1, <1>2, <1>3

(* A missing entry is an entry like any other.                                *)
LEMMA NoEntryType == NoEntry \in EntryType
  BY DEF NoEntry, EntryType, Statuses

(* A runner that has just been created satisfies the invariant.               *)
LEMMA InitInv == Init => IInv
  <1> SUFFICES ASSUME Init PROVE IInv
    OBVIOUS
  <1> USE RunnerAssumption DEF Init, NoEntry
  <1>1. TypeOK
    BY DEF TypeOK, EntryType, Statuses, SuperPoints, StopPoints, AllRoles
  <1>2. AttachedInv /\ LateInv /\ AwaitInv /\ PastInv
    BY DEF AttachedInv, Attached, LateInv, AwaitInv, PastInv, Past
  <1>3. QED
    BY <1>1, <1>2 DEF IInv

(* The steps of supervise leave every stopper where it is.                    *)
LEMMA SuperviseInv == IInv /\ Supervise => IInv'
  <1> SUFFICES ASSUME IInv, Supervise PROVE IInv'
    OBVIOUS
  <1> USE DEF IInv, TypeOK, EntryType, Statuses, SuperPoints, NoEntry,
              AttachedInv, Attached, LateInv, AwaitInv, PastInv, Past,
              Goto, WriteBack, SetInstanceState, stopSide, processVars,
              signalVars, stopperVars
  <1>1. CASE Top
    BY <1>1 DEF Top, MayLaunch
  <1>2. CASE Lookup
    <2>1. pc' \in {"load", "check"} /\ short' \in BOOLEAN
      BY <1>2 DEF Lookup
    <2>2. UNCHANGED <<st, failures, processVars, entry, stopSide>> /\ pc = "lookup"
      BY <1>2 DEF Lookup
    <2>3. TypeOK'
      BY <2>1, <2>2
    <2>4. AttachedInv' /\ LateInv' /\ AwaitInv' /\ PastInv'
      BY <2>1, <2>2
    <2>5. QED
      BY <2>3, <2>4
  <1>3. CASE Load
    BY <1>3 DEF Load
  <1>4. CASE Exec
    <2>1. st' \in EntryType /\ st'.status = "running"
      <3>1. st' = [st EXCEPT !.status = "running", !.pid = launches + 1]
        BY <1>4 DEF Exec
      <3>2. "running" \in Statuses /\ launches + 1 \in Nat /\ st \in EntryType
        OBVIOUS
      <3>3. QED
        BY ONLY <3>1, <3>2, EntryUpdates
    <2>2. /\ pc = "exec" /\ pc' = "publish"
          /\ launches' = launches + 1
          /\ live' = {launches'} /\ cmd' = launches'
          /\ late' = IF stopped THEN {launches'} ELSE {}
          /\ since' = since + 1
          /\ UNCHANGED <<failures, short, crashes, wipes, entry, stopSide>>
      BY <1>4 DEF Exec
    <2>3. TypeOK'
      BY <2>1, <2>2
    <2>4. AttachedInv' /\ LateInv'
      BY <2>1, <2>2, <2>3
    <2>5. AwaitInv'
      BY <2>1, <2>2, <2>3
    <2>6. PastInv'
      BY <2>1, <2>2, <2>3
    <2>7. QED
      BY <2>3, <2>4, <2>5, <2>6
  <1>5. CASE ExecFails
    BY <1>5 DEF ExecFails
  <1>6. CASE Publish
    BY <1>6 DEF Publish
  <1>7. CASE Reap
    BY <1>7 DEF Reap, WaitReturns
  <1>8. CASE ExitRead
    BY <1>8 DEF ExitRead
  <1>9. CASE ExitWrite
    BY <1>9 DEF ExitWrite
  <1>10. CASE Check
    BY <1>10 DEF Check, MayLaunch
  <1>11. CASE Found
    BY <1>11 DEF Found
  <1>12. CASE GiveUp
    BY <1>12 DEF GiveUp
  <1>13. CASE Reschedule
    <2>1. st' \in EntryType
      <3>1. PICK a \in Statuses :
              st' = [entry EXCEPT !.restarts = entry.restarts + 1, !.status = a]
        BY <1>13 DEF Reschedule, StatusAfter
      <3>2. entry \in EntryType /\ entry.restarts + 1 \in Nat
        OBVIOUS
      <3>3. QED
        BY ONLY <3>1, <3>2, EntryUpdates
    <2>2. /\ pc = "decide" /\ pc' = "resched" /\ short' = FALSE
          /\ failures' \in Nat
          /\ UNCHANGED <<processVars, entry, stopSide>>
      BY <1>13 DEF Reschedule, FailuresAfter
    <2>3. QED
      BY <2>1, <2>2
  <1>14. CASE RescheduleWrite
    BY <1>14 DEF RescheduleWrite
  <1>15. CASE Wake
    BY <1>15 DEF Wake
  <1>16. CASE RetireRead
    BY <1>16 DEF RetireRead, Changed
  <1>17. CASE RetireWrite
    BY <1>17 DEF RetireWrite
  <1>18. QED
    BY <1>1, <1>2, <1>3, <1>4, <1>5, <1>6, <1>7, <1>8, <1>9, <1>10, <1>11,
       <1>12, <1>13, <1>14, <1>15, <1>16, <1>17 DEF Supervise

(* A process exits; the only one there can be is the last launched.           *)
LEMMA ExitInv == IInv /\ (Crash \/ ObeyTerm \/ Die) => IInv'
  <1> SUFFICES ASSUME IInv, Crash \/ ObeyTerm \/ Die PROVE IInv'
    OBVIOUS
  <1>1. PICK p \in live : Exits(p)
    BY DEF Crash, ObeyTerm, Die
  <1>2. crashes' \in Nat
    BY DEF Crash, ObeyTerm, Die, IInv, TypeOK
  <1>3. /\ live' = live \ {p}
        /\ UNCHANGED <<superVars, cmd, launches, late, since, wipes, entry, stopSide>>
    BY <1>1 DEF Exits
  <1> USE <1>2, <1>3 DEF IInv, superVars, stopSide, signalVars, stopperVars
  <1>4. TypeOK'
    BY DEF TypeOK
  <1>5. AttachedInv' /\ LateInv'
    BY DEF AttachedInv, Attached, LateInv, TypeOK
  <1>6. AwaitInv' /\ PastInv'
    BY DEF AwaitInv, PastInv, Past
  <1>7. QED
    BY <1>4, <1>5, <1>6

(* That a replacement is adopted changes nothing of its supervision.          *)
LEMMA AdoptInv == IInv /\ Adopt => IInv'
  BY DEF Adopt, IInv, TypeOK, AttachedInv, Attached, LateInv, AwaitInv, PastInv,
         Past, superSide, superVars, processVars, signalVars, stopperVars

(* The requests that do not know of the runner touch its entry alone.         *)
LEMMA ElsewhereInv == IInv /\ Elsewhere => IInv'
  <1> SUFFICES ASSUME IInv, Elsewhere PROVE IInv'
    OBVIOUS
  <1>1. /\ entry' = NoEntry /\ since' = 0 /\ wipes' = wipes + 1
        /\ registered' \in BOOLEAN
        /\ UNCHANGED <<superVars, cmd, launches, live, late, crashes, signalVars,
                       stopperVars, stopped, mu, policy>>
    BY DEF Elsewhere, Forget, Unstore, Wipe
  <1>2. place' \in {"new", "tracked", "dropped", "aborted"}
    BY DEF Elsewhere, Forget, Unstore, IInv, TypeOK
  <1> USE <1>1, <1>2, NoEntryType DEF IInv, superVars, signalVars, stopperVars
  <1>3. TypeOK'
    BY DEF TypeOK
  <1>4. AttachedInv' /\ LateInv'
    BY DEF AttachedInv, Attached, LateInv
  <1>5. AwaitInv' /\ PastInv'
    BY DEF AwaitInv, PastInv, Past
  <1> QED
    BY <1>3, <1>4, <1>5

(* The steps of a caller leave supervise and the processes as they are.       *)
LEMMA BeginInv ==
  ASSUME IInv, NEW s \in Stoppers, Begin(s)
  PROVE  IInv'
  <1> USE DEF IInv, TypeOK, StopPoints, AllRoles, AttachedInv, Attached, LateInv,
              AwaitInv, PastInv, Past, Take, Move, superSide, superVars,
              processVars, signalVars
  <1>1. CASE BeginSnapshot(s)
    BY <1>1, RunnerAssumption DEF BeginSnapshot
  <1>2. CASE BeginDelete(s)
    BY <1>2, RunnerAssumption DEF BeginDelete
  <1>3. CASE BeginScale(s)
    BY <1>3, RunnerAssumption DEF BeginScale
  <1>4. CASE BeginDrain(s)
    <2>1. [entry EXCEPT !.status = "draining"] \in EntryType
      BY DEF EntryType, Statuses
    <2>2. QED
      BY <1>4, <2>1, RunnerAssumption, NoEntryType DEF BeginDrain
  <1>5. CASE BeginAbort(s)
    BY <1>5, RunnerAssumption DEF BeginAbort
  <1>6. QED
    BY <1>1, <1>2, <1>3, <1>4, <1>5 DEF Begin

(* A stopper's own steps: a wait ends with its target dead or sent SIGKILL.   *)
LEMMA StoppingInv ==
  ASSUME IInv, NEW s \in Stoppers, Stopping(s)
  PROVE  IInv'
  <1> USE DEF IInv, TypeOK, StopPoints, AttachedInv, Attached, LateInv,
              AwaitInv, PastInv, Past, Move, superSide, superVars,
              processVars, signalVars, SetInstanceState
  <1> USE NoEntryType
  <1>1. CASE MarkDraining(s)
    BY <1>1 DEF MarkDraining
  <1>2. CASE CallStop(s)
    BY <1>2 DEF CallStop
  <1>3. CASE Exited(s)
    BY <1>3 DEF Exited
  <1>4. CASE TimedOut(s)
    BY <1>4 DEF TimedOut, Kill
  <1>5. CASE SetRead(s)
    <2>1. Changed(entry, "stopped") \in EntryType
      BY EntryUpdates DEF Changed, Statuses
    <2>2. QED
      BY <1>5, <2>1 DEF SetRead
  <1>6. CASE SetWrite(s)
    BY <1>6 DEF SetWrite
  <1>7. CASE FinishKeep(s)
    BY <1>7 DEF FinishKeep
  <1>8. CASE FinishRemove(s)
    BY <1>8 DEF FinishRemove
  <1>9. CASE FinishScale(s)
    BY <1>9 DEF FinishScale
  <1>10. CASE FinishClear(s)
    BY <1>10 DEF FinishClear
  <1>11. CASE FinishDelete(s)
    BY <1>11 DEF FinishDelete
  <1>12. QED
    BY <1>1, <1>2, <1>3, <1>4, <1>5, <1>6, <1>7, <1>8, <1>9, <1>10, <1>11 DEF Stopping

(* A stutter changes nothing.                                                 *)
LEMMA StutterInv == IInv /\ UNCHANGED vars => IInv'
  BY DEF IInv, TypeOK, AttachedInv, Attached, LateInv, AwaitInv, PastInv, Past,
         vars, superVars, processVars, signalVars, stopperVars, stopSide

(* The inductive invariant behind the safety theorems.                        *)
THEOREM Inductive == SafeSpec => []IInv
  <1>1. IInv /\ [Next]_vars => IInv'
    BY SuperviseInv, ExitInv, AdoptInv, ElsewhereInv, BeginInv, StoppingInv, StutterInv
       DEF Next
  <1>2. QED
    BY InitInv, <1>1, PTL DEF SafeSpec

(* Every variable keeps its type.                                             *)
THEOREM TypeCorrect == SafeSpec => []TypeOK
  <1>1. IInv => TypeOK
    BY DEF IInv
  <1>2. QED
    BY Inductive, <1>1, PTL

(* An instance is never two processes at a time (runner.go:207-223).          *)
THEOREM AtMostOneProcess == SafeSpec => []OneProcess
  <1>1. IInv => OneProcess
    BY DEF IInv, AttachedInv, OneProcess
  <1>2. QED
    BY Inductive, <1>1, PTL

(* At most one launch follows a stop (runner.go:105, 113, 283-286).           *)
THEOREM OneLateLaunch == SafeSpec => []AtMostOneLateLaunch
  <1>1. IInv => AtMostOneLateLaunch
    BY DEF IInv, LateInv, AtMostOneLateLaunch
  <1>2. QED
    BY Inductive, <1>1, PTL

(* A Stop past its wait leaves nothing but a killed process or the late       *)
(* launch (runner.go:288-304).                                                *)
THEOREM StopLeavesNothing == SafeSpec => []ReturnedStopLeavesNothing
  <1>1. IInv => ReturnedStopLeavesNothing
    BY DEF IInv, PastInv, ReturnedStopLeavesNothing
  <1>2. QED
    BY Inductive, <1>1, PTL

(* Supervision never ends while a process runs (runner.go:102-156).           *)
THEOREM NoOrphan == SafeSpec => []GoneLeavesNoProcess
  <1>1. IInv => GoneLeavesNoProcess
    BY DEF IInv, AttachedInv, Attached, GoneLeavesNoProcess
  <1>2. QED
    BY Inductive, <1>1, PTL

--------------------------------------------------------------------------------
(* Refinement                                                                 *)

(* A step of supervise launches, reaps or retires; a launch after a stop is    *)
(* the first, since LateInv holds where a launch begins.                       *)
LEMMA SuperviseMaps ==
  IInv /\ Supervise => Lifecycle!Next \/ UNCHANGED <<phase, stopped, late # {}>>
  <1> SUFFICES ASSUME IInv, Supervise
               PROVE  Lifecycle!Next \/ UNCHANGED <<phase, stopped, late # {}>>
    OBVIOUS
  <1> USE DEF IInv, AttachedInv, Attached, phase, stopSide, processVars, Goto
  <1>1. CASE Exec
    <2>1. /\ pc = "exec" /\ pc' = "publish" /\ live = {} /\ live' # {}
          /\ late' = IF stopped THEN late \cup {launches + 1} ELSE late
          /\ stopped' = stopped
      BY <1>1 DEF Exec
    <2>2. late = {}
      BY <2>1 DEF LateInv
    <2>3. phase = "idle" /\ phase' = "up"
      BY <2>1
    <2>4. (late' # {}) = (late # {} \/ stopped)
      BY <2>1, <2>2
    <2>5. Lifecycle!Launch
      BY <2>1, <2>2, <2>3, <2>4 DEF Lifecycle!Launch
    <2>6. QED
      BY <2>5 DEF Lifecycle!Next
  <1>2. CASE ~Exec
    <2>1. UNCHANGED <<live, late, stopped>> /\ pc # "gone"
      BY <1>2 DEF Supervise, Top, Lookup, Load, ExecFails, Publish, Reap,
           ExitRead, ExitWrite, Check, Found, GiveUp, Reschedule,
           RescheduleWrite, Wake, RetireRead, RetireWrite
    <2>2. CASE pc' = "gone"
      <3>1. live = {}
        BY <1>2, <2>2 DEF Supervise, Top, Lookup, Load, ExecFails, Publish,
             Reap, ExitRead, ExitWrite, Check, Found, GiveUp, Reschedule,
             RescheduleWrite, Wake, RetireRead, RetireWrite
      <3>2. Lifecycle!Retire
        BY <2>1, <2>2, <3>1 DEF Lifecycle!Retire
      <3>3. QED
        BY <3>2 DEF Lifecycle!Next
    <2>3. CASE pc' # "gone"
      BY <2>1, <2>3
    <2>4. QED
      BY <2>2, <2>3
  <1>3. QED
    BY <1>1, <1>2

(* The exit of the process is the abstract exit.                              *)
LEMMA ExitMaps == IInv /\ (Crash \/ ObeyTerm \/ Die) => Lifecycle!Next
  <1> SUFFICES ASSUME IInv, Crash \/ ObeyTerm \/ Die PROVE Lifecycle!Next
    OBVIOUS
  <1>1. PICK p \in live : Exits(p)
    BY DEF Crash, ObeyTerm, Die
  <1>2. live = {p}
    BY <1>1 DEF IInv, AttachedInv
  <1>3. /\ live' = {}
        /\ UNCHANGED <<pc, late, stopped>>
    BY <1>1, <1>2 DEF Exits, superVars, stopSide
  <1>4. pc # "gone"
    BY <1>2 DEF IInv, AttachedInv, Attached
  <1>5. Lifecycle!Exit
    BY <1>2, <1>3, <1>4 DEF Lifecycle!Exit, phase
  <1>6. QED
    BY <1>5 DEF Lifecycle!Next

(* CallStop asks; every other step of a caller is invisible.                  *)
LEMMA CallerMaps ==
  ASSUME NEW s \in Stoppers, Begin(s) \/ Stopping(s)
  PROVE  Lifecycle!Next \/ UNCHANGED <<phase, stopped, late # {}>>
  <1>1. UNCHANGED <<pc, live, late>>
    BY DEF Begin, BeginSnapshot, BeginDelete, BeginScale, BeginDrain,
         BeginAbort, Stopping, MarkDraining, CallStop, Exited, TimedOut,
         SetRead, SetWrite, FinishKeep, FinishRemove, FinishScale, FinishClear,
         FinishDelete, superSide, superVars, processVars
  <1>2. CASE stopped' = TRUE
    BY <1>1, <1>2 DEF Lifecycle!Next, Lifecycle!Ask, phase
  <1>3. CASE stopped' # TRUE
    <2>1. stopped' = stopped
      BY <1>3 DEF Begin, BeginSnapshot, BeginDelete, BeginScale, BeginDrain,
           BeginAbort, Stopping, MarkDraining, CallStop, Exited, TimedOut,
           SetRead, SetWrite, FinishKeep, FinishRemove, FinishScale,
           FinishClear, FinishDelete
    <2>2. QED
      BY <1>1, <2>1 DEF phase
  <1>4. QED
    BY <1>2, <1>3

(* Every behaviour of the runner is, step by step, one of the abstract life    *)
(* cycle: launched at most once after a stop was asked for, never retired with *)
(* a process running.                                                          *)
THEOREM RunnerImplements == SafeSpec => ImplementsSteps
  <1>1. Init => Lifecycle!Init
    BY DEF Init, Lifecycle!Init, phase
  <1>2. IInv /\ [Next]_vars => [Lifecycle!Next]_(Lifecycle!vars)
    <2> SUFFICES ASSUME IInv, [Next]_vars
                 PROVE  Lifecycle!Next \/ UNCHANGED <<phase, stopped, late # {}>>
      BY DEF Lifecycle!vars
    <2>1. CASE Adopt \/ Elsewhere \/ UNCHANGED vars
      BY <2>1 DEF Adopt, Elsewhere, Forget, Unstore, Wipe, vars, superSide, superVars,
           processVars, stopSide, phase
    <2>2. QED
      BY <2>1, SuperviseMaps, ExitMaps, CallerMaps DEF Next
  <1>3. QED
    BY <1>1, <1>2, Inductive, PTL DEF SafeSpec, ImplementsSteps

--------------------------------------------------------------------------------
(* The entry that an instance's runner shares with whoever stops it: its pid,  *)
(* its status and its count of restarts.                                       *)

(* A drain's mark writes back what it has read before, and may undo anything.  *)
NoDrain == \A s \in Stoppers : role[s] # "drain"

(* Only while its process may be there has the entry a pid.                    *)
PidInv ==
  /\ pc \notin {"wait", "exitRead", "exitWrite"} => entry.pid = 0
  /\ pc \in {"exec", "resched", "retireWrite"} => st.pid = 0
  /\ pc = "publish" /\ st.status # "running" => st.pid = 0
  /\ \A s \in Stoppers : read[s].pid = 0

(* Until it is stopped supervise is alone in writing the entry, which others   *)
(* may wipe.                                                                   *)
StatusInv ==
  ~stopped =>
    /\ pc = "resched" => (st.status = "errored" <=> failures >= CrashLoopThreshold)
    /\ pc = "retireWrite" => st.status = IF policy.auto THEN "errored" ELSE "stopped"
    /\ entry # NoEntry =>
         /\ pc = "sleep" => (entry.status = "errored" <=> failures >= CrashLoopThreshold)
         /\ pc = "gone" => entry.status = IF policy.auto THEN "errored" ELSE "stopped"

(* Before each launch but the first since a wiping a restart has been counted, *)
(* in the entry or in the copy that will be written over it; once the service  *)
(* is deleted supervise launches at most what it had begun to.                 *)
CountInv ==
  policy.max > 0 =>
    /\ since <= policy.max + 1
    /\ pc \in {"lookup", "load", "exec"} => since <= policy.max
    /\ ~stopped =>
         /\ entry.restarts <= policy.max
         /\ since <= entry.restarts + 1
         /\ pc \in {"top", "lookup", "load", "exec", "sleep"} => since <= entry.restarts
         /\ pc \in {"exec", "publish", "exitWrite", "retireWrite", "resched"} =>
              st.restarts <= policy.max
         /\ pc \in {"publish", "exitWrite", "retireWrite"} => since <= st.restarts + 1
         /\ pc \in {"exec", "resched"} => since <= st.restarts
         /\ ~registered /\ pc \in {"decide", "retireRead", "retireWrite", "resched"} => since = 0

EntryInv ==
  /\ \A s \in Stoppers : /\ at[s] = "idle" => role[s] = "none"
                         /\ at[s] = "mark" => role[s] = "drain"
  /\ ~registered => entry = NoEntry
  /\ NoDrain => PidInv /\ StatusInv /\ CountInv

(* A new runner's entry has been written for it.                              *)
LEMMA EntryInit == Init => EntryInv
  <1> SUFFICES ASSUME Init PROVE EntryInv
    OBVIOUS
  <1>1. policy.max \in Nat
    BY RunnerAssumption DEF Init
  <1>2. entry.pid = 0 /\ entry.restarts = 0 /\ \A s \in Stoppers : read[s].pid = 0
    BY DEF Init, NoEntry
  <1> QED
    BY <1>1, <1>2 DEF Init, EntryInv, PidInv, StatusInv, CountInv

(* What changing some of an entry's fields does to it.                        *)
LEMMA EntryFields ==
  ASSUME NEW e \in EntryType, NEW a, NEW p
  PROVE  /\ [e EXCEPT !.status = a, !.pid = p].restarts = e.restarts
         /\ [e EXCEPT !.status = a, !.pid = p].status = a
         /\ [e EXCEPT !.status = a, !.pid = p].pid = p
         /\ [e EXCEPT !.restarts = p, !.status = a].restarts = p
         /\ [e EXCEPT !.restarts = p, !.status = a].status = a
         /\ [e EXCEPT !.restarts = p, !.status = a].pid = e.pid
         /\ [e EXCEPT !.status = a].restarts = e.restarts
         /\ [e EXCEPT !.status = a].status = a
         /\ [e EXCEPT !.status = a].pid = e.pid
         /\ [e EXCEPT !.pid = p].restarts = e.restarts
         /\ [e EXCEPT !.pid = p].status = e.status
         /\ [e EXCEPT !.pid = p].pid = p
  BY DEF EntryType

(* The steps of supervise.                                                    *)
LEMMA SuperviseEntry == IInv /\ EntryInv /\ Supervise => EntryInv'
  <1> SUFFICES ASSUME IInv, EntryInv, Supervise PROVE EntryInv'
    OBVIOUS
  <1>0. /\ st \in EntryType /\ entry \in EntryType /\ since \in Nat
        /\ entry.restarts \in Nat /\ st.restarts \in Nat /\ failures \in Nat
        /\ policy.max \in Nat /\ CrashLoopThreshold \in Nat
    <2>1. policy \in Policies
      BY DEF IInv, TypeOK
    <2>2. policy.max \in Nat /\ CrashLoopThreshold \in Nat
      BY <2>1, RunnerAssumption
    <2> QED
      BY <2>2 DEF IInv, TypeOK, EntryType
  <1> USE <1>0 DEF EntryInv, NoDrain, Goto, stopSide, processVars, stopperVars
  <1>1. CASE Top
    BY <1>1 DEF Top, MayLaunch, PidInv, StatusInv, CountInv
  <1>2. CASE Lookup
    BY <1>2 DEF Lookup, PidInv, StatusInv, CountInv
  <1>3. CASE Load
    BY <1>3 DEF Load, PidInv, StatusInv, CountInv
  <1>4. CASE Exec
    <2>1. st' = [st EXCEPT !.status = "running", !.pid = launches + 1]
      BY <1>4 DEF Exec
    <2>2. st'.status = "running" /\ st'.restarts = st.restarts
      BY ONLY <1>0, <2>1, EntryFields
    <2>3. /\ pc = "exec" /\ pc' = "publish" /\ since' = since + 1
          /\ UNCHANGED <<failures, entry, stopSide>>
      BY <1>4 DEF Exec
    <2> QED
      BY <2>2, <2>3 DEF PidInv, StatusInv, CountInv
  <1>5. CASE ExecFails
    <2>1. st' = [st EXCEPT !.status = "errored"]
      BY <1>5 DEF ExecFails
    <2>2. st'.pid = st.pid /\ st'.restarts = st.restarts
      BY ONLY <1>0, <2>1, EntryFields
    <2> QED
      BY <1>5, <2>2 DEF ExecFails, PidInv, StatusInv, CountInv
  <1>6. CASE Publish
    BY <1>6 DEF Publish, WriteBack, SetInstanceState, PidInv, StatusInv, CountInv, NoEntry
  <1>7. CASE Reap
    BY <1>7 DEF Reap, PidInv, StatusInv, CountInv
  <1>8. CASE ExitRead
    BY <1>8 DEF ExitRead, PidInv, StatusInv, CountInv, NoEntry
  <1>9. CASE ExitWrite
    <2> DEFINE e == [st EXCEPT !.pid = 0]
    <2>1. e.pid = 0 /\ e.restarts = st.restarts
      BY ONLY <1>0, EntryFields
    <2>2. /\ pc = "exitWrite" /\ pc' = "check" /\ entry' = IF registered THEN e ELSE entry
          /\ UNCHANGED <<failures, processVars, stopSide>>
      BY <1>9 DEF ExitWrite, WriteBack, SetInstanceState
    <2> HIDE DEF e
    <2> QED
      BY <2>1, <2>2 DEF PidInv, StatusInv, CountInv, NoEntry
  <1>10. CASE Check
    BY <1>10 DEF Check, MayLaunch, PidInv, StatusInv, CountInv
  <1>11. CASE Found
    BY <1>11 DEF Found, PidInv, StatusInv, CountInv
  <1>12. CASE GiveUp
    BY <1>12 DEF GiveUp, PidInv, StatusInv, CountInv
  <1>13. CASE Reschedule
    <2>1. st' = [entry EXCEPT !.restarts = entry.restarts + 1, !.status = StatusAfter(failures')]
      BY <1>13 DEF Reschedule
    <2>2. /\ st'.restarts = entry.restarts + 1 /\ st'.status = StatusAfter(failures')
          /\ st'.pid = entry.pid
      BY ONLY <1>0, <2>1, EntryFields
    <2>3. st'.status = "errored" <=> failures' >= CrashLoopThreshold
      BY <2>2 DEF StatusAfter
    <2>4. policy.max > 0 => entry.restarts < policy.max
      BY <1>13 DEF Reschedule, BudgetSpent
    <2>5. /\ pc = "decide" /\ pc' = "resched"
          /\ UNCHANGED <<processVars, entry, stopSide>>
      BY <1>13 DEF Reschedule
    <2> QED
      BY <2>2, <2>3, <2>4, <2>5 DEF PidInv, StatusInv, CountInv
  <1>14. CASE RescheduleWrite
    BY <1>14 DEF RescheduleWrite, WriteBack, SetInstanceState, PidInv, StatusInv, CountInv, NoEntry
  <1>15. CASE Wake
    BY <1>15 DEF Wake, PidInv, StatusInv, CountInv
  <1>16. CASE RetireRead
    <2> DEFINE a == IF policy.auto THEN "errored" ELSE "stopped"
    <2>1. st' = [entry EXCEPT !.status = a, !.pid = 0]
      BY <1>16 DEF RetireRead, Changed
    <2>2. st'.restarts = entry.restarts /\ st'.status = a /\ st'.pid = 0
      BY ONLY <1>0, <2>1, EntryFields
    <2> QED
      BY <1>16, <2>2 DEF RetireRead, PidInv, StatusInv, CountInv
  <1>17. CASE RetireWrite
    BY <1>17 DEF RetireWrite, WriteBack, SetInstanceState, PidInv, StatusInv, CountInv, NoEntry
  <1> QED
    BY <1>1, <1>2, <1>3, <1>4, <1>5, <1>6, <1>7, <1>8, <1>9, <1>10, <1>11,
       <1>12, <1>13, <1>14, <1>15, <1>16, <1>17 DEF Supervise

(* What leaves supervise, the entry and the stoppers' copies alone.           *)
LEMMA EntryUntouched ==
  ASSUME EntryInv, UNCHANGED <<superVars, since, entry, policy, stopped, registered,
                               at, role, read>>
  PROVE  EntryInv'
  BY DEF EntryInv, NoDrain, PidInv, StatusInv, CountInv, superVars

(* A wiped entry has no pid, no count and nothing to surface.                 *)
LEMMA ElsewhereEntry == IInv /\ EntryInv /\ Elsewhere => EntryInv'
  <1> SUFFICES ASSUME IInv, EntryInv, Elsewhere PROVE EntryInv'
    OBVIOUS
  <1>1. /\ entry' = NoEntry /\ since' = 0
        /\ UNCHANGED <<superVars, policy, stopped, at, role, read>>
    BY DEF Elsewhere, Forget, Unstore, Wipe, stopperVars
  <1>2. NoEntry.pid = 0 /\ NoEntry.restarts = 0
    BY DEF NoEntry
  <1>3. st.restarts \in Nat /\ policy.max \in Nat
    BY RunnerAssumption DEF IInv, TypeOK, EntryType
  <1>4. NoDrain' = NoDrain
    BY <1>1 DEF NoDrain
  <1>5. PidInv => PidInv'
    BY <1>1, <1>2 DEF PidInv, superVars
  <1>6. StatusInv => StatusInv'
    BY <1>1 DEF StatusInv, superVars
  <1>7. CountInv => CountInv'
    BY <1>1, <1>2, <1>3 DEF CountInv, superVars
  <1> QED
    BY <1>1, <1>4, <1>5, <1>6, <1>7 DEF EntryInv

(* Whoever comes to stop the instance writes nothing yet.                     *)
LEMMA BeginEntry ==
  ASSUME IInv, EntryInv, NEW s \in Stoppers, Begin(s)
  PROVE  EntryInv'
  <1>0. \A r, to : Take(s, r, to) => r \in Roles
    BY DEF Take
  <1>1. \E r \in Roles, to \in {"call", "refused", "mark"} : Take(s, r, to)
    <2>1. CASE BeginSnapshot(s)
      BY <1>0, <2>1 DEF BeginSnapshot
    <2>2. CASE BeginDelete(s)
      BY <1>0, <2>2 DEF BeginDelete
    <2>3. CASE BeginScale(s)
      BY <1>0, <2>3 DEF BeginScale
    <2>4. CASE BeginDrain(s)
      BY <1>0, <2>4 DEF BeginDrain
    <2>5. CASE BeginAbort(s)
      BY <1>0, <2>5 DEF BeginAbort
    <2> QED
      BY <2>1, <2>2, <2>3, <2>4, <2>5 DEF Begin
  <1> PICK r \in Roles, to \in {"call", "refused", "mark"} : Take(s, r, to)
    BY <1>1
  <1>2. UNCHANGED <<superSide, stopped, entry, registered>>
    BY DEF Begin, BeginSnapshot, BeginDelete, BeginScale, BeginDrain, BeginAbort
  <1>3. /\ \A t \in Stoppers : at'[t] = IF t = s THEN to ELSE at[t]
        /\ \A t \in Stoppers : role'[t] = IF t = s THEN r ELSE role[t]
        /\ at[s] = "idle"
    BY DEF Take, Move, IInv, TypeOK
  <1>4. to = "mark" => r = "drain"
    BY <1>3 DEF Begin, BeginSnapshot, BeginDelete, BeginScale, BeginDrain, BeginAbort,
                Take, Move, IInv, TypeOK
  <1>5. r # "drain" => read' = read
    BY <1>3 DEF Begin, BeginSnapshot, BeginDelete, BeginScale, BeginDrain, BeginAbort,
                Take, Move, IInv, TypeOK
  <1>6. NoDrain' => NoDrain /\ read' = read
    BY <1>3, <1>5 DEF NoDrain, EntryInv
  <1> QED
    BY <1>2, <1>3, <1>4, <1>6
       DEF EntryInv, PidInv, StatusInv, CountInv, superSide, superVars, processVars

(* Stop clears the pid; who writes or removes the entry has set stopped.      *)
LEMMA StoppingEntry ==
  ASSUME IInv, EntryInv, NEW s \in Stoppers, Stopping(s)
  PROVE  EntryInv'
  <1>0. entry \in EntryType /\ NoEntry.pid = 0
    BY DEF IInv, TypeOK, NoEntry
  <1>1. at[s] \in {"await", "setRead", "setWrite", "finish"} => stopped
    BY DEF IInv, AwaitInv, PastInv, Past
  <1>2. UNCHANGED <<superVars, since, policy, role>>
    BY DEF Stopping, MarkDraining, CallStop, Exited, TimedOut, SetRead, SetWrite,
           FinishKeep, FinishRemove, FinishScale, FinishClear, FinishDelete,
           superSide, processVars
  <1>3. \E to \in StopPoints \ {"idle", "mark"} : at' = [at EXCEPT ![s] = to]
    BY DEF Stopping, MarkDraining, CallStop, Exited, TimedOut, SetRead, SetWrite,
           FinishKeep, FinishRemove, FinishScale, FinishClear, FinishDelete,
           Move, StopPoints
  <1>4. \A t \in Stoppers : /\ at'[t] = "idle" => role'[t] = "none"
                            /\ at'[t] = "mark" => role'[t] = "drain"
    BY <1>2, <1>3 DEF EntryInv, IInv, TypeOK
  <1> USE DEF EntryInv, PidInv, StatusInv, CountInv, superVars
  <1>5. CASE MarkDraining(s)
    <2>1. ~NoDrain'
      BY <1>2, <1>5 DEF MarkDraining, Move, NoDrain
    <2>2. UNCHANGED <<stopped, registered>> /\ (~registered => entry' = entry)
      BY <1>5 DEF MarkDraining, SetInstanceState
    <2> QED
      BY <1>4, <2>1, <2>2
  <1>6. CASE CallStop(s)
    BY <1>2, <1>4, <1>6 DEF CallStop, NoDrain
  <1>7. CASE Exited(s) \/ TimedOut(s) \/ FinishKeep(s)
    BY <1>2, <1>4, <1>7 DEF Exited, TimedOut, FinishKeep, NoDrain
  <1>8. CASE SetRead(s)
    <2>1. Changed(entry, "stopped").pid = 0
      BY <1>0, EntryFields DEF Changed
    <2>2. \A t \in Stoppers : read'[t].pid = 0 \/ read'[t] = read[t]
      BY <1>8, <2>1 DEF SetRead, IInv, TypeOK
    <2>3. UNCHANGED <<entry, stopped, registered>>
      BY <1>8 DEF SetRead
    <2> QED
      BY <1>2, <1>4, <2>2, <2>3 DEF NoDrain
  <1>9. CASE SetWrite(s)
    <2>1. stopped /\ UNCHANGED <<stopped, registered>>
      BY <1>1, <1>9 DEF SetWrite, Move
    <2>2. entry' = IF registered THEN read[s] ELSE entry
      BY <1>9 DEF SetWrite, SetInstanceState
    <2>3. \A t \in Stoppers : read'[t].pid = 0 \/ read'[t] = read[t]
      BY <1>0, <1>9 DEF SetWrite, IInv, TypeOK
    <2> QED
      BY <1>2, <1>4, <2>1, <2>2, <2>3 DEF NoDrain
  <1>10. CASE FinishRemove(s) \/ FinishScale(s) \/ FinishClear(s) \/ FinishDelete(s)
    <2>1. /\ stopped /\ stopped' = stopped /\ entry' = NoEntry /\ read' = read
      BY <1>1, <1>10 DEF FinishRemove, FinishScale, FinishClear, FinishDelete, Move
    <2> QED
      BY <1>0, <1>2, <1>4, <2>1 DEF NoDrain
  <1> QED
    BY <1>5, <1>6, <1>7, <1>8, <1>9, <1>10 DEF Stopping

(* Every step keeps what is known of the entry.                               *)
LEMMA StepEntry == IInv /\ EntryInv /\ [Next]_vars => EntryInv'
  <1> SUFFICES ASSUME IInv, EntryInv, [Next]_vars PROVE EntryInv'
    OBVIOUS
  <1>1. CASE Crash \/ ObeyTerm \/ Die
    BY <1>1, EntryUntouched DEF Crash, ObeyTerm, Die, Exits, stopSide, stopperVars
  <1>2. CASE Adopt
    BY <1>2, EntryUntouched DEF Adopt, superSide, processVars, stopperVars
  <1>3. CASE UNCHANGED vars
    BY <1>3, EntryUntouched DEF vars, processVars, stopSide, stopperVars
  <1> QED
    BY <1>1, <1>2, <1>3, SuperviseEntry, ElsewhereEntry, BeginEntry,
       StoppingEntry DEF Next

(* The invariant of the entry.                                                *)
LEMMA EntryInductive == SafeSpec => []EntryInv
  BY EntryInit, StepEntry, Inductive, PTL DEF SafeSpec

(* Once supervision and every stop are over the entry shows no pid, whatever   *)
(* order their writes came in (runner.go:234-239, 270).                        *)
THEOREM PidCleared == SafeSpec => []NoStalePid
  <1>1. IInv /\ EntryInv => NoStalePid
    BY DEF EntryInv, NoDrain, PidInv, NoStalePid
  <1> QED
    BY <1>1, Inductive, EntryInductive, PTL

(* The entry of an instance that backs off or has given up, unless it was     *)
(* wiped, reads "errored" (runner.go:122-152).                                *)
THEOREM FailuresShow == SafeSpec => []FailureIsSurfaced
  <1>1. EntryInv => FailureIsSurfaced
    BY DEF EntryInv, NoDrain, StatusInv, FailureIsSurfaced, Undisturbed
  <1> QED
    BY <1>1, EntryInductive, PTL

(* Between two wipings of its entry a runner that is not drained launches once *)
(* and as often again as restarts are allowed (runner.go:127-131, 144).        *)
THEOREM BudgetBinds == SafeSpec => []RestartBudget
  <1>1. EntryInv => RestartBudget
    BY DEF EntryInv, NoDrain, CountInv, RestartBudget
  <1> QED
    BY <1>1, EntryInductive, PTL
===============================================================================
