----------------------------- MODULE GracefulProof -----------------------------
(******************************************************************************)
(* Proofs about a process that uses the SDK: what it says of its readiness is *)
(* what was last asked for, and its requests have the whole shutdown budget,  *)
(* for any budgets, any number of readiness calls and of requests.            *)
(******************************************************************************)
EXTENDS Graceful, TLAPS

(* Who may still store a readiness.  Serve does so without regard to the      *)
(* application only if it had not spoken when Serve looked, and, but for the   *)
(* race, it has not spoken since; a signal comes after every store or races.  *)
ReadyInv ==
  /\ Between /\ ~saw /\ managed => app.at = "storing" \/ raced
  /\ term = "taken" => /\ main \in {"draining", "done", "exited", "killed"}
                       /\ srv \in {"load", "store"} => raced
  /\ LastWordStands

(* What is held back stays so until the application says otherwise.           *)
HoldInv ==
  /\ hold => managed
  /\ hold /\ Between => saw
  /\ app.at = "storing" /\ app.v => warm
  /\ hold /\ ready => warm
  /\ HeldWhileWarming

(* The signal is taken the moment it comes, and a process that is draining     *)
(* with nothing in flight, or with its budget spent, does not stay.            *)
DrainInv ==
  /\ Alive => lost = {}
  /\ main \in {"boot", "listening", "load", "store", "notify"} => term = "none"
  /\ term = "none" \/ main = "select" => age = 0
  /\ began = 0
  /\ term = "taken" => main \in {"draining", "done", "exited", "killed"}
  /\ budget > 0 /\ term = "taken" =>
       /\ style = "serve" /\ main = "done" /\ inflight > 0 => age >= budget
       /\ style = "serve" /\ main \in {"draining", "done"} => age <= budget
  /\ DrainHasItsBudget

IInv == TypeOK /\ ReadyInv /\ HoldInv /\ DrainInv

(* What the constants are.                                                    *)
LEMMA Constants == /\ SdkDefault \in Nat \ {0} /\ DrainDefault \in Nat \ {0}
                   /\ Grace \in Nat \ {0} /\ Configured \subseteq Nat
                   /\ MaxCalls \in Nat /\ MaxRequests \in Nat \ {0}
  BY GracefulAssumption

(* TypeOK in three parts.                                                     *)
ControlTypes ==
  /\ style \in Styles /\ budget \in Configured /\ hold \in BOOLEAN
  /\ main \in Running \cup {"exited", "killed"}
  /\ srv \in {"none", "load", "store", "accepting", "ended"}
  /\ saw \in BOOLEAN /\ managed \in BOOLEAN /\ ready \in BOOLEAN
  /\ health \in BOOLEAN
  /\ gate \in {"none", "probing", "passed", "aborted"}
  /\ term \in {"none", "sent", "taken"}
  /\ word \in BOOLEAN /\ warm \in BOOLEAN /\ raced \in BOOLEAN

WorkTypes ==
  /\ app \in [at : {"idle", "storing"}, v : BOOLEAN, left : 0..MaxCalls]
  /\ inflight \in 0..MaxRequests
  /\ lost \subseteq {"signal", "exit", "kill"}

AgeTypes == age \in 0..DrainTimeout /\ began \in 0..DrainTimeout

(* TypeOK is its three parts,                                                 *)
LEMMA Parts == TypeOK <=> ControlTypes /\ WorkTypes /\ AgeTypes
  BY DEF TypeOK, ControlTypes, WorkTypes, AgeTypes

(* in the next state too.                                                     *)
LEMMA PartsNext == TypeOK' <=> ControlTypes' /\ WorkTypes' /\ AgeTypes'
  BY DEF TypeOK, ControlTypes, WorkTypes, AgeTypes, DrainTimeout

(* A process that has just been launched satisfies the invariant.             *)
LEMMA InitInv == Init => IInv
  <1> SUFFICES ASSUME Init PROVE IInv
    OBVIOUS
  <1> USE DEF Init
  <1>1. DrainTimeout \in Nat
    BY Constants DEF DrainTimeout
  <1>2. TypeOK
    <2>1. ControlTypes
      BY DEF ControlTypes, Running
    <2>2. WorkTypes
      BY Constants DEF WorkTypes
    <2>3. AgeTypes
      BY <1>1 DEF AgeTypes
    <2> QED
      BY <2>1, <2>2, <2>3, Parts
  <1>3. ReadyInv
    BY DEF ReadyInv, LastWordStands, Between
  <1>4. HoldInv
    BY DEF HoldInv, HeldWhileWarming, Between
  <1>5. DrainInv
    BY DEF DrainInv, DrainHasItsBudget
  <1> QED
    BY <1>2, <1>3, <1>4, <1>5 DEF IInv

(* A step keeps the types.                                                    *)
LEMMA ControlStep ==
  ASSUME ControlTypes, WorkTypes, [Next]_vars
  PROVE  ControlTypes'
  <1> USE DEF ControlTypes, Running, fixed, procVars, flagVars, appVars, workVars, gpmVars
  <1>1. CASE Listen
    BY <1>1 DEF Listen
  <1>2. CASE Enter
    BY <1>2 DEF Enter, StartHealth
  <1>3. CASE LoadManaged
    BY <1>3 DEF LoadManaged, Tests
  <1>4. CASE StoreReady
    <2>1. CASE saw
      BY <1>4, <2>1 DEF StoreReady
    <2>2. CASE ~saw
      <3>1. word' = word \/ word' = TRUE
        BY <1>4, <2>2 DEF StoreReady
      <3>2. word' \in BOOLEAN
        BY <3>1
      <3>3. ready' = TRUE /\ UNCHANGED <<fixed, health, saw, managed, raced, warm, gate, term>>
        BY <1>4, <2>2 DEF StoreReady
      <3>4. /\ main' \in Running \cup {"exited", "killed"}
            /\ srv' \in {"none", "load", "store", "accepting", "ended"}
        BY <1>4 DEF StoreReady
      <3> QED
        BY <3>2, <3>3, <3>4
    <2> QED
      BY <2>1, <2>2
  <1>5. CASE Notify
    BY <1>5 DEF Notify
  <1>6. CASE TakeSignal
    BY <1>6 DEF TakeSignal, Unready
  <1>7. CASE Shutdown
    BY <1>7 DEF Shutdown
  <1>8. CASE Close
    BY <1>8 DEF Close
  <1>9. CASE Exit
    BY <1>9 DEF Exit
  <1>10. CASE Call
    BY <1>10 DEF Call
  <1>11. CASE CallStores
    <2>1. app.v \in BOOLEAN
      BY DEF WorkTypes
    <2> QED
      BY <1>11, <2>1 DEF CallStores
  <1>12. CASE Accept
    BY <1>12 DEF Accept
  <1>13. CASE Answer
    BY <1>13 DEF Answer
  <1>14. CASE ServeFails
    BY <1>14 DEF ServeFails
  <1>15. CASE Probe
    BY <1>15 DEF Probe
  <1>16. CASE GiveUp
    BY <1>16 DEF GiveUp, Signal
  <1>17. CASE StopInstance
    <2>1. CASE main \in {"select", "done"}
      BY <1>17, <2>1 DEF StopInstance, Signal
    <2>2. CASE main \notin {"select", "done"}
      BY <1>17, <2>2 DEF StopInstance, Signal
    <2> QED
      BY <2>1, <2>2
  <1>18. CASE Tick
    BY <1>18 DEF Tick
  <1>19. CASE Kill
    BY <1>19 DEF Kill
  <1>20. CASE UNCHANGED vars
    BY <1>20 DEF vars
  <1> QED
    BY <1>1, <1>2, <1>3, <1>4, <1>5, <1>6, <1>7, <1>8, <1>9, <1>10, <1>11, <1>12,
       <1>13, <1>14, <1>15, <1>16, <1>17, <1>18, <1>19, <1>20 DEF Next, Process, Gpm

(* Requests and readiness calls stay within their bounds.                     *)
LEMMA WorkStep ==
  ASSUME WorkTypes, [Next]_vars
  PROVE  WorkTypes'
  <1> USE DEF fixed, procVars, flagVars, appVars, workVars, gpmVars
  <1>1. app' \in [at : {"idle", "storing"}, v : BOOLEAN, left : 0..MaxCalls]
    <2>1. CASE Call
      BY <2>1, Constants DEF Call, WorkTypes
    <2>2. CASE CallStores
      BY <2>2 DEF CallStores, WorkTypes
    <2>3. CASE UNCHANGED app
      BY <2>3 DEF WorkTypes
    <2> QED
      BY <2>1, <2>2, <2>3
         DEF Next, Process, Gpm, vars, Listen, Enter, LoadManaged, StoreReady, Notify,
             TakeSignal, Shutdown, Close, Exit, Accept, Answer, ServeFails, Probe,
             GiveUp, StopInstance, Signal, Tick, Kill
  <1>2. inflight' \in 0..MaxRequests
    <2>1. CASE Accept \/ Answer
      BY <2>1, Constants DEF Accept, Answer, WorkTypes
    <2>2. CASE UNCHANGED inflight
      BY <2>2 DEF WorkTypes
    <2> QED
      BY <2>1, <2>2
         DEF Next, Process, Gpm, vars, Listen, Enter, LoadManaged, StoreReady, Notify,
             TakeSignal, Shutdown, Close, Exit, Call, CallStores, ServeFails, Probe,
             GiveUp, StopInstance, Signal, Tick, Kill
  <1>3. lost' \in {lost, lost \cup {"signal"}, lost \cup {"exit"}, lost \cup {"kill"}}
    BY DEF Next, Process, Gpm, vars, Listen, Enter, LoadManaged, StoreReady, Notify,
           TakeSignal, Shutdown, Close, Exit, Call, CallStores, Accept, Answer,
           ServeFails, Probe, GiveUp, StopInstance, Signal, Tick, Kill, Losing
  <1>4. lost' \subseteq {"signal", "exit", "kill"}
    BY <1>3 DEF WorkTypes
  <1> QED
    BY <1>1, <1>2, <1>4 DEF WorkTypes

(* Time stops at the drain timeout.                                           *)
LEMMA AgeStep ==
  ASSUME ControlTypes, AgeTypes, [Next]_vars
  PROVE  AgeTypes'
  <1> USE DEF fixed, procVars, flagVars, appVars, workVars, gpmVars
  <1>1. DrainTimeout' = DrainTimeout /\ DrainTimeout \in Nat
    <2>1. UNCHANGED budget
      BY DEF Next, Process, Gpm, vars, Listen, Enter, LoadManaged, StoreReady, Notify,
             TakeSignal, Shutdown, Close, Exit, Call, CallStores, Accept, Answer,
             ServeFails, Probe, GiveUp, StopInstance, Signal, Tick, Kill
    <2> QED
      BY <2>1, Constants DEF DrainTimeout, ControlTypes
  <1>2. CASE Tick
    BY <1>1, <1>2 DEF Tick, AgeTypes
  <1>3. CASE TakeSignal
    BY <1>1, <1>3 DEF TakeSignal, AgeTypes
  <1>4. CASE UNCHANGED <<age, began>>
    BY <1>1, <1>4 DEF AgeTypes
  <1> QED
    BY <1>2, <1>3, <1>4
       DEF Next, Process, Gpm, vars, Listen, Enter, LoadManaged, StoreReady, Notify,
           Shutdown, Close, Exit, Call, CallStores, Accept, Answer, ServeFails, Probe,
           GiveUp, StopInstance, Signal, Kill

(* Every step keeps every type.                                               *)
LEMMA TypeStep == TypeOK /\ [Next]_vars => TypeOK'
  BY Parts, PartsNext, ControlStep, WorkStep, AgeStep

(* The readiness last asked for stands.                                       *)
LEMMA ReadyStep ==
  ASSUME TypeOK, ReadyInv, [Next]_vars
  PROVE  ReadyInv'
  <1> USE DEF ReadyInv, LastWordStands, Between, Alive, Running,
              fixed, procVars, flagVars, appVars, workVars, gpmVars
  <1>0. app.at \in {"idle", "storing"}
    BY DEF TypeOK
  <1>1. CASE Listen
    BY <1>1 DEF Listen
  <1>2. CASE Enter
    BY <1>2 DEF Enter
  <1>3. CASE LoadManaged
    BY <1>3 DEF LoadManaged, Tests
  <1>4. CASE StoreReady
    BY <1>0, <1>4 DEF StoreReady
  <1>5. CASE Notify
    BY <1>5 DEF Notify
  <1>6. CASE TakeSignal
    BY <1>6 DEF TakeSignal, Unready
  <1>7. CASE Shutdown
    BY <1>7 DEF Shutdown, Drained
  <1>8. CASE Close
    BY <1>8 DEF Close, Spent
  <1>9. CASE Exit
    BY <1>9 DEF Exit
  <1>10. CASE Call
    BY <1>10 DEF Call
  <1>11. CASE CallStores
    BY <1>11 DEF CallStores
  <1>12. CASE Accept
    BY <1>12 DEF Accept
  <1>13. CASE Answer
    BY <1>13 DEF Answer
  <1>14. CASE ServeFails
    BY <1>14 DEF ServeFails
  <1>15. CASE Probe
    BY <1>15 DEF Probe
  <1>16. CASE GiveUp
    BY <1>16 DEF GiveUp, Signal
  <1>17. CASE StopInstance
    BY <1>17 DEF StopInstance, Signal
  <1>18. CASE Tick
    BY <1>18 DEF Tick
  <1>19. CASE Kill
    BY <1>19 DEF Kill
  <1>20. CASE UNCHANGED vars
    BY <1>20 DEF vars
  <1> QED
    BY <1>1, <1>2, <1>3, <1>4, <1>5, <1>6, <1>7, <1>8, <1>9, <1>10, <1>11, <1>12,
       <1>13, <1>14, <1>15, <1>16, <1>17, <1>18, <1>19, <1>20 DEF Next, Process, Gpm

(* Readiness that is held back is.                                            *)
LEMMA HoldStep ==
  ASSUME TypeOK, HoldInv, [Next]_vars
  PROVE  HoldInv'
  <1> USE DEF HoldInv, HeldWhileWarming, Between,
              fixed, procVars, flagVars, appVars, workVars, gpmVars
  <1>1. CASE Call
    BY <1>1 DEF Call, TypeOK
  <1>2. CASE CallStores
    BY <1>2 DEF CallStores
  <1>3. CASE LoadManaged \/ StoreReady
    <2>1. CASE LoadManaged
      BY <2>1 DEF LoadManaged, Tests
    <2>2. CASE StoreReady /\ saw
      BY <2>2 DEF StoreReady
    <2>3. CASE StoreReady /\ ~saw
      <3>1. ~hold
        BY <2>3 DEF StoreReady
      <3> QED
        BY <2>3, <3>1 DEF StoreReady
    <2> QED
      BY <1>3, <2>1, <2>2, <2>3
  <1>4. CASE Enter \/ Listen \/ Notify \/ ServeFails
    BY <1>4 DEF Enter, Listen, Notify, ServeFails
  <1>5. CASE TakeSignal
    BY <1>5 DEF TakeSignal, Unready
  <1>6. CASE Shutdown \/ Close \/ Exit \/ Accept \/ Answer
    BY <1>6 DEF Shutdown, Drained, Close, Spent, Exit, Accept, Answer
  <1>7. CASE Probe
    BY <1>7 DEF Probe
  <1>8. CASE GiveUp \/ StopInstance
    BY <1>8 DEF GiveUp, StopInstance, Signal
  <1>9. CASE Tick \/ Kill
    BY <1>9 DEF Tick, Kill
  <1>10. CASE UNCHANGED vars
    BY <1>10 DEF vars
  <1> QED
    BY <1>1, <1>2, <1>3, <1>4, <1>5, <1>6, <1>7, <1>8, <1>9, <1>10 DEF Next, Process, Gpm

(* The drain has its budget.                                                  *)
LEMMA DrainStep ==
  ASSUME TypeOK, DrainInv, [Next]_vars
  PROVE  DrainInv'
  <1> USE DEF DrainInv, DrainHasItsBudget, Alive, Running,
              fixed, procVars, flagVars, appVars, workVars, gpmVars
  <1>0. /\ age \in Nat /\ budget \in Nat /\ inflight \in Nat
        /\ DrainTimeout \in Nat /\ (budget > 0 => DrainTimeout > budget /\ SdkBudget = budget)
    <2>1. budget \in Nat
      BY Constants DEF TypeOK
    <2>2. DrainTimeout \in Nat /\ (budget > 0 => DrainTimeout > budget /\ SdkBudget = budget)
      BY <2>1, Constants DEF DrainTimeout, SdkBudget
    <2> QED
      BY <2>1, <2>2, Constants DEF TypeOK
  <1>1. CASE Listen
    BY <1>1 DEF Listen
  <1>2. CASE Enter
    BY <1>2 DEF Enter
  <1>3. CASE LoadManaged
    BY <1>3 DEF LoadManaged
  <1>4. CASE StoreReady
    BY <1>4 DEF StoreReady
  <1>5. CASE Notify
    BY <1>5 DEF Notify
  <1>6. CASE TakeSignal
    BY <1>0, <1>6 DEF TakeSignal
  <1>7. CASE Shutdown
    BY <1>0, <1>7 DEF Shutdown, Drained
  <1>8. CASE Close
    BY <1>0, <1>8 DEF Close, Spent
  <1>9. CASE Exit
    <2>1. /\ main = "done" /\ main' = "exited" /\ lost = {}
          /\ lost' = IF inflight > 0 THEN {"exit"} ELSE {}
          /\ UNCHANGED <<fixed, inflight, term, age, began>>
      BY <1>9 DEF Exit, Losing
    <2>2. style \in {"serve", "wait"}
      BY GracefulAssumption DEF TypeOK
    <2>3. budget > 0 /\ term = "taken" /\ inflight > 0 /\ age < began + budget => style = "wait"
      BY <1>0, <2>1, <2>2
    <2>4. DrainHasItsBudget'
      BY <1>0, <2>1, <2>3
    <2> QED
      BY <1>0, <2>1, <2>4
  <1>10. CASE Call
    BY <1>10 DEF Call
  <1>11. CASE CallStores
    BY <1>11 DEF CallStores
  <1>12. CASE Accept
    BY <1>0, <1>12 DEF Accept
  <1>13. CASE Answer
    BY <1>0, <1>13 DEF Answer
  <1>14. CASE ServeFails
    BY <1>14 DEF ServeFails
  <1>15. CASE Probe
    BY <1>15 DEF Probe
  <1>16. CASE GiveUp
    BY <1>0, <1>16 DEF GiveUp, Signal, Losing
  <1>17. CASE StopInstance
    BY <1>0, <1>17 DEF StopInstance, Signal, Losing
  <1>18. CASE Tick
    <2>1. term \in {"none", "sent", "taken"}
      BY DEF TypeOK
    <2>2. term # "none" /\ main \notin {"select", "done"}
      BY <1>18, <2>1 DEF Tick, Prompt
    <2>3. style = "serve" /\ main = "draining" /\ budget > 0 => age + 1 <= budget
      BY <1>0, <1>18 DEF Tick, Prompt, Spent
    <2>4. age' = age + 1 /\ UNCHANGED <<budget, style, main, lost, term, began, inflight>>
      BY <1>18 DEF Tick
    <2> QED
      BY <1>0, <1>18, <2>2, <2>3, <2>4 DEF Tick
  <1>19. CASE Kill
    <2>1. style \in {"serve", "wait"}
      BY GracefulAssumption DEF TypeOK
    <2>2. main' = "killed" /\ UNCHANGED <<budget, style, term, age, began, inflight>>
      BY <1>19 DEF Kill
    <2>3. budget > 0 => age > budget
      BY <1>0, <1>19 DEF Kill
    <2>4. budget > 0 /\ term = "taken" => style = "wait"
      BY <1>0, <1>19, <2>1, <2>3 DEF Kill
    <2>5. term # "none" /\ main # "select"
      <3>1. main = "select" => age = 0
        OBVIOUS
      <3>2. age = DrainTimeout /\ term # "none"
        BY <1>19 DEF Kill
      <3>3. DrainTimeout > 0
        BY <1>0, Constants DEF DrainTimeout
      <3> QED
        BY <1>0, <3>1, <3>2, <3>3
    <2> QED
      BY <1>0, <2>2, <2>3, <2>4, <2>5
  <1>20. CASE UNCHANGED vars
    BY <1>20 DEF vars
  <1> QED
    BY <1>1, <1>2, <1>3, <1>4, <1>5, <1>6, <1>7, <1>8, <1>9, <1>10, <1>11, <1>12,
       <1>13, <1>14, <1>15, <1>16, <1>17, <1>18, <1>19, <1>20 DEF Next, Process, Gpm

(* The inductive invariant.                                                   *)
LEMMA Inductive == Spec => []IInv
  <1>1. IInv /\ [Next]_vars => IInv'
    BY TypeStep, ReadyStep, HoldStep, DrainStep DEF IInv
  <1> QED
    BY <1>1, InitInv, PTL DEF Spec

(* Every variable keeps its type; a process has an age only up to the daemon's *)
(* own drain budget.                                                          *)
THEOREM GracefulTypes == Spec => []TypeOK
  BY Inductive, PTL DEF IInv

(* Readiness is what the application, the signal or, for want of either, Serve *)
(* last asked for, except after the named race.                               *)
THEOREM WordStands == Spec => []LastWordStands
  <1>1. IInv => LastWordStands
    BY DEF IInv, ReadyInv
  <1> QED
    BY <1>1, Inductive, PTL

(* An instance that holds its readiness back does not pass the reload's gate   *)
(* before its application says so.                                            *)
THEOREM HeldBack == Spec => []HeldWhileWarming
  <1>1. IInv => HeldWhileWarming
    BY DEF IInv, HoldInv
  <1> QED
    BY <1>1, Inductive, PTL

(* With a port, whoever takes SIGTERM has the whole configured budget for its  *)
(* requests: only an onShutdown that overstays it is killed, and only one that *)
(* returns sooner ends with requests in flight.                               *)
THEOREM BudgetHeld == Spec => []DrainHasItsBudget
  <1>1. IInv => DrainHasItsBudget
    BY DEF IInv, DrainInv
  <1> QED
    BY <1>1, Inductive, PTL
================================================================================
