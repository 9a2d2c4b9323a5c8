-------------------------------- MODULE Graceful --------------------------------
(******************************************************************************)
(* One process of a service that uses the SDK: the goroutines of gpm.Serve or  *)
(* gpm.WaitForShutdown, the application that manages its readiness, the health *)
(* server, and the daemon that probes it, sends SIGTERM and, when its own drain *)
(* budget is spent, SIGKILL.  Time is counted from SIGTERM on, in ticks.       *)
(******************************************************************************)
EXTENDS Integers

CONSTANTS
  Styles,        \* "serve": an http.Server; "wait": an accept loop of its own
  Configured,    \* shutdown budgets of services with a port; 0: has no port
  SdkDefault,    \* defaultShutdownTimeout of the SDK
  DrainDefault,  \* defaultDrainSec of the daemon
  Grace,         \* what the daemon allows beyond the service's budget
  MaxCalls,      \* bound: readiness calls of the application once it runs
  MaxRequests    \* bound: requests in flight

ASSUME GracefulAssumption ==
  /\ Styles \subseteq {"serve", "wait"}
  /\ Configured \subseteq Nat
  /\ SdkDefault \in Nat \ {0} /\ DrainDefault \in Nat \ {0} /\ Grace \in Nat \ {0}
  /\ MaxCalls \in Nat /\ MaxRequests \in Nat \ {0}

VARIABLES
  style, budget,  \* the service's Style and budget
  hold,           \* it calls SetReady(false) before it listens
  main,           \* where the main goroutine is
  srv,            \* where the serving goroutine is
  saw,            \* readyManaged as Serve or WaitForShutdown has loaded it
  managed, ready, \* readyManaged, ready
  app,            \* the application's goroutine that manages readiness
  health,         \* the health server answers
  inflight,       \* requests accepted and not answered
  gate,           \* WaitReady on this instance: "none", "probing", "passed", "aborted"
  term,           \* SIGTERM: "none", "sent", "taken"
  age, began,     \* ticks since SIGTERM; the age when the process took it
  word,           \* auxiliary: the readiness last asked for
  warm,           \* auxiliary: the application has called Ready
  raced,          \* auxiliary: someone asked while Serve had yet to store
  lost            \* auxiliary: what requests in flight were lost to

appVars   == <<app, warm>>
flagVars  == <<saw, managed, ready, word, raced>>
procVars  == <<main, srv, health>>
workVars  == <<inflight, lost>>
gpmVars   == <<gate, term, age, began>>
fixed     == <<style, budget, hold>>
vars == <<fixed, procVars, flagVars, appVars, workVars, gpmVars>>

Running == {"boot", "listening", "load", "store", "notify", "select", "draining", "done"}
Alive == main \in Running

\* shutdownTimeout of the SDK and drainTimeout of the runner.
SdkBudget == IF budget > 0 THEN budget ELSE SdkDefault
DrainTimeoutBare == IF budget > 0 THEN budget ELSE DrainDefault  \* bug: no grace
DrainTimeout == IF budget > 0 THEN budget + Grace ELSE DrainDefault

TypeOK ==
  /\ style \in Styles /\ budget \in Configured /\ hold \in BOOLEAN
  /\ main \in Running \cup {"exited", "killed"}
  /\ srv \in {"none", "load", "store", "accepting", "ended"}
  /\ saw \in BOOLEAN /\ managed \in BOOLEAN /\ ready \in BOOLEAN
  /\ app \in [at : {"idle", "storing"}, v : BOOLEAN, left : 0..MaxCalls]
  /\ health \in BOOLEAN
  /\ inflight \in 0..MaxRequests
  /\ gate \in {"none", "probing", "passed", "aborted"}
  /\ term \in {"none", "sent", "taken"}
  /\ age \in 0..DrainTimeout /\ began \in 0..DrainTimeout
  /\ word \in BOOLEAN /\ warm \in BOOLEAN /\ raced \in BOOLEAN
  /\ lost \subseteq {"signal", "exit", "kill"}

(* A process that has just been launched, by a start or scaling (not gated) or *)
(* by a reload.  Without a port there is no health address and no gate.        *)
Init ==
  /\ style \in Styles /\ budget \in Configured /\ hold \in BOOLEAN
  /\ main = "boot" /\ srv = "none" /\ health = FALSE
  /\ saw = FALSE /\ ready = FALSE /\ managed = hold
  /\ app = [at |-> "idle", v |-> FALSE, left |-> MaxCalls]
  /\ inflight = 0 /\ lost = {}
  /\ gate \in IF budget = 0 THEN {"none"} ELSE {"none", "probing"}
  /\ term = "none" /\ age = 0 /\ began = 0
  /\ word = FALSE /\ warm = FALSE /\ raced = FALSE

--------------------------------------------------------------------------------
(* The application                                                            *)

(* Ready and SetReady: two stores, from any goroutine.                        *)
Call ==
  /\ Alive /\ app.at = "idle" /\ app.left > 0
  /\ \E v \in BOOLEAN : /\ app' = [at |-> "storing", v |-> v, left |-> app.left - 1]
                        /\ warm' = (warm \/ v)
  /\ managed' = TRUE
  /\ UNCHANGED <<fixed, procVars, saw, ready, word, raced, workVars, gpmVars>>

\* Serve or WaitForShutdown has tested readyManaged and has yet to store.
Between == "store" \in {main, srv}

CallStores ==
  /\ Alive /\ app.at = "storing"
  /\ app' = [app EXCEPT !.at = "idle"]
  /\ ready' = app.v /\ word' = app.v
  /\ raced' = (raced \/ Between)
  /\ UNCHANGED <<fixed, procVars, saw, managed, warm, workVars, gpmVars>>

Listen ==
  /\ main = "boot"
  /\ main' = "listening"
  /\ UNCHANGED <<fixed, srv, health, flagVars, appVars, workVars, gpmVars>>

(* Shutdown closes the listener of an http.Server; an accept loop goes on as   *)
(* long as the application likes.                                              *)
Accept ==
  /\ Alive /\ srv = "accepting"
  /\ style = "serve" => main \notin {"draining", "done"}
  /\ inflight < MaxRequests
  /\ inflight' = inflight + 1
  /\ UNCHANGED <<fixed, procVars, flagVars, appVars, lost, gpmVars>>

Answer ==
  /\ Alive /\ inflight > 0
  /\ inflight' = inflight - 1
  /\ UNCHANGED <<fixed, procVars, flagVars, appVars, lost, gpmVars>>

--------------------------------------------------------------------------------
(* gpm.Serve and gpm.WaitForShutdown                                          *)

(* startHealthServer: nothing without an address, or when it cannot be bound. *)
StartHealth == health' \in IF budget = 0 THEN {FALSE} ELSE BOOLEAN

Enter ==
  /\ main = "listening"
  /\ StartHealth
  /\ IF style = "serve" THEN main' = "notify" /\ srv' = "load"
                        ELSE main' = "load" /\ srv' = "accepting"
  /\ UNCHANGED <<fixed, flagVars, appVars, workVars, gpmVars>>

(* if !readyManaged.Load() { ready.Store(true) }, in the serving goroutine or, *)
(* when waiting, before signal.Notify.                                        *)
TestsNothing == saw' = FALSE           \* bug: Serve speaks for the application
TestsInverted == saw' = ~managed       \* bug: the negation is lost
Tests == saw' = managed

LoadManaged ==
  /\ Alive
  /\ \/ srv = "load" /\ srv' = "store" /\ UNCHANGED main
     \/ main = "load" /\ main' = "store" /\ UNCHANGED srv
  /\ Tests
  /\ UNCHANGED <<fixed, health, managed, ready, word, raced, appVars, workVars, gpmVars>>

StoreReady ==
  /\ Alive
  /\ \/ srv = "store" /\ srv' = "accepting" /\ UNCHANGED main
     \/ main = "store" /\ main' = "notify" /\ UNCHANGED srv
  /\ IF saw THEN UNCHANGED <<ready, word>>
            ELSE ready' = TRUE /\ word' = IF managed \/ term = "taken" THEN word ELSE TRUE
  /\ UNCHANGED <<fixed, health, saw, managed, raced, appVars, workVars, gpmVars>>

Notify ==
  /\ main = "notify"
  /\ main' = "select"
  /\ UNCHANGED <<fixed, srv, health, flagVars, appVars, workVars, gpmVars>>

(* srv.Serve returns by itself, and Serve with it: nothing is drained.        *)
ServeFails ==
  /\ main = "select" /\ srv = "accepting" /\ style = "serve"
  /\ srv' = "ended" /\ main' = "done"
  /\ UNCHANGED <<fixed, health, flagVars, appVars, workVars, gpmVars>>

(* ready.Store(false), then Shutdown closes the listener.                     *)
Unready == ready' = FALSE

TakeSignal ==
  /\ main = "select" /\ term = "sent"
  /\ main' = "draining" /\ term' = "taken" /\ began' = age
  /\ Unready /\ word' = FALSE
  /\ raced' = (raced \/ srv \in {"load", "store"})
  /\ UNCHANGED <<fixed, srv, health, saw, managed, appVars, workVars, gate, age>>

(* srv.Shutdown returns once all requests are answered; the application's      *)
(* onShutdown when it likes, and at once if there is none.                     *)
Drained == main = "draining" /\ (style = "serve" => inflight = 0)
Spent == main = "draining" /\ age >= began + SdkBudget

Shutdown ==
  /\ Drained
  /\ main' = "done"
  /\ UNCHANGED <<fixed, srv, health, flagVars, appVars, workVars, gpmVars>>

(* Its context expires: srv.Close.                                            *)
Close ==
  /\ Spent /\ style = "serve" /\ inflight > 0
  /\ main' = "done"
  /\ UNCHANGED <<fixed, srv, health, flagVars, appVars, workVars, gpmVars>>

Losing(how) == lost' = IF inflight > 0 THEN lost \cup {how} ELSE lost

(* The deferred stopHealth, then main returns.                                *)
Exit ==
  /\ main = "done"
  /\ main' = "exited" /\ health' = FALSE
  /\ Losing("exit")
  /\ UNCHANGED <<fixed, srv, flagVars, appVars, inflight, gpmVars>>

--------------------------------------------------------------------------------
(* The daemon                                                                 *)

ProbeAnyStatus ==  \* bug: a 503 passes
  /\ gate = "probing" /\ Alive /\ health
  /\ gate' = "passed"
  /\ UNCHANGED <<fixed, procVars, flagVars, appVars, workVars, term, age, began>>

Probe ==
  /\ gate = "probing" /\ Alive /\ health /\ ready
  /\ gate' = "passed"
  /\ UNCHANGED <<fixed, procVars, flagVars, appVars, workVars, term, age, began>>

(* SIGTERM: to the channel once signal.Notify has run, else the default action. *)
Signal ==
  /\ Alive /\ term = "none"
  /\ term' = "sent"
  /\ IF main \in {"select", "done"}
     THEN UNCHANGED <<main, health, lost>>
     ELSE /\ main' = "killed" /\ health' = FALSE
          /\ Losing("signal")
  /\ UNCHANGED <<fixed, srv, flagVars, appVars, inflight, age, began>>

GiveUp ==
  /\ gate = "probing" /\ gate' = "aborted"
  /\ \/ Signal
     \/ ~Alive /\ UNCHANGED <<fixed, procVars, flagVars, appVars, workVars, term, age, began>>

StopInstance == gate # "probing" /\ UNCHANGED gate /\ Signal

(* What the process does at once, well within a tick.                         *)
Prompt ==
  \/ main = "select" /\ term = "sent"
  \/ main = "done"
  \/ style = "serve" /\ (Drained \/ Spent)

TickPast ==  \* bug: the wait goes on past its deadline
  /\ Alive /\ term # "none" /\ ~Prompt
  /\ age' = age + 1
  /\ UNCHANGED <<fixed, procVars, flagVars, appVars, workVars, gate, term, began>>

Tick ==
  /\ Alive /\ term # "none" /\ ~Prompt
  /\ age < DrainTimeout
  /\ age' = age + 1
  /\ UNCHANGED <<fixed, procVars, flagVars, appVars, workVars, gate, term, began>>

(* The other end of Runner.Stop's wait.                                       *)
KillWithBudget ==  \* bug: no SIGKILL without a configured budget
  /\ Alive /\ term # "none" /\ age = DrainTimeout /\ budget > 0
  /\ main' = "killed" /\ health' = FALSE
  /\ Losing("kill")
  /\ UNCHANGED <<fixed, srv, flagVars, appVars, inflight, gpmVars>>

Kill ==
  /\ Alive /\ term # "none" /\ age = DrainTimeout
  /\ main' = "killed" /\ health' = FALSE
  /\ Losing("kill")
  /\ UNCHANGED <<fixed, srv, flagVars, appVars, inflight, gpmVars>>

--------------------------------------------------------------------------------
Process ==
  \/ Listen \/ Enter \/ LoadManaged \/ StoreReady \/ Notify \/ TakeSignal
  \/ Shutdown \/ Close \/ Exit

Gpm == Probe \/ GiveUp \/ StopInstance \/ Tick \/ Kill

Next == Process \/ Call \/ CallStores \/ Accept \/ Answer \/ ServeFails \/ Gpm

(* Goroutines and time go on; nobody need call, probe, answer or stop.        *)
Fairness ==
  /\ WF_vars(Listen) /\ WF_vars(Enter) /\ WF_vars(LoadManaged) /\ WF_vars(StoreReady)
  /\ WF_vars(Notify) /\ WF_vars(TakeSignal) /\ WF_vars(Exit)
  /\ WF_vars(style = "serve" /\ (Shutdown \/ Close))
  /\ WF_vars(Tick) /\ WF_vars(Kill) /\ WF_vars(GiveUp \/ Probe)

Spec == Init /\ [][Next]_vars /\ Fairness

--------------------------------------------------------------------------------
(* Properties                                                                 *)

(* Readiness is what was last asked for: by the application, by the signal, or *)
(* by Serve if the application has not spoken.  Only an order given while      *)
(* Serve had tested readyManaged (or a signal before it did) is lost           *)
(* (graceful.go:23-26, 56-57, 74).                                             *)
LastWordStands == Alive /\ ~raced /\ app.at = "idle" => ready = word

(* An application that holds its readiness back before it serves is not        *)
(* passed by the reload's gate, and the old instance not drained, before it    *)
(* calls Ready: Serve does not speak for it (graceful.go:35-38).               *)
HeldWhileWarming == gate = "passed" /\ hold => warm

(* Once a process with a port has taken SIGTERM, gpm takes no request from it  *)
(* before the whole shutdown budget is spent: SIGKILL comes later, and only to *)
(* an onShutdown that overstays.  Serve itself gives up none sooner; that      *)
(* WaitForShutdown ends with requests in flight is its onShutdown's doing      *)
(* (graceful.go:75-81, 104-106, runner.go:312-318).                            *)
DrainHasItsBudget ==
  budget > 0 /\ term = "taken" =>
    /\ main = "killed" => style = "wait" /\ age > began + budget
    /\ lost # {} /\ age < began + budget => style = "wait" /\ lost = {"exit"}

(* A process that is told to stop ends, whatever it is doing.                  *)
StopEnds == term # "none" ~> ~Alive

--------------------------------------------------------------------------------
(* What the documentation says and the code does not keep.                     *)

(* graceful.go:87: onShutdown's context carries "the gpm drain budget"; no     *)
(* process is killed before it has expired.                                    *)
BudgetsAgree == term = "taken" /\ main = "killed" => age >= began + SdkBudget
================================================================================
