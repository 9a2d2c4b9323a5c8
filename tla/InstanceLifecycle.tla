--------------------------- MODULE InstanceLifecycle ---------------------------
(******************************************************************************)
(* What supervision promises of ONE instance, seen from outside: an instance  *)
(* runs as at most one operating-system process, it is brought back or retired *)
(* whenever that process has exited, and once somebody has asked it to stop it *)
(* is launched at most once more.  Runner.tla is shown to implement this.      *)
(******************************************************************************)

VARIABLES
  phase,    \* "idle": no process; "up": a process runs; "retired": supervision over
  asked,    \* some caller has asked the instance to stop
  overrun   \* the instance was launched after it had been asked to stop

vars == <<phase, asked, overrun>>

TypeOK ==
  /\ phase \in {"idle", "up", "retired"}
  /\ asked \in BOOLEAN
  /\ overrun \in BOOLEAN

Init ==
  /\ phase = "idle"
  /\ asked = FALSE
  /\ overrun = FALSE

(* A process starts.  After a stop request this happens at most once.         *)
Launch ==
  /\ phase = "idle"
  /\ asked => ~overrun
  /\ phase' = "up"
  /\ overrun' = (overrun \/ asked)
  /\ UNCHANGED asked

Exit ==
  /\ phase = "up"
  /\ phase' = "idle"
  /\ UNCHANGED <<asked, overrun>>

(* Supervision ends, never with a process left behind.                        *)
Retire ==
  /\ phase = "idle"
  /\ phase' = "retired"
  /\ UNCHANGED <<asked, overrun>>

Ask ==
  /\ asked' = TRUE
  /\ UNCHANGED <<phase, overrun>>

Next == Launch \/ Exit \/ Retire \/ Ask

(* An instance is not left idle: it is launched again or retired.             *)
Spec == Init /\ [][Next]_vars /\ WF_vars(Launch \/ Retire)
================================================================================
