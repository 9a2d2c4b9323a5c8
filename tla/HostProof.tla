------------------------------- MODULE HostProof -------------------------------
(******************************************************************************)
(* What Host keeps for any commands, daemons and crashes.                      *)
(******************************************************************************)
EXTENDS Host, TLAPS

(* Of one daemon: it has instances only where it can run them, and tracked ones *)
(* no more once stopAll has run.                                               *)
Kept(d) ==
  /\ services[d] # {} => at[d] \in {"up", "stopping", "drained", "closed"}
  /\ services[d] \subseteq Instances
  /\ at[d] \in {"drained", "closed"} => "tracked" \notin services[d]

ServicesInv ==
  /\ DOMAIN at = Daemons /\ DOMAIN services = Daemons
  /\ \A d \in Daemons : Kept(d)
  /\ crashes \in Nat
  /\ crashes = 0 => "tracked" \notin orphans

--------------------------------------------------------------------------------
(* Nothing tracked outlives a clean stop                                      *)

\* A step that moves one daemon and changes what that one supervises.
LEMMA OneDaemonMoves ==
  ASSUME ServicesInv, NEW d \in Daemons,
         at' = at \/ \E where : at' = [at EXCEPT ![d] = where],
         services' = services \/ \E kept : services' = [services EXCEPT ![d] = kept],
         Kept(d)', crashes' \in Nat, crashes' = 0 => "tracked" \notin orphans'
  PROVE  ServicesInv'
<1>1. \A e \in Daemons : e # d => at'[e] = at[e] /\ services'[e] = services[e]
  BY DEF ServicesInv
<1>2. \A e \in Daemons : Kept(e)'
  BY <1>1 DEF ServicesInv, Kept
<1> QED
  BY <1>2 DEF ServicesInv

LEMMA ServicesInit == Init => ServicesInv
<1> SUFFICES ASSUME Init PROVE ServicesInv
  OBVIOUS
<1>1. PICK first \in {"none", "up", "gone"} :
        /\ at = [d \in Daemons |-> IF d = 1 THEN first ELSE "none"]
        /\ services = [d \in Daemons |-> IF d = 1 /\ first = "up" THEN {"tracked"} ELSE {}]
        /\ orphans = {} /\ crashes = 0
  BY DEF Init
<1>2. ASSUME NEW d \in Daemons PROVE Kept(d)
  <2>1. at[d] \in {"none", "up", "gone"}
    BY <1>1
  <2>2. services[d] = {} \/ (services[d] = {"tracked"} /\ at[d] = "up")
    BY <1>1
  <2> QED
    BY <2>1, <2>2 DEF Kept, Instances
<1> QED
  BY <1>1, <1>2 DEF ServicesInv

LEMMA ServicesKept == ServicesInv /\ [Next]_vars => ServicesInv'
<1> SUFFICES ASSUME ServicesInv, [Next]_vars PROVE ServicesInv'
  OBVIOUS
<1> USE DEF Goes
<1>0. crashes \in Nat /\ (crashes = 0 => "tracked" \notin orphans)
  BY DEF ServicesInv
<1>1. ASSUME NEW d \in Daemons, WritePid(d) \/ RemoveStale(d) \/ Listen(d) PROVE ServicesInv'
  <2>1. PICK where \in {"boot", "bind", "up", "gone"} : at' = [at EXCEPT ![d] = where]
    BY <1>1 DEF WritePid, RemoveStale, Listen
  <2>2. at[d] \in {"exec", "boot", "bind"} /\ UNCHANGED <<services, orphans, crashes>>
    BY <1>1 DEF WritePid, RemoveStale, Listen
  <2>3. at'[d] = where /\ services'[d] = {}
    BY <2>1, <2>2 DEF ServicesInv, Kept
  <2>4. Kept(d)'
    BY <2>3 DEF Kept
  <2> QED
    BY <1>0, <2>1, <2>2, <2>4, OneDaemonMoves
<1>2. ASSUME NEW d \in Daemons, StopServices(d) PROVE ServicesInv'
  <2>1. PICK missed \in SUBSET {"loose"} :
          /\ "tracked" \in services[d] \/ missed = {}
          /\ services' = [services EXCEPT ![d] = (@ \ {"tracked"}) \cup missed]
    BY <1>2 DEF StopServices
  <2>2. at'[d] = "drained" /\ services'[d] = (services[d] \ {"tracked"}) \cup missed
    BY <1>2, <2>1 DEF StopServices, ServicesInv
  <2>3. Kept(d)'
    BY <2>2 DEF ServicesInv, Kept, Instances
  <2>4. \E kept : services' = [services EXCEPT ![d] = kept]
    BY <2>1
  <2> QED
    BY <1>0, <1>2, <2>3, <2>4, OneDaemonMoves DEF StopServices
<1>3. ASSUME NEW d \in Daemons, CloseListener(d) PROVE ServicesInv'
  <2>1. at[d] = "drained" /\ at'[d] = "closed" /\ UNCHANGED services
    BY <1>3 DEF CloseListener, ServicesInv
  <2>2. Kept(d)'
    BY <2>1 DEF ServicesInv, Kept
  <2> QED
    BY <1>0, <1>3, <2>2, OneDaemonMoves DEF CloseListener
<1>4. ASSUME NEW d \in Daemons, Exit(d) PROVE ServicesInv'
  <2>1. at[d] = "closed" /\ at'[d] = "gone" /\ services'[d] = {} /\ UNCHANGED crashes
    BY <1>4 DEF Exit, Ends, ServicesInv
  <2>2. "tracked" \notin services[d]
    BY <2>1 DEF ServicesInv, Kept
  <2>3. Kept(d)'
    BY <2>1 DEF Kept
  <2>4. /\ at' = [at EXCEPT ![d] = "gone"] /\ services' = [services EXCEPT ![d] = {}]
        /\ orphans' = orphans \cup services[d]
    BY <1>4 DEF Exit, Ends
  <2>5. crashes' = 0 => "tracked" \notin orphans'
    BY <1>0, <2>1, <2>2, <2>4
  <2> QED
    BY <1>0, <2>1, <2>3, <2>4, <2>5, OneDaemonMoves
<1>5. ASSUME NEW d \in Daemons, Crash(d) PROVE ServicesInv'
  <2>1. at'[d] = "gone" /\ services'[d] = {} /\ crashes' = crashes + 1
    BY <1>5 DEF Crash, Ends, ServicesInv
  <2>2. Kept(d)' /\ crashes' \in Nat /\ crashes' # 0
    BY <1>0, <2>1 DEF Kept
  <2>3. at' = [at EXCEPT ![d] = "gone"] /\ services' = [services EXCEPT ![d] = {}]
    BY <1>5 DEF Crash, Ends
  <2> QED
    BY <2>1, <2>2, <2>3, OneDaemonMoves
<1>6. ASSUME NEW c \in Clients, NEW a, NEW b, Handle(c, a, b) PROVE ServicesInv'
  <2>1. PICK d \in Daemons :
          /\ at[d] \in Accepting
          /\ services' = [services EXCEPT ![d] = @ \cup {IF at[d] = "up" THEN "tracked" ELSE "loose"}]
          /\ UNCHANGED <<at, orphans, crashes>>
    BY <1>6 DEF Handle
  <2>2. services'[d] = services[d] \cup {IF at[d] = "up" THEN "tracked" ELSE "loose"}
    BY <2>1 DEF ServicesInv
  <2>3. Kept(d)'
    BY <2>1, <2>2 DEF ServicesInv, Kept, Accepting, Instances
  <2>4. \E kept : services' = [services EXCEPT ![d] = kept]
    BY <2>1
  <2> QED
    BY <1>0, <2>1, <2>3, <2>4, OneDaemonMoves
<1>7. ASSUME NEW c \in Clients, Signal(c) PROVE ServicesInv'
  <2>0. PICK d : d = client[c].pid
    OBVIOUS
  <2>1. UNCHANGED <<services, orphans, crashes>>
    BY <1>7 DEF Signal
  <2>2. \/ at' = at
        \/ at[d] \in {"exec", "boot", "bind"} /\ at' = [at EXCEPT ![d] = "gone"]
        \/ at[d] = "up" /\ at' = [at EXCEPT ![d] = "stopping"]
    BY <1>7, <2>0 DEF Signal, Booting
  <2>3. CASE d \in Daemons
    <3>1. DOMAIN at = Daemons /\ Kept(d)
      BY <2>3 DEF ServicesInv
    <3>2. \/ at'[d] = at[d]
          \/ at[d] \in {"exec", "boot", "bind"} /\ at'[d] = "gone"
          \/ at[d] = "up" /\ at'[d] = "stopping"
      BY <2>2, <2>3, <3>1
    <3>3. services'[d] = services[d]
      BY <2>1
    <3>4. Kept(d)'
      BY <3>1, <3>2, <3>3 DEF Kept
    <3>5. at' = at \/ \E where : at' = [at EXCEPT ![d] = where]
      BY <2>2
    <3>6. services' = services /\ crashes' \in Nat /\ (crashes' = 0 => "tracked" \notin orphans')
      BY <1>0, <2>1
    <3> QED
      BY <2>3, <3>4, <3>5, <3>6, OneDaemonMoves
  <2>4. CASE d \notin Daemons
    <3>1. DOMAIN at' = Daemons /\ \A e \in Daemons : at'[e] = at[e]
      BY <2>2, <2>4 DEF ServicesInv
    <3> QED
      BY <2>1, <3>1 DEF ServicesInv, Kept
  <2> QED
    BY <2>3, <2>4
<1>8. ASSUME NEW c \in Clients, Spawn(c) PROVE ServicesInv'
  <2>1. PICK d \in Daemons : at[d] = "none" /\ at' = [at EXCEPT ![d] = "exec"]
    BY <1>8 DEF Spawn
  <2>2. UNCHANGED <<services, orphans, crashes>>
    BY <1>8 DEF Spawn
  <2>3. at'[d] = "exec" /\ services'[d] = {}
    BY <2>1, <2>2 DEF ServicesInv, Kept
  <2>4. Kept(d)'
    BY <2>3 DEF Kept
  <2> QED
    BY <1>0, <2>1, <2>2, <2>4, OneDaemonMoves
<1>9. CASE UNCHANGED <<at, services, orphans, crashes>>
  BY <1>9 DEF ServicesInv, Kept
<1>10. ASSUME NEW c \in Clients, Issue(c) \/ Command(c) PROVE ServicesInv'
  <2>1. CASE Send(c) \/ Resend(c)
    BY <1>6, <1>9, <2>1 DEF Send, Resend, Unreached, daemonVars
  <2>2. CASE Issue(c) \/ Install(c) \/ Ping(c) \/ Poll(c) \/ Ensure(c) \/ ReadPid(c)
               \/ RemovePid(c) \/ Wait(c)
    BY <1>9, <2>2 DEF Issue, Install, Ping, Poll, Ensure, ReadPid, RemovePid, Wait, daemonVars
  <2> QED
    BY <1>7, <1>8, <1>10, <2>1, <2>2 DEF Command
<1>11. CASE UNCHANGED vars
  BY <1>9, <1>11 DEF vars, daemonVars
<1>12. ASSUME NEW d \in Daemons, Slips(d) \/ Settles(d) PROVE ServicesInv'
  <2>1. at[d] \in Accepting /\ UNCHANGED <<at, orphans, crashes>>
    BY <1>12 DEF Slips, Settles
  <2>2. PICK kept \in {services[d] \cup {"loose"}, services[d] \ {"loose"}} :
          services' = [services EXCEPT ![d] = kept]
    BY <1>12 DEF Slips, Settles
  <2>3. services'[d] = kept
    BY <2>2 DEF ServicesInv
  <2>4. Kept(d)'
    BY <2>1, <2>2, <2>3 DEF ServicesInv, Kept, Accepting, Instances
  <2> QED
    BY <1>0, <2>1, <2>2, <2>4, OneDaemonMoves
<1> QED
  BY <1>1, <1>2, <1>3, <1>4, <1>5, <1>10, <1>11, <1>12 DEF Next, Daemon

(* TrackedStopped holds of every reachable state.                             *)
THEOREM StopIsComplete == Spec => []TrackedStopped
<1>1. ServicesInv => TrackedStopped
  BY DEF ServicesInv, TrackedStopped
<1> QED
  BY <1>1, ServicesInit, ServicesKept, PTL DEF Spec

--------------------------------------------------------------------------------
(* Types                                                                      *)

Kind == Kinds \cup {"none"}
Place == {"idle", "install", "ping", "pid", "signal", "unpid", "wait", "spawn",
          "poll", "send", "ensure", "resend", "done", "failed"}
Back == {"done", "send", "resend"}

(* One command's way: which kinds get where, and what has been sent by then:   *)
(* at most two requests.                                                      *)
OnItsWay(c) ==
  /\ client[c].at = "install" => client[c].kind = "update"
  /\ client[c].at = "ping" => client[c].kind \in {"start", "update"}
  /\ client[c].at \notin {"spawn", "poll", "ensure", "resend", "done", "failed"}
       => handled[c] = 0 /\ client[c].back # "resend"
  /\ client[c].at \in {"spawn", "poll"} /\ client[c].back # "resend" => handled[c] = 0
  /\ client[c].at \in {"spawn", "poll", "ensure", "resend"} => handled[c] \in 0..1
  /\ handled[c] \in 0..2

ClientsInv ==
  /\ client \in [Clients -> ClientType]
  /\ handled \in [Clients -> 0..2]
  /\ \A c \in Clients : OnItsWay(c)

\* A record of a command with fields changed within their types.
LEMMA ClientMoves ==
  ASSUME ClientsInv, NEW c \in Clients,
         NEW k \in Kind, NEW a \in Place, NEW p \in 0..MaxDaemons, NEW b \in Back,
         client' = [client EXCEPT ![c] = [kind |-> k, at |-> a, pid |-> p, back |-> b]],
         handled' = handled \/ \E h : handled' = [handled EXCEPT ![c] = h],
         OnItsWay(c)'
  PROVE  ClientsInv'
<1>1. [kind |-> k, at |-> a, pid |-> p, back |-> b] \in ClientType
  BY DEF ClientType, Kind, Place, Back
<1>2. client' \in [Clients -> ClientType]
  BY <1>1 DEF ClientsInv
<1>3. \A e \in Clients : e # c => client'[e] = client[e] /\ handled'[e] = handled[e]
  BY DEF ClientsInv
<1>4. \A e \in Clients : OnItsWay(e)'
  BY <1>3 DEF ClientsInv, OnItsWay
<1>5. handled' \in [Clients -> 0..2]
  <2>1. handled'[c] \in 0..2
    BY DEF OnItsWay
  <2> QED
    BY <2>1 DEF ClientsInv
<1> QED
  BY <1>2, <1>4, <1>5 DEF ClientsInv

\* The same, for a step that keeps the kind.
LEMMA ClientSteps ==
  ASSUME ClientsInv, NEW c \in Clients, NEW a \in Place, NEW p \in 0..MaxDaemons, NEW b \in Back,
         Steps(c, a, p, b),
         handled' = handled \/ \E h : handled' = [handled EXCEPT ![c] = h],
         LET k == client[c].kind IN
           /\ a = "install" => k = "update"
           /\ a = "ping" => k \in {"start", "update"}
           /\ a \notin {"spawn", "poll", "ensure", "resend", "done", "failed"}
                => handled'[c] = 0 /\ b # "resend"
           /\ a \in {"spawn", "poll"} /\ b # "resend" => handled'[c] = 0
           /\ a \in {"spawn", "poll", "ensure", "resend"} => handled'[c] \in 0..1
           /\ handled'[c] \in 0..2
  PROVE  ClientsInv'
<1>1. PICK k \in Kind : k = client[c].kind
  BY DEF ClientsInv, ClientType, Kind
<1>2. client' = [client EXCEPT ![c] = [kind |-> k, at |-> a, pid |-> p, back |-> b]]
  BY <1>1 DEF Steps
<1>3. client'[c] = [kind |-> k, at |-> a, pid |-> p, back |-> b]
  BY <1>2 DEF ClientsInv
<1>4. OnItsWay(c)'
  BY <1>1, <1>3 DEF OnItsWay
<1> QED
  BY <1>2, <1>4, ClientMoves

\* Every step leaves the commands with their types and on their way.
LEMMA CommandTypes == ClientsInv /\ pidFile \in 0..MaxDaemons /\ [Next]_vars => ClientsInv'
<1> SUFFICES ASSUME ClientsInv, pidFile \in 0..MaxDaemons, [Next]_vars PROVE ClientsInv'
  OBVIOUS
<1>0. ASSUME NEW c \in Clients
      PROVE  OnItsWay(c) /\ client[c].kind \in Kind /\ client[c].at \in Place
               /\ client[c].pid \in 0..MaxDaemons /\ client[c].back \in Back
  BY DEF ClientsInv, ClientType, Kind, Place, Back
<1>1. CASE UNCHANGED <<client, handled>>
  BY <1>1 DEF ClientsInv, OnItsWay
<1>2. ASSUME NEW d \in Daemons, Daemon(d) \/ Slips(d) \/ Settles(d) \/ Crash(d) PROVE ClientsInv'
  BY <1>1, <1>2 DEF Daemon, WritePid, RemoveStale, Listen, StopServices, CloseListener, Exit,
       Slips, Settles, Crash
<1>3. ASSUME NEW c \in Clients, Issue(c) PROVE ClientsInv'
  <2>1. PICK k \in Kinds :
          client' = [client EXCEPT ![c] = [kind |-> k, at |-> First(k), pid |-> 0, back |-> "done"]]
    BY <1>3 DEF Issue
  <2>2. /\ k \in Kind /\ First(k) \in {"send", "ping", "pid", "install"}
        /\ First(k) = "install" => k = "update"
        /\ First(k) = "ping" => k \in {"start", "update"}
    BY HostAssumption DEF Kind, First
  <2>3. client'[c] = [kind |-> k, at |-> First(k), pid |-> 0, back |-> "done"] /\ handled' = handled
    BY <1>3, <2>1 DEF Issue, ClientsInv
  <2>4. handled[c] = 0
    BY <1>0, <1>3 DEF Issue, OnItsWay
  <2>5. OnItsWay(c)'
    BY <2>2, <2>3, <2>4 DEF OnItsWay
  <2>6. First(k) \in Place /\ "done" \in Back /\ 0 \in 0..MaxDaemons
    BY <2>2, HostAssumption DEF Place, Back
  <2> QED
    BY <2>1, <2>2, <2>3, <2>5, <2>6, ClientMoves
<1>4. ASSUME NEW c \in Clients, Install(c) PROVE ClientsInv'
  BY <1>0, <1>4, ClientSteps DEF Moves, Install, OnItsWay, Place
<1>5. ASSUME NEW c \in Clients, Ping(c) PROVE ClientsInv'
  <2>1. PICK a \in {"done", "spawn", "pid"} : Moves(c, a)
    BY <1>0, <1>5 DEF Ping, OnItsWay
  <2> QED
    BY <1>0, <1>5, <2>1, ClientSteps DEF Moves, Ping, OnItsWay, Place
<1>6. ASSUME NEW c \in Clients, Spawn(c) PROVE ClientsInv'
  <2>1. PICK b \in {client[c].back} \cup (IF client[c].back = "done" THEN {"send"} ELSE {}) : Steps(c, "poll", client[c].pid, b)
    BY <1>6 DEF Spawn
  <2>2. handled[c] \in 0..1 /\ (client[c].back # "resend" => handled[c] = 0)
    BY <1>0, <1>6 DEF Spawn, OnItsWay
  <2> QED
    BY <1>0, <1>6, <2>1, <2>2, ClientSteps DEF Spawn, Place, Back
<1>7. ASSUME NEW c \in Clients, Poll(c) PROVE ClientsInv'
  <2>1. PICK a \in {client[c].back, "failed"} : Moves(c, a)
    BY <1>7 DEF Poll
  <2> QED
    BY <1>0, <1>7, <2>1, ClientSteps DEF Moves, Poll, OnItsWay, Place, Back
<1>8. ASSUME NEW c \in Clients, Send(c) PROVE ClientsInv'
  <2>1. PICK a \in {"done", "ensure"} : Moves(c, a)
    BY <1>8 DEF Send, Handle, Unreached
  <2>2. handled' = handled \/ handled' = [handled EXCEPT ![c] = @ + 1]
    BY <1>8 DEF Send, Handle, Unreached
  <2>3. handled[c] = 0 /\ DOMAIN handled = Clients
    BY <1>0, <1>8 DEF Send, OnItsWay, ClientsInv
  <2>4. handled'[c] \in {handled[c], handled[c] + 1}
    BY <2>2, <2>3
  <2> QED
    BY <1>0, <2>1, <2>2, <2>3, <2>4, ClientSteps DEF Moves, Place
<1>9. ASSUME NEW c \in Clients, Resend(c) PROVE ClientsInv'
  <2>1. PICK a \in {"done", "failed"} : Moves(c, a)
    BY <1>9 DEF Resend, Handle, Unreached
  <2>2. handled' = handled \/ handled' = [handled EXCEPT ![c] = @ + 1]
    BY <1>9 DEF Resend, Handle, Unreached
  <2>3. handled[c] \in 0..1 /\ DOMAIN handled = Clients
    BY <1>0, <1>9 DEF Resend, OnItsWay, ClientsInv
  <2>4. handled'[c] \in {handled[c], handled[c] + 1}
    BY <2>2, <2>3
  <2> QED
    BY <1>0, <2>1, <2>2, <2>3, <2>4, ClientSteps DEF Moves, Place
<1>10. ASSUME NEW c \in Clients, Ensure(c) PROVE ClientsInv'
  <2>1. PICK a \in {"resend", "spawn"} : Steps(c, a, client[c].pid, "resend")
    BY <1>10 DEF Ensure
  <2>2. handled[c] \in 0..1
    BY <1>0, <1>10 DEF Ensure, OnItsWay
  <2> QED
    BY <1>0, <1>10, <2>1, <2>2, ClientSteps DEF Ensure, Place, Back
<1>11. ASSUME NEW c \in Clients, ReadPid(c) PROVE ClientsInv'
  <2>1. PICK a \in {"failed", "signal"} : Steps(c, a, pidFile, client[c].back)
    BY <1>11 DEF ReadPid
  <2>2. handled[c] = 0 /\ client[c].back # "resend"
    BY <1>0, <1>11 DEF ReadPid, OnItsWay
  <2> QED
    BY <1>0, <1>11, <2>1, <2>2, ClientSteps DEF ReadPid, Place, Back
<1>12. ASSUME NEW c \in Clients, Signal(c) PROVE ClientsInv'
  <2>1. PICK a \in {"unpid", "failed"} : Moves(c, a)
    BY <1>12 DEF Signal
  <2> QED
    BY <1>0, <1>12, <2>1, ClientSteps DEF Moves, Signal, OnItsWay, Place
<1>13. ASSUME NEW c \in Clients, RemovePid(c) \/ Wait(c) PROVE ClientsInv'
  <2>1. PICK a \in {"done", "wait", "spawn"} : Moves(c, a)
    BY <1>13 DEF RemovePid, Wait
  <2>2. client[c].at \in {"unpid", "wait"} /\ handled' = handled
    BY <1>13 DEF RemovePid, Wait
  <2> QED
    BY <1>0, <2>1, <2>2, ClientSteps DEF Moves, OnItsWay, Place
<1>14. CASE UNCHANGED vars
  BY <1>1, <1>14 DEF vars
<1> QED
  BY <1>2, <1>3, <1>4, <1>5, <1>6, <1>7, <1>8, <1>9, <1>10, <1>11, <1>12, <1>13, <1>14
  DEF Next, Command

\* What is left of TypeOK.
DaemonTypes ==
  /\ at \in [Daemons -> {"none", "gone", "closed"} \cup Booting \cup Accepting]
  /\ version \in [Daemons -> {"old", "new"}] /\ installed \in {"old", "new"}
  /\ services \in [Daemons -> SUBSET Instances]
  /\ orphans \subseteq Instances
  /\ sock \in 0..MaxDaemons /\ pidFile \in 0..MaxDaemons
  /\ crashes \in 0..MaxCrashes

LEMMA DaemonTypesKept == DaemonTypes /\ [Next]_vars => DaemonTypes'
<1> SUFFICES ASSUME DaemonTypes, [Next]_vars PROVE DaemonTypes'
  OBVIOUS
<1> USE HostAssumption DEF DaemonTypes, Goes
<1>1. ASSUME NEW d \in Daemons, WritePid(d) \/ RemoveStale(d) \/ Listen(d) PROVE DaemonTypes'
  <2>1. PICK where \in {"boot", "bind", "up", "gone"} : at' = [at EXCEPT ![d] = where]
    BY <1>1 DEF WritePid, RemoveStale, Listen
  <2>2. at' \in [Daemons -> {"none", "gone", "closed"} \cup Booting \cup Accepting]
    BY <2>1 DEF Booting, Accepting
  <2>3. sock' \in 0..MaxDaemons /\ pidFile' \in 0..MaxDaemons
    BY <1>1 DEF WritePid, RemoveStale, Listen, Daemons
  <2> QED
    BY <1>1, <2>2, <2>3 DEF WritePid, RemoveStale, Listen
<1>2. ASSUME NEW d \in Daemons, StopServices(d) \/ CloseListener(d) PROVE DaemonTypes'
  <2>1. at' \in [Daemons -> {"none", "gone", "closed"} \cup Booting \cup Accepting]
    BY <1>2 DEF StopServices, CloseListener, Accepting
  <2>2. services' = services \/ \E kept \in SUBSET Instances : services' = [services EXCEPT ![d] = kept]
    <3>1. CASE StopServices(d)
      <4>1. PICK missed \in SUBSET {"loose"} :
              services' = [services EXCEPT ![d] = (@ \ {"tracked"}) \cup missed]
        BY <3>1 DEF StopServices
      <4>2. (services[d] \ {"tracked"}) \cup missed \in SUBSET Instances
        BY DEF Instances
      <4> QED
        BY <4>1, <4>2
    <3> QED
      BY <1>2, <3>1 DEF CloseListener
  <2>3. services' \in [Daemons -> SUBSET Instances]
    BY <2>2
  <2>4. sock' \in 0..MaxDaemons
    BY <1>2 DEF StopServices, CloseListener
  <2> QED
    BY <1>2, <2>1, <2>3, <2>4 DEF StopServices, CloseListener
<1>3. ASSUME NEW d \in Daemons, Exit(d) \/ Crash(d) PROVE DaemonTypes'
  <2>1. Ends(d) /\ UNCHANGED <<version, installed>>
    BY <1>3 DEF Exit, Crash
  <2>2. at' \in [Daemons -> {"none", "gone", "closed"} \cup Booting \cup Accepting]
    BY <2>1 DEF Ends
  <2>3. services' \in [Daemons -> SUBSET Instances] /\ orphans' \subseteq Instances
    BY <2>1 DEF Ends
  <2>4. sock' \in 0..MaxDaemons /\ pidFile' \in 0..MaxDaemons /\ crashes' \in 0..MaxCrashes
    BY <1>3 DEF Exit, Crash
  <2> QED
    BY <2>1, <2>2, <2>3, <2>4
<1>4. ASSUME NEW c \in Clients, NEW a, NEW b, Handle(c, a, b) PROVE DaemonTypes'
  <2>1. PICK d \in Daemons :
          services' = [services EXCEPT ![d] = @ \cup {IF at[d] = "up" THEN "tracked" ELSE "loose"}]
    BY <1>4 DEF Handle
  <2>2. services' \in [Daemons -> SUBSET Instances]
    BY <2>1 DEF Instances
  <2> QED
    BY <1>4, <2>2 DEF Handle
<1>5. ASSUME NEW c \in Clients, Signal(c) PROVE DaemonTypes'
  <2>1. at' \in {at, [at EXCEPT ![client[c].pid] = "gone"], [at EXCEPT ![client[c].pid] = "stopping"]}
    BY <1>5 DEF Signal
  <2>2. at' \in [Daemons -> {"none", "gone", "closed"} \cup Booting \cup Accepting]
    BY <2>1 DEF Accepting
  <2> QED
    BY <1>5, <2>2 DEF Signal
<1>6. ASSUME NEW c \in Clients, Spawn(c) PROVE DaemonTypes'
  <2>1. PICK d \in Daemons : at' = [at EXCEPT ![d] = "exec"] /\ version' = [version EXCEPT ![d] = installed]
    BY <1>6 DEF Spawn
  <2>2. at' \in [Daemons -> {"none", "gone", "closed"} \cup Booting \cup Accepting]
    BY <2>1 DEF Booting
  <2> QED
    BY <1>6, <2>1, <2>2 DEF Spawn
<1>7. CASE UNCHANGED <<daemonVars, sock, crashes>> /\ installed' \in {installed, "new"} /\ pidFile' \in {pidFile, 0}
  BY <1>7 DEF daemonVars
<1>8. ASSUME NEW c \in Clients, Issue(c) \/ Command(c) PROVE DaemonTypes'
  <2>1. CASE Send(c) \/ Resend(c)
    BY <1>4, <1>7, <2>1 DEF Send, Resend, Unreached
  <2>2. CASE Issue(c) \/ Install(c) \/ Ping(c) \/ Poll(c) \/ Ensure(c) \/ ReadPid(c)
               \/ RemovePid(c) \/ Wait(c)
    BY <1>7, <2>2 DEF Issue, Install, Ping, Poll, Ensure, ReadPid, RemovePid, Wait
  <2> QED
    BY <1>5, <1>6, <1>8, <2>1, <2>2 DEF Command
<1>9. CASE UNCHANGED vars
  BY <1>7, <1>9 DEF vars
<1>10. ASSUME NEW d \in Daemons, Slips(d) \/ Settles(d) PROVE DaemonTypes'
  <2>1. services' \in [Daemons -> SUBSET Instances]
    BY <1>10 DEF Slips, Settles, Instances
  <2> QED
    BY <1>10, <2>1 DEF Slips, Settles
<1> QED
  BY <1>1, <1>2, <1>3, <1>8, <1>9, <1>10 DEF Next, Daemon

TypeInv == DaemonTypes /\ ClientsInv /\ ServicesInv

\* At first.
LEMMA InitTypes == Init => TypeInv
<1> SUFFICES ASSUME Init PROVE TypeInv
  OBVIOUS
<1>1. PICK first \in {"none", "up", "gone"} :
        /\ at = [d \in Daemons |-> IF d = 1 THEN first ELSE "none"]
        /\ services = [d \in Daemons |-> IF d = 1 /\ first = "up" THEN {"tracked"} ELSE {}]
        /\ sock \in {0, 1} /\ pidFile = sock
        /\ version = [d \in Daemons |-> "old"] /\ installed = "old"
        /\ orphans = {} /\ crashes = 0
  BY DEF Init
<1>2. 0 \in 0..MaxDaemons /\ 1 \in 0..MaxDaemons /\ 0 \in 0..MaxCrashes
  BY HostAssumption
<1>3. at \in [Daemons -> {"none", "gone", "closed"} \cup Booting \cup Accepting]
  BY <1>1 DEF Accepting
<1>4. services \in [Daemons -> SUBSET Instances]
  BY <1>1 DEF Instances
<1>5. DaemonTypes
  BY <1>1, <1>2, <1>3, <1>4 DEF DaemonTypes
<1>6. client = [c \in Clients |-> [kind |-> "none", at |-> "idle", pid |-> 0, back |-> "done"]]
        /\ handled = [c \in Clients |-> 0]
  BY DEF Init
<1>7. ClientsInv
  BY <1>2, <1>6 DEF ClientsInv, ClientType, OnItsWay
<1> QED
  BY <1>5, <1>7, ServicesInit DEF TypeInv

\* And at each step.
LEMMA StepTypes == TypeInv /\ [Next]_vars => TypeInv'
  BY ServicesKept, DaemonTypesKept, CommandTypes DEF DaemonTypes, TypeInv

(* Every variable has its type: at most two requests are handled for a command, *)
(* and only a daemon that can supervise them has services.                     *)
THEOREM TypeCorrect == Spec => []TypeOK
<1>1. TypeInv => TypeOK
  <2> SUFFICES ASSUME TypeInv PROVE TypeOK
    OBVIOUS
  <2>1. \A d \in Daemons : services[d] # {} => at[d] \in Accepting \cup {"closed"}
    BY DEF TypeInv, ServicesInv, Kept, Accepting
  <2> QED
    BY <2>1 DEF TypeInv, TypeOK, DaemonTypes, ClientsInv
<1> QED
  BY <1>1, InitTypes, StepTypes, PTL DEF Spec

--------------------------------------------------------------------------------
(* An update on its own                                                       *)

(* c is the one command that was issued, and an update if it was.             *)
Only(c) ==
  /\ crashes = 0 /\ \A o \in Clients \ {c} : client[o].at = "idle"
  /\ client[c].at = "idle" \/ client[c].kind = "update"

(* The daemon there was, then on its way out and out; and its successor, the   *)
(* second one, which does not listen before the first is gone.                *)
FirstAlone == \A d \in Daemons \ {1} : at[d] = "none"
Before  == FirstAlone /\ at[1] \in {"none", "up", "gone"} /\ (at[1] = "up" => sock = 1 /\ pidFile = 1)
Running == FirstAlone /\ at[1] = "up" /\ sock = 1 /\ pidFile = 1
Out     == at[1] \in {"closed", "gone"} /\ sock = 0
Leaving == FirstAlone /\ (Out \/ (at[1] \in {"stopping", "drained"} /\ sock = 1))
Second  ==
  /\ 2 \in Daemons /\ version[2] = "new"
  /\ \/ Out /\ at[2] \in Booting /\ (at[1] = "closed" => at[2] = "exec")
     \/ at[1] = "gone" /\ at[2] = "up" /\ sock = 2
  /\ \A d \in Daemons \ {1, 2} : at[d] = "none"
Serves == Second /\ at[2] = "up"

(* How far the daemons are when the update is at each of its steps.           *)
InStep(c) ==
  LET s == client[c].at
      past == client[c].back # "done"
  IN
  /\ s \in {"idle", "install", "ping"} => Before
  /\ s \in {"pid", "signal"} => Running
  /\ s = "signal" => client[c].pid = 1
  /\ s \in {"unpid", "wait"} => Leaving
  /\ s = "spawn" => FirstAlone /\ Out
  /\ s \in {"ping", "pid", "signal", "unpid", "wait", "spawn"} => installed = "new"
  /\ s \in {"idle", "install", "ping", "pid", "signal", "unpid", "wait", "spawn"} => ~past
  /\ s = "poll" => Second /\ client[c].back = "send"
  /\ s \in {"send", "ensure", "resend"} => Serves /\ past
  /\ s \in {"ensure", "resend"} => "tracked" \in services[2]
  /\ s = "done" /\ past => Serves /\ "tracked" \in services[2]

UpdateInv == \A c \in Clients : Only(c) => InStep(c)

\* Where its daemons stand, a step of theirs keeps them or is impossible.
LEMMA DaemonsWait ==
  ASSUME DaemonTypes, NEW d \in Daemons, Daemon(d)
  PROVE  /\ ~Before /\ ~Running /\ ~Serves
         /\ Leaving => Leaving'
         /\ FirstAlone /\ Out => FirstAlone' /\ Out'
         /\ Second => Second'
<1> 1 \in Daemons
  BY HostAssumption DEF Daemons
<1> USE DEF DaemonTypes, Goes
<1>1. at[d] \notin {"none", "up", "gone"}
  BY DEF Daemon, WritePid, RemoveStale, Listen, StopServices, CloseListener, Exit
<1>2. ~Before /\ ~Running /\ ~Serves
  BY <1>1 DEF Before, Running, Serves, Second, FirstAlone, Booting
<1>3. version' = version
  BY DEF Daemon, WritePid, RemoveStale, Listen, StopServices, CloseListener, Exit
<1>4. ASSUME d = 1, at[1] \in {"stopping", "drained", "closed", "gone"}
      PROVE  /\ \A e \in Daemons \ {1} : at'[e] = at[e]
             /\ \/ at[1] = "stopping" /\ at'[1] = "drained" /\ sock' = sock
                \/ at[1] = "drained" /\ at'[1] = "closed" /\ sock' = 0
                \/ at[1] = "closed" /\ at'[1] = "gone" /\ sock' \in {sock, 0}
  BY <1>4 DEF Daemon, WritePid, RemoveStale, Listen, StopServices, CloseListener, Exit, Ends
<1>5. Leaving => Leaving'
  BY <1>1, <1>4 DEF Leaving, FirstAlone, Out
<1>6. FirstAlone /\ Out => FirstAlone' /\ Out'
  BY <1>1, <1>4 DEF FirstAlone, Out
<1>7. ASSUME Second PROVE Second'
  <2>1. 2 \in Daemons /\ d \in {1, 2} /\ (d = 2 => at[2] \in Booting)
    BY <1>1, <1>7 DEF Second
  <2>2. CASE d = 1
    BY <1>1, <1>3, <1>4, <1>7, <2>1, <2>2 DEF Second, Out
  <2>3. CASE d = 2
    <3>1. /\ Out /\ sock = 0 /\ at[2] \in {"exec", "boot", "bind"}
          /\ at[1] = "closed" => at[2] = "exec"
      BY <1>7, <2>1, <2>3 DEF Second, Out, Booting
    <3>2. CASE WritePid(2)
      <4>1. at'[2] = "boot" /\ sock' = sock /\ at[1] # "closed"
        BY <2>1, <3>2 DEF WritePid, NoneClosing
      <4>2. \A e \in Daemons \ {2} : at'[e] = at[e]
        BY <3>2 DEF WritePid
      <4> QED
        BY <1>3, <1>7, <3>1, <4>1, <4>2 DEF Second, Out, Booting
    <3>3. CASE RemoveStale(2)
      <4>1. at[2] = "boot" /\ at'[2] = "bind" /\ sock' = 0
        BY <2>1, <3>3 DEF RemoveStale
      <4>2. \A e \in Daemons \ {2} : at'[e] = at[e]
        BY <3>3 DEF RemoveStale
      <4> QED
        BY <1>3, <1>7, <3>1, <4>1, <4>2 DEF Second, Out, Booting
    <3>4. CASE Listen(2)
      <4>1. at[2] = "bind" /\ at'[2] = "up" /\ sock' = 2
        BY <2>1, <3>1, <3>4 DEF Listen
      <4>2. \A e \in Daemons \ {2} : at'[e] = at[e]
        BY <3>4 DEF Listen
      <4> QED
        BY <1>3, <1>7, <3>1, <4>1, <4>2 DEF Second, Out, Booting
    <3> QED
      BY <2>3, <3>1, <3>2, <3>3, <3>4 DEF Daemon, StopServices, CloseListener, Exit
  <2> QED
    BY <2>1, <2>2, <2>3
<1> QED
  BY <1>2, <1>5, <1>6, <1>7

\* A command's step takes it somewhere.
LEMMA CommandSteps ==
  ASSUME ClientsInv, NEW c \in Clients, Command(c)
  PROVE  \E a \in Place \ {"idle"} : \E p, b : Steps(c, a, p, b)
<1>1. client[c].back \in Back
  BY DEF ClientsInv, ClientType, Back
<1>2. CASE \E a \in Place \ {"idle"} : Moves(c, a)
  BY <1>2 DEF Moves
<1>3. CASE Install(c) \/ Send(c) \/ Resend(c) \/ Signal(c) \/ RemovePid(c) \/ Wait(c)
  BY <1>2, <1>3 DEF Install, Send, Resend, Handle, Unreached, Signal, RemovePid, Wait, Place
<1>4. CASE Poll(c)
  BY <1>1, <1>2, <1>4 DEF Poll, Place, Back
<1>5. CASE Ping(c)
  <2>1. client[c].kind \in {"start", "update"}
    BY <1>5 DEF Ping, ClientsInv, OnItsWay
  <2> QED
    BY <1>2, <1>5, <2>1 DEF Ping, Place
<1>6. CASE Spawn(c) \/ Ensure(c) \/ ReadPid(c)
  <2>1. \E a \in {"poll", "resend", "spawn", "failed", "signal"} : \E p, b : Steps(c, a, p, b)
    BY <1>6 DEF Spawn, Ensure, ReadPid
  <2> QED
    BY <2>1 DEF Place
<1> QED
  BY <1>3, <1>4, <1>5, <1>6 DEF Command

\* While it is the only command, the steps are the daemons' and its own.
LEMMA OnlyItsSteps ==
  ASSUME DaemonTypes, ClientsInv, NEW c \in Clients, [Next]_vars, Only(c)'
  PROVE  /\ Only(c)
         /\ \/ UNCHANGED vars \/ Issue(c) \/ Command(c)
            \/ \E d \in Daemons : Daemon(d) \/ Slips(d) \/ Settles(d)
<1>0. crashes \in Nat /\ crashes' = 0 /\ DOMAIN client = Clients
  BY HostAssumption DEF DaemonTypes, Only, ClientsInv
<1>1. ASSUME NEW d \in Daemons, Crash(d) PROVE FALSE
  BY <1>0, <1>1 DEF Crash
<1>2. ASSUME NEW d \in Daemons, Daemon(d) \/ Slips(d) \/ Settles(d)
      PROVE  UNCHANGED <<client, crashes>>
  BY <1>2 DEF Daemon, WritePid, RemoveStale, Listen, StopServices, CloseListener, Exit, Slips, Settles
<1>3. ASSUME NEW o \in Clients, Issue(o) \/ Command(o)
      PROVE  /\ crashes' = crashes /\ o = c
             /\ \A e \in Clients \ {o} : client'[e] = client[e]
             /\ client[c].at = "idle" \/ client'[c].kind = client[c].kind
  <2>1. PICK y : client' = [client EXCEPT ![o] = y]
                 /\ (client[o].at = "idle" \/ y.kind = client[o].kind) /\ y.at # "idle"
    <3>1. CASE Issue(o)
      <4>1. PICK k \in Kinds :
              client' = [client EXCEPT ![o] = [kind |-> k, at |-> First(k), pid |-> 0, back |-> "done"]]
        BY <3>1 DEF Issue
      <4>2. First(k) # "idle"
        BY HostAssumption DEF First
      <4>3. client[o].at = "idle"
        BY <3>1 DEF Issue
      <4>4. PICK y : y = [kind |-> k, at |-> First(k), pid |-> 0, back |-> "done"]
        OBVIOUS
      <4>5. y.at # "idle" /\ client' = [client EXCEPT ![o] = y]
        BY <4>1, <4>2, <4>4
      <4> QED
        BY <4>3, <4>5
    <3>2. CASE Command(o)
      <4>1. \E a \in Place \ {"idle"} : \E p, b : Steps(o, a, p, b)
        BY <3>2, CommandSteps
      <4>2. PICK a, p, b : a \in Place \ {"idle"} /\ Steps(o, a, p, b)
        BY <4>1
      <4>3. PICK y : y = [kind |-> client[o].kind, at |-> a, pid |-> p, back |-> b]
        OBVIOUS
      <4>4. y.kind = client[o].kind /\ y.at # "idle" /\ client' = [client EXCEPT ![o] = y]
        BY <4>2, <4>3 DEF Steps
      <4> QED
        BY <4>4
    <3> QED
      BY <1>3, <3>1, <3>2
  <2>2. crashes' = crashes
    BY <1>3 DEF Issue, Command, Install, Ping, Spawn, Poll, Send, Resend, Ensure, ReadPid,
         Signal, RemovePid, Wait, Handle, Unreached
  <2>3. client'[o].at # "idle"
    BY <1>0, <2>1
  <2>4. o = c
    BY <2>3 DEF Only
  <2> QED
    BY <1>0, <2>1, <2>2, <2>4
<1>4. CASE UNCHANGED vars
  BY <1>4 DEF vars, Only
<1>5. CASE \E d \in Daemons : Daemon(d) \/ Slips(d) \/ Settles(d)
  BY <1>2, <1>5 DEF Only
<1>6. ASSUME NEW o \in Clients, Issue(o) \/ Command(o)
      PROVE  Only(c) /\ (Issue(c) \/ Command(c))
  <2>1. /\ crashes' = crashes /\ o = c /\ (Issue(c) \/ Command(c))
        /\ \A e \in Clients \ {c} : client'[e] = client[e]
        /\ client[c].at = "idle" \/ client'[c].kind = client[c].kind
    BY <1>3, <1>6
  <2>2. client'[c].at = "idle" => client[c].at = "idle"
    <3>1. CASE Issue(c)
      BY <3>1 DEF Issue
    <3>2. CASE Command(c)
      <4>1. PICK a, p, b : a \in Place \ {"idle"} /\ Steps(c, a, p, b)
        BY <3>2, CommandSteps
      <4> QED
        BY <1>0, <4>1 DEF Steps
    <3> QED
      BY <2>1, <3>1, <3>2
  <2> QED
    BY <2>1, <2>2 DEF Only
<1> QED
  BY <1>1, <1>4, <1>5, <1>6 DEF Next

\* The daemons' steps keep it.
LEMMA DaemonsInStep ==
  ASSUME DaemonTypes, NEW c \in Clients, InStep(c), NEW d \in Daemons, Daemon(d)
  PROVE  InStep(c)'
<1>1. UNCHANGED <<client, installed>>
  BY DEF Daemon, WritePid, RemoveStale, Listen, StopServices, CloseListener, Exit
<1>2. /\ ~Before /\ ~Running /\ ~Serves
      /\ Leaving => Leaving'
      /\ FirstAlone /\ Out => FirstAlone' /\ Out'
      /\ Second => Second'
  BY DaemonsWait
<1> QED
  BY <1>1, <1>2 DEF InStep

\* Instances that come and go beside the tracked ones do not disturb it.
LEMMA InstancesInStep ==
  ASSUME DaemonTypes, NEW c \in Clients, InStep(c), NEW d \in Daemons, Slips(d) \/ Settles(d)
  PROVE  InStep(c)'
<1>1. UNCHANGED <<at, version, sock, pidFile, installed, client>>
  BY DEF Slips, Settles
<1>2. PICK kept \in {services[d] \cup {"loose"}, services[d] \ {"loose"}} :
        services' = [services EXCEPT ![d] = kept]
  BY DEF Slips, Settles
<1>3. 2 \in Daemons /\ "tracked" \in services[2] => "tracked" \in services'[2]
  BY <1>2 DEF DaemonTypes
<1> QED
  BY <1>1, <1>3 DEF InStep, Before, Running, Leaving, Out, FirstAlone, Serves, Second

\* What the daemons' places say of who answers.
LEMMA WhoAnswers ==
  /\ Running => Reachable
  /\ Before /\ Reachable => Running
  /\ Serves => Reachable /\ \A d \in Daemons : sock = d => d = 2
  /\ Leaving /\ ~Out => Reachable /\ ~\A d \in Daemons : at[d] \notin {"stopping", "drained", "closed"}
<1> 1 \in Daemons
  BY HostAssumption DEF Daemons
<1>1. (Running => Reachable) /\ (Before /\ Reachable => Running)
  BY DEF Running, Before, Reachable, FirstAlone, Accepting
<1>2. Serves => Reachable
  BY DEF Serves, Second, Reachable, Accepting, Booting
<1>3. Serves => \A d \in Daemons : sock = d => d = 2
  BY DEF Serves, Second, Booting
<1>4. Leaving /\ ~Out
        => Reachable /\ ~\A d \in Daemons : at[d] \notin {"stopping", "drained", "closed"}
  BY DEF Leaving, Out, Reachable, Accepting
<1> QED
  BY <1>1, <1>2, <1>3, <1>4

\* Where a step leaves a command.
LEMMA StepsThere ==
  ASSUME ClientsInv, NEW c \in Clients, NEW a, NEW p, NEW b, Steps(c, a, p, b)
  PROVE  client'[c].at = a /\ client'[c].pid = p /\ client'[c].back = b
<1>1. PICK y : y = [kind |-> client[c].kind, at |-> a, pid |-> p, back |-> b]
  OBVIOUS
<1>2. y.at = a /\ y.pid = p /\ y.back = b
  BY <1>1
<1>3. client'[c] = y
  BY <1>1 DEF Steps, ClientsInv
<1> QED
  BY <1>2, <1>3

\* A request reaches the second daemon and is handled by it.
LEMMA SecondHandles ==
  ASSUME DaemonTypes, Serves, NEW c \in Clients, NEW a, NEW b, Handle(c, a, b)
  PROVE  /\ UNCHANGED <<at, version, sock, pidFile, installed>>
         /\ "tracked" \in services'[2]
         /\ Moves(c, a) \/ Moves(c, b)
<1>1. PICK d \in Daemons :
        /\ sock = d
        /\ services' = [services EXCEPT ![d] = @ \cup {IF at[d] = "up" THEN "tracked" ELSE "loose"}]
        /\ UNCHANGED <<at, version, sock, pidFile, installed>>
        /\ Moves(c, a) \/ Moves(c, b)
  BY DEF Handle
<1>2. d = 2 /\ at[2] = "up"
  BY <1>1, WhoAnswers DEF Serves
<1>3. services'[2] = services[2] \cup {IF at[2] = "up" THEN "tracked" ELSE "loose"}
  BY <1>1, <1>2 DEF DaemonTypes
<1> QED
  BY <1>1, <1>2, <1>3

\* The update's own steps keep it, when the services drain in time.
LEMMA UpdateInStep ==
  ASSUME DrainFits, DaemonTypes, ClientsInv, NEW c \in Clients, Only(c), InStep(c),
         Issue(c) \/ Command(c), Only(c)'
  PROVE  InStep(c)'
<1> 1 \in Daemons
  BY HostAssumption DEF Daemons
<1>0. PICK s, p, b : s = client[c].at /\ p = client[c].pid /\ b = client[c].back
  OBVIOUS
<1>1. client[c].at # "idle" => client[c].kind = "update"
  BY DEF Only
<1>2. CASE Issue(c)
  <2>1. PICK k \in Kinds :
          client' = [client EXCEPT ![c] = [kind |-> k, at |-> First(k), pid |-> 0, back |-> "done"]]
    BY <1>2 DEF Issue
  <2>2. PICK y : y = [kind |-> k, at |-> First(k), pid |-> 0, back |-> "done"]
    OBVIOUS
  <2>3. y.kind = k /\ y.at = First(k) /\ y.back = "done"
    BY <2>2
  <2>4. client'[c] = y
    BY <2>1, <2>2 DEF ClientsInv
  <2>5. First(k) # "idle"
    BY HostAssumption DEF First
  <2>6. client'[c].at = "install" /\ client'[c].back = "done"
    BY <2>3, <2>4, <2>5 DEF Only, First
  <2>7. Before /\ UNCHANGED <<at, sock, pidFile>>
    BY <1>2 DEF Issue, InStep, daemonVars
  <2> QED
    BY <2>6, <2>7 DEF InStep, Before, FirstAlone
<1>3. CASE Install(c)
  <2>1. PICK a \in {"done", "failed", "ping"} :
          Moves(c, a) /\ (a = "ping" => installed' = "new")
    BY <1>3 DEF Install
  <2>2. client'[c].at = a /\ client'[c].back = client[c].back
    BY <2>1, StepsThere DEF Moves
  <2>3. Before /\ client[c].back = "done" /\ UNCHANGED <<at, sock, pidFile>>
    BY <1>3 DEF Install, InStep, daemonVars
  <2> QED
    BY <2>1, <2>2, <2>3 DEF InStep, Before, FirstAlone
<1>4. CASE Ping(c)
  <2>1. Moves(c, IF Reachable THEN "pid" ELSE "done") /\ client[c].at = "ping"
    BY <1>1, <1>4 DEF Ping
  <2>2. PICK a : a = (IF Reachable THEN "pid" ELSE "done") /\ Moves(c, a)
    BY <2>1
  <2>3. client'[c].at = a /\ client'[c].back = client[c].back
    BY <2>2, StepsThere DEF Moves
  <2>4. /\ Before /\ client[c].back = "done" /\ installed = "new"
        /\ UNCHANGED <<at, sock, pidFile, installed>>
    BY <1>4 DEF Ping, InStep, daemonVars
  <2>5. a = "pid" => Running
    BY <2>2, <2>4, WhoAnswers
  <2> QED
    BY <2>2, <2>3, <2>4, <2>5 DEF InStep, Running, FirstAlone
<1>5. CASE ReadPid(c)
  <2>1. /\ Running /\ client[c].back = "done" /\ installed = "new"
        /\ UNCHANGED <<at, sock, pidFile, installed>>
    BY <1>5 DEF ReadPid, InStep, daemonVars
  <2>2. pidFile = 1 /\ Steps(c, "signal", pidFile, client[c].back)
    BY <1>5, <2>1 DEF ReadPid, Running
  <2>3. client'[c].at = "signal" /\ client'[c].pid = 1 /\ client'[c].back = "done"
    BY <2>1, <2>2, StepsThere
  <2> QED
    BY <2>1, <2>3 DEF InStep, Running, FirstAlone
<1>6. CASE Signal(c)
  <2>1. /\ Running /\ client[c].back = "done" /\ installed = "new" /\ client[c].pid = 1
        /\ UNCHANGED <<sock, pidFile, installed>>
    BY <1>6 DEF Signal, InStep
  <2>2. at[1] = "up" /\ Live(1)
    BY <2>1 DEF Running, Live, Accepting
  <2>3. Moves(c, "unpid")
    BY <1>6, <2>1, <2>2 DEF Signal
  <2>4. at' = [at EXCEPT ![1] = "stopping"]
    BY <1>6, <2>1, <2>2 DEF Signal, Goes, Booting
  <2>5. client'[c].at = "unpid" /\ client'[c].back = "done"
    BY <2>1, <2>3, StepsThere DEF Moves
  <2>6. Leaving'
    BY <2>1, <2>4 DEF Leaving, Running, FirstAlone, DaemonTypes
  <2> QED
    BY <2>1, <2>5, <2>6 DEF InStep
<1>7. CASE RemovePid(c)
  <2>1. /\ Leaving /\ client[c].back = "done" /\ installed = "new" /\ Moves(c, "wait")
        /\ UNCHANGED <<at, sock, installed>>
    BY <1>1, <1>7 DEF RemovePid, InStep, daemonVars
  <2>2. client'[c].at = "wait" /\ client'[c].back = "done"
    BY <2>1, StepsThere DEF Moves
  <2> QED
    BY <2>1, <2>2 DEF InStep, Leaving, FirstAlone, Out
<1>8. CASE Wait(c)
  <2>1. /\ Leaving /\ client[c].back = "done" /\ installed = "new" /\ Moves(c, "spawn")
        /\ Reachable => \A d \in Daemons : at[d] \notin {"stopping", "drained", "closed"}
        /\ UNCHANGED <<at, sock, installed>>
    BY <1>8 DEF Wait, InStep, daemonVars
  <2>2. FirstAlone /\ Out
    BY <2>1, WhoAnswers DEF Leaving
  <2>3. client'[c].at = "spawn" /\ client'[c].back = "done"
    BY <2>1, StepsThere DEF Moves
  <2> QED
    BY <2>1, <2>2, <2>3 DEF InStep, FirstAlone, Out
<1>9. CASE Spawn(c)
  <2>1. /\ FirstAlone /\ Out /\ client[c].back = "done" /\ installed = "new"
        /\ Steps(c, "poll", client[c].pid, "send") /\ UNCHANGED <<sock, installed>>
    BY <1>1, <1>9 DEF Spawn, InStep
  <2>2. PICK d \in Daemons :
          /\ at[d] = "none" /\ \A e \in Daemons : e < d => at[e] # "none"
          /\ at' = [at EXCEPT ![d] = "exec"] /\ version' = [version EXCEPT ![d] = installed]
    BY <1>9 DEF Spawn, Goes
  <2>3. d # 1
    BY <2>1, <2>2 DEF Out
  <2>4. 2 \in Daemons /\ ~(2 < d)
    BY <2>1, <2>2, <2>3, HostAssumption DEF FirstAlone, Daemons
  <2>5. d = 2
    BY <2>3, <2>4, HostAssumption DEF Daemons
  <2>6. /\ at'[2] = "exec" /\ version'[2] = "new" /\ \A e \in Daemons \ {2} : at'[e] = at[e]
    BY <2>1, <2>2, <2>4, <2>5 DEF DaemonTypes
  <2>7. Second'
    BY <2>1, <2>4, <2>6 DEF Second, Out, FirstAlone, Booting
  <2>8. client'[c].at = "poll" /\ client'[c].back = "send"
    BY <2>1, StepsThere
  <2> QED
    BY <2>1, <2>7, <2>8 DEF InStep
<1>10. CASE Poll(c)
  <2>1. /\ Second /\ client[c].back \in {"send", "resend"} /\ UNCHANGED <<at, version, sock>>
        /\ services' = services
    BY <1>10 DEF Poll, InStep, ClientsInv, ClientType, daemonVars
  <2>2. PICK a \in {client[c].back, "failed"} : Moves(c, a) /\ (a # "failed" => Reachable)
    BY <1>10 DEF Poll
  <2>3. client'[c].at = a /\ client'[c].back = client[c].back
    BY <2>2, StepsThere DEF Moves
  <2>4. client[c].back = "send"
    BY <1>10, <2>1 DEF InStep, Poll
  <2>5. Reachable => Serves
    BY <2>1 DEF Reachable, Serves, Second, Out, Booting, Accepting
  <2> QED
    BY <2>1, <2>2, <2>3, <2>4, <2>5 DEF InStep, Serves, Second, Out
<1>11. CASE Send(c)
  <2>1. Serves /\ client[c].back # "done" /\ Handle(c, "done", "ensure")
    BY <1>11, WhoAnswers DEF Send, Unreached, InStep
  <2>2. PICK a \in {"done", "ensure"} : Moves(c, a)
    BY <2>1, SecondHandles
  <2>3. client'[c].at = a /\ client'[c].back = client[c].back
    BY <2>2, StepsThere DEF Moves
  <2>4. UNCHANGED <<at, version, sock>> /\ "tracked" \in services'[2]
    BY <2>1, SecondHandles
  <2> QED
    BY <2>1, <2>2, <2>3, <2>4 DEF InStep, Serves, Second, Out
<1>12. CASE Resend(c)
  <2>1. Serves /\ client[c].back # "done" /\ Handle(c, "done", "failed")
    BY <1>12, WhoAnswers DEF Resend, Unreached, InStep
  <2>2. PICK a \in {"done", "failed"} : Moves(c, a)
    BY <2>1, SecondHandles
  <2>3. client'[c].at = a /\ client'[c].back = client[c].back
    BY <2>2, StepsThere DEF Moves
  <2>4. UNCHANGED <<at, version, sock>> /\ "tracked" \in services'[2]
    BY <2>1, SecondHandles
  <2> QED
    BY <2>1, <2>2, <2>3, <2>4 DEF InStep, Serves, Second, Out
<1>13. CASE Ensure(c)
  <2>1. /\ Serves /\ "tracked" \in services[2] /\ UNCHANGED <<at, version, services, sock>>
    BY <1>13 DEF Ensure, InStep, daemonVars
  <2>2. Steps(c, "resend", client[c].pid, "resend")
    BY <1>13, <2>1, WhoAnswers DEF Ensure
  <2>3. client'[c].at = "resend" /\ client'[c].back = "resend"
    BY <2>2, StepsThere
  <2> QED
    BY <2>1, <2>3 DEF InStep, Serves, Second, Out
<1> QED
  BY <1>2, <1>3, <1>4, <1>5, <1>6, <1>7, <1>8, <1>9, <1>10, <1>11, <1>12, <1>13 DEF Command

\* No command yet: the first daemon alone, if there is one.
LEMMA InitUpdate == Init => UpdateInv
<1> SUFFICES ASSUME Init, NEW c \in Clients PROVE InStep(c)
  BY DEF UpdateInv
<1>1. PICK first \in {"none", "up", "gone"} :
        /\ at = [d \in Daemons |-> IF d = 1 THEN first ELSE "none"]
        /\ sock = (IF first = "none" THEN 0 ELSE 1) /\ pidFile = sock
  BY DEF Init
<1>2. 1 \in Daemons
  BY HostAssumption DEF Daemons
<1>3. Before
  BY <1>1, <1>2 DEF Before, FirstAlone
<1>4. client[c] = [kind |-> "none", at |-> "idle", pid |-> 0, back |-> "done"]
  BY DEF Init
<1>5. client[c].at = "idle" /\ client[c].back = "done"
  BY <1>4
<1> QED
  BY <1>1, <1>3, <1>5 DEF InStep

\* Each step keeps it.
LEMMA StepUpdate ==
  DrainFits /\ DaemonTypes /\ ClientsInv /\ UpdateInv /\ [Next]_vars => UpdateInv'
<1> SUFFICES ASSUME DrainFits, DaemonTypes, ClientsInv, UpdateInv, [Next]_vars,
                    NEW c \in Clients, Only(c)'
             PROVE  InStep(c)'
  BY DEF UpdateInv
<1>1. /\ Only(c)
      /\ \/ UNCHANGED vars \/ Issue(c) \/ Command(c)
         \/ \E d \in Daemons : Daemon(d) \/ Slips(d) \/ Settles(d)
  BY OnlyItsSteps
<1>2. InStep(c)
  BY <1>1 DEF UpdateInv
<1>3. CASE UNCHANGED vars
  BY <1>2, <1>3 DEF vars, daemonVars, InStep, Before, Running, Leaving, Out, FirstAlone, Serves, Second
<1>4. CASE \E d \in Daemons : Daemon(d) \/ Slips(d) \/ Settles(d)
  BY <1>2, <1>4, DaemonsInStep, InstancesInStep
<1>5. CASE Issue(c) \/ Command(c)
  BY <1>1, <1>2, <1>5, UpdateInStep
<1> QED
  BY <1>1, <1>3, <1>4, <1>5

(* UpdateApplied holds of every reachable state when the services drain within *)
(* the time an update waits for the daemon to go.                              *)
THEOREM UpdateIsApplied ==
  ASSUME DrainFits
  PROVE  Spec => []UpdateApplied
<1>1. TypeInv /\ UpdateInv /\ [Next]_vars => (TypeInv /\ UpdateInv)'
  BY StepTypes, StepUpdate DEF TypeInv
<1>2. TypeInv /\ UpdateInv => UpdateApplied
  <2> SUFFICES ASSUME TypeInv, UpdateInv, NEW c \in Clients,
                      client[c].kind = "update", client[c].at = "done", client[c].back # "done",
                      crashes = 0, \A o \in Clients \ {c} : client[o].at = "idle"
               PROVE  \E d \in Daemons :
                        /\ sock = d /\ at[d] = "up" /\ version[d] = "new"
                        /\ "tracked" \in services[d] /\ "tracked" \notin orphans
    BY DEF UpdateApplied
  <2>1. InStep(c)
    BY DEF UpdateInv, Only
  <2>2. Serves /\ "tracked" \in services[2]
    BY <2>1 DEF InStep
  <2>3. "tracked" \notin orphans
    BY DEF TypeInv, ServicesInv
  <2> QED
    BY <2>2, <2>3 DEF Serves, Second, Booting
<1> QED
  BY InitTypes, InitUpdate, <1>1, <1>2, PTL DEF Spec
===============================================================================
