------------------------------ MODULE WatcherProof ------------------------------
(******************************************************************************)
(* What Watcher keeps for any number of writes, watchers and requests.         *)
(******************************************************************************)
EXTENDS Watcher, TLAPS

(* The file is absent or as the last write left it; nothing newer is known.   *)
FilesInv ==
  /\ disk \in {0, writes}
  /\ whole => disk \in builds
  /\ 0 \notin builds
  /\ \A w \in Watchers : watcher[w].accepted <= writes /\ watcher[w].candidate <= writes

(* Half a build that a watcher has read is replaced before it reads again.    *)
DebounceInv ==
  \A w \in Watchers :
    /\ \/ watcher[w].candidate \in builds \cup {0}
       \/ watcher[w].candidate # disk
       \/ w \in reads
    /\ watcher[w].at = "settled" => watcher[w].accepted \in builds

OneInv ==
  /\ OneWatcher
  /\ \A w \in Watchers : watcher[w].at = "none" => ~watcher[w].stop

(* What is accepted runs, or is what a replacement under way runs.            *)
RunsInv ==
  /\ roll.at # "probe" => roll.new = NoInst
  /\ \A w \in Watchers :
       w = current /\ watcher[w].at = "select" /\ watcher[w].accepted \notin missed \cup aborted
       => /\ roll.at = "probe" /\ roll.new.at = "up" => watcher[w].accepted <= roll.new.ran
          /\ roll.at # "probe" /\ inst.at = "up" => watcher[w].accepted <= inst.ran

--------------------------------------------------------------------------------
(* Types                                                                      *)

\* One tick of a watcher.
LEMMA PolledTypes ==
  ASSUME NEW r \in WatcherType, disk \in Sigs, r.at = "select"
  PROVE  /\ Polled(r) \in WatcherType
         /\ Polled(r).stop = r.stop
         /\ Polled(r).at \in {"select", "settled"}
         /\ Polled(r).candidate \in {0, disk}
         /\ \/ Polled(r).at = "select" /\ Polled(r).accepted = r.accepted
            \/ /\ Polled(r).at = "settled" /\ Polled(r).accepted = disk
               /\ disk # 0 /\ disk = r.candidate
<1> USE WatcherAssumption DEF Watching
<1>1. r.stop \in BOOLEAN /\ r.accepted \in Sigs /\ r.candidate \in Sigs /\ r.stable \in 0..StableTicks
  BY DEF WatcherType
<1>2. 0 \in Sigs /\ 0 \in 0..StableTicks /\ 1 \in 0..StableTicks
  BY DEF Sigs
<1>3. Settled(r) = [at |-> "settled", stop |-> r.stop, accepted |-> disk, candidate |-> 0, stable |-> 0]
  BY DEF Settled
<1>4. CASE disk \in {0, r.accepted}
  <2>1. Polled(r) = Watching(r.stop, r.accepted, 0, 0)
    BY <1>4 DEF Polled
  <2> QED
    BY <1>1, <1>2, <2>1 DEF WatcherType
<1>5. CASE disk \notin {0, r.accepted} /\ disk = r.candidate
  <2>1. CASE r.stable + 1 >= StableTicks
    <3>1. Polled(r) = Settled(r)
      BY <1>5, <2>1 DEF Polled
    <3> QED
      BY <1>1, <1>2, <1>3, <1>5, <3>1 DEF WatcherType
  <2>2. CASE ~(r.stable + 1 >= StableTicks)
    <3>1. Polled(r) = Watching(r.stop, r.accepted, disk, r.stable + 1)
      BY <1>5, <2>2 DEF Polled
    <3>2. r.stable + 1 \in 0..StableTicks
      BY <1>1, <2>2
    <3> QED
      BY <1>1, <1>2, <3>1, <3>2 DEF WatcherType
  <2> QED
    BY <2>1, <2>2
<1>6. CASE disk \notin {0, r.accepted} /\ disk # r.candidate
  <2>1. Polled(r) = Watching(r.stop, r.accepted, disk, 1)
    BY <1>6 DEF Polled
  <2> QED
    BY <1>1, <1>2, <2>1 DEF WatcherType
<1> QED
  BY <1>4, <1>5, <1>6

\* What a stop does to the watchers: the current one is told to stop.
LEMMA Stopped ==
  ASSUME TypeOK
  PROVE  /\ StopWatcher \in [Watchers -> WatcherType]
         /\ \A w \in Watchers :
              /\ StopWatcher[w].at = watcher[w].at
              /\ StopWatcher[w].stop <=> w = current \/ watcher[w].stop
              /\ StopWatcher[w].accepted = watcher[w].accepted
              /\ StopWatcher[w].candidate = watcher[w].candidate
<1>1. ASSUME NEW w \in Watchers
      PROVE  /\ StopWatcher[w] \in WatcherType
             /\ StopWatcher[w].at = watcher[w].at
             /\ StopWatcher[w].stop <=> w = current \/ watcher[w].stop
             /\ StopWatcher[w].accepted = watcher[w].accepted
             /\ StopWatcher[w].candidate = watcher[w].candidate
  <2>1. watcher[w] \in WatcherType
    BY DEF TypeOK
  <2>2. CASE w = current
    <3>1. StopWatcher[w] = [watcher[w] EXCEPT !.stop = TRUE]
      BY <2>2 DEF StopWatcher
    <3> QED
      BY <2>1, <2>2, <3>1 DEF WatcherType
  <2>3. CASE w # current
    BY <2>1, <2>3 DEF StopWatcher
  <2> QED
    BY <2>2, <2>3
<1>2. StopWatcher = [w \in Watchers |-> StopWatcher[w]]
  BY DEF StopWatcher
<1> QED
  BY <1>1, <1>2

\* What a launch does to them: another one begins.
LEMMA Launched ==
  ASSUME TypeOK, Launch
  PROVE  \E n \in Watchers :
           /\ watcher[n].at = "none" /\ current' = n
           /\ watcher' \in [Watchers -> WatcherType]
           /\ \A w \in Watchers :
                /\ watcher'[w].at = IF w = n THEN "begin" ELSE watcher[w].at
                /\ watcher'[w].stop <=> w = current \/ watcher[w].stop
                /\ watcher'[w].accepted = watcher[w].accepted
                /\ watcher'[w].candidate = watcher[w].candidate
<1>1. PICK n \in Watchers :
        watcher[n].at = "none" /\ current' = n /\ watcher' = [StopWatcher EXCEPT ![n].at = "begin"]
  BY DEF Launch
<1>2. watcher' = [StopWatcher EXCEPT ![n] = [StopWatcher[n] EXCEPT !.at = "begin"]]
  BY <1>1
<1>3. StopWatcher[n] \in WatcherType
  BY Stopped
<1>4. /\ [StopWatcher[n] EXCEPT !.at = "begin"] \in WatcherType
      /\ [StopWatcher[n] EXCEPT !.at = "begin"].at = "begin"
      /\ [StopWatcher[n] EXCEPT !.at = "begin"].stop = StopWatcher[n].stop
      /\ [StopWatcher[n] EXCEPT !.at = "begin"].accepted = StopWatcher[n].accepted
      /\ [StopWatcher[n] EXCEPT !.at = "begin"].candidate = StopWatcher[n].candidate
  BY <1>3 DEF WatcherType
<1>5. watcher' \in [Watchers -> WatcherType]
  BY <1>2, <1>4, Stopped
<1>6. ASSUME NEW w \in Watchers
      PROVE  /\ watcher'[w].at = IF w = n THEN "begin" ELSE watcher[w].at
             /\ watcher'[w].stop <=> w = current \/ watcher[w].stop
             /\ watcher'[w].accepted = watcher[w].accepted
             /\ watcher'[w].candidate = watcher[w].candidate
  <2>1. CASE w = n
    BY <1>2, <1>4, <2>1, Stopped
  <2>2. CASE w # n
    BY <1>2, <2>2, Stopped
  <2> QED
    BY <2>1, <2>2
<1> QED
  BY <1>1, <1>5, <1>6

\* What a watcher's own steps do to it.
LEMMA Watched ==
  ASSUME TypeOK, NEW w \in Watchers, Watch(w)
  PROVE  /\ watcher' \in [Watchers -> WatcherType]
         /\ \A v \in Watchers : v # w => watcher'[v] = watcher[v]
         /\ watcher[w].at # "none" /\ watcher'[w].at # "none"
         /\ watcher'[w].stop = watcher[w].stop
         /\ watcher'[w].accepted \in {watcher[w].accepted, disk}
         /\ watcher'[w].candidate \in {watcher[w].candidate, 0, disk}
<1>0. watcher[w] \in WatcherType /\ disk \in Sigs /\ watcher \in [Watchers -> WatcherType]
  BY DEF TypeOK
<1>1. CASE Begin(w)
  <2>1. watcher' = [watcher EXCEPT ![w] = Watching(watcher[w].stop, disk, 0, 0)]
    BY <1>1 DEF Begin
  <2>2. Watching(watcher[w].stop, disk, 0, 0) \in WatcherType
    BY <1>0, WatcherAssumption DEF Watching, WatcherType, Sigs
  <2>3. watcher[w].at # "none"
    BY <1>1 DEF Begin
  <2> QED
    BY <1>0, <2>1, <2>2, <2>3 DEF Watching
<1>2. CASE Poll(w)
  <2>1. watcher' = [watcher EXCEPT ![w] = Polled(watcher[w])] /\ watcher[w].at = "select"
    BY <1>2 DEF Poll
  <2> QED
    BY <1>0, <2>1, PolledTypes
<1>3. ASSUME NEW a \in {"gone", "select"}, watcher[w].at # "none",
             watcher' = [watcher EXCEPT ![w].at = a]
      PROVE  /\ watcher' \in [Watchers -> WatcherType]
             /\ \A v \in Watchers : v # w => watcher'[v] = watcher[v]
             /\ watcher'[w].at = a /\ watcher'[w].stop = watcher[w].stop
             /\ watcher'[w].accepted = watcher[w].accepted
             /\ watcher'[w].candidate = watcher[w].candidate
  <2>1. watcher' = [watcher EXCEPT ![w] = [watcher[w] EXCEPT !.at = a]]
    BY <1>3
  <2>2. /\ [watcher[w] EXCEPT !.at = a] \in WatcherType
        /\ [watcher[w] EXCEPT !.at = a].at = a
        /\ [watcher[w] EXCEPT !.at = a].stop = watcher[w].stop
        /\ [watcher[w] EXCEPT !.at = a].accepted = watcher[w].accepted
        /\ [watcher[w] EXCEPT !.at = a].candidate = watcher[w].candidate
    BY <1>0 DEF WatcherType
  <2> QED
    BY <1>0, <2>1, <2>2
<1>4. CASE Quit(w)
  BY <1>3, <1>4 DEF Quit
<1>5. CASE Fire(w)
  BY <1>3, <1>5 DEF Fire
<1> QED
  BY <1>1, <1>2, <1>4, <1>5 DEF Watch

(* Every variable has its type, and what is up executes a build.              *)
THEOREM TypeCorrect == Spec => []TypeOK
<1> DEFINE T == TypeOK /\ 0 \notin builds
<1>0. NoInst \in InstType /\ Starting \in InstType /\ 0 \in Sigs /\ 1 \in Sigs /\ 0 \in 0..MaxWatchers
  BY WatcherAssumption DEF NoInst, Starting, InstType, Sigs
<1>1. Init => T
  <2> SUFFICES ASSUME Init PROVE T
    OBVIOUS
  <2>1. NoWatcher \in WatcherType
    BY <1>0, WatcherAssumption DEF NoWatcher, WatcherType
  <2>2. watcher \in [Watchers -> WatcherType]
    BY <2>1 DEF Init
  <2>3. inst = NoInst /\ NoInst.at # "up"
    BY DEF Init, NoInst
  <2>4. roll \in [at : {"idle", "probe", "drain"}, new : InstType]
    BY <1>0 DEF Init
  <2>5. requests \in 0..MaxRequests
    BY WatcherAssumption DEF Init
  <2> QED
    BY <1>0, <2>2, <2>3, <2>4, <2>5 DEF Init, TypeOK
<1>2. T /\ [Next]_vars => T'
  <2> SUFFICES ASSUME TypeOK, 0 \notin builds, [Next]_vars PROVE TypeOK' /\ 0 \notin builds'
    OBVIOUS
  <2>1. CASE Write(TRUE) \/ Write(FALSE)
    <3>1. writes' \in Sigs /\ writes' # 0 /\ disk' = writes' /\ whole' \in BOOLEAN
      <4>1. writes < MaxWrites /\ writes' = writes + 1 /\ disk' = writes'
        BY <2>1 DEF Write
      <4>2. writes \in 0..MaxWrites
        BY DEF TypeOK, Sigs
      <4>3. writes' \in 0..MaxWrites /\ writes' # 0
        BY <4>1, <4>2, WatcherAssumption
      <4>4. whole' = TRUE \/ whole' = FALSE
        BY <2>1 DEF Write
      <4> QED
        BY <4>1, <4>3, <4>4 DEF Sigs
    <3>2. builds' \in {builds, builds \cup {disk'}} /\ reads' = {}
      BY <2>1 DEF Write
    <3>3. UNCHANGED <<inst, roll, current, watcher, requests, missed, aborted>>
      BY <2>1 DEF Write, serviceVars, auxVars
    <3> QED
      BY <3>1, <3>2, <3>3 DEF TypeOK
  <2>2. CASE Remove
    BY <1>0, <2>2 DEF Remove, TypeOK, serviceVars, auxVars
  <2>3. ASSUME NEW w \in Watchers, Watch(w) PROVE TypeOK' /\ 0 \notin builds'
    <3>1. watcher' \in [Watchers -> WatcherType]
      BY <2>3, Watched
    <3>2. /\ UNCHANGED <<fileVars, current, requests, aborted, inst>>
          /\ reads' \in {reads, reads \cup {w}}
      BY <2>3 DEF Watch, Begin, Poll, Quit, Fire, Refused, BeginReload, serviceVars, auxVars
    <3>3. roll' \in [at : {"idle", "probe", "drain"}, new : InstType]
      BY <1>0, <2>3 DEF Watch, Begin, Poll, Quit, Fire, Refused, BeginReload, serviceVars, TypeOK
    <3>4. missed' \in {missed, missed \cup {disk}, missed \cup {watcher[w].accepted}}
      BY <2>3 DEF Watch, Begin, Poll, Quit, Fire, Refused, BeginReload, auxVars
    <3>5. missed' \subseteq Sigs
      BY <3>4 DEF TypeOK, WatcherType
    <3> QED
      BY <3>1, <3>2, <3>3, <3>5 DEF TypeOK, fileVars
  <2>4. CASE Exec
    <3>1. disk \in Sigs \ {0} /\ UNCHANGED <<fileVars, watchVars, requests, auxVars>>
      BY <2>4 DEF Exec, TypeOK
    <3>2. [at |-> "up", ran |-> disk] \in InstType
      BY <3>1 DEF InstType
    <3>3. inst' \in {inst, [at |-> "up", ran |-> disk]}
      BY <2>4 DEF Exec
    <3>4. inst' \in InstType /\ (inst'.at = "up" => inst'.ran # 0)
      BY <3>1, <3>2, <3>3 DEF TypeOK
    <3>5. roll' \in [at : {"idle", "probe", "drain"}, new : InstType]
      BY <2>4, <3>2 DEF Exec, TypeOK
    <3> QED
      BY <3>1, <3>4, <3>5 DEF TypeOK, fileVars, watchVars, auxVars
  <2>5. CASE Crash
    BY <1>0, <2>5 DEF Crash, Starting, TypeOK, fileVars, watchVars, auxVars
  <2>6. CASE RollSwap
    <3>1. roll.new \in InstType /\ roll.new.ran # 0
      BY <2>6 DEF RollSwap, Healthy, TypeOK
    <3>2. inst' = roll.new /\ roll' = [at |-> "drain", new |-> NoInst]
            /\ UNCHANGED <<fileVars, watchVars, requests, auxVars>>
      BY <2>6 DEF RollSwap
    <3>3. roll' \in [at : {"idle", "probe", "drain"}, new : InstType]
      BY <1>0, <3>2
    <3> QED
      BY <3>1, <3>2, <3>3 DEF TypeOK, fileVars, watchVars, auxVars
  <2>7. CASE RollEnd
    <3>1. roll' \in [at : {"idle", "probe", "drain"}, new : InstType]
      BY <2>7 DEF RollEnd, TypeOK
    <3> QED
      BY <2>7, <3>1 DEF RollEnd, TypeOK, fileVars, watchVars, auxVars
  <2>8. CASE RollAbort
    <3>1. roll' \in [at : {"idle", "probe", "drain"}, new : InstType]
      BY <1>0, <2>8 DEF RollAbort
    <3>2. aborted' \subseteq Sigs
      BY <2>8 DEF RollAbort, TypeOK, WatcherType
    <3> QED
      BY <2>8, <3>1, <3>2 DEF RollAbort, TypeOK, fileVars, watchVars
  <2>9. CASE Launch /\ requests' \in 0..MaxRequests
    <3>1. watcher' \in [Watchers -> WatcherType] /\ current' \in Watchers
      BY <2>9, Launched
    <3>2. inst' = Starting /\ UNCHANGED <<roll, reads, fileVars, auxVars>>
      BY <2>9 DEF Launch
    <3>3. Starting.at # "up" /\ current' \in 0..MaxWatchers
      BY <3>1 DEF Starting, Watchers
    <3> QED
      BY <1>0, <2>9, <3>1, <3>2, <3>3 DEF TypeOK, fileVars, auxVars
  <2>10. CASE Start \/ Restart
    <3>1. requests' \in 0..MaxRequests
      BY <2>10, WatcherAssumption DEF Start, Restart, Accept, TypeOK
    <3> QED
      BY <2>9, <2>10, <3>1 DEF Start, Restart
  <2>11. CASE Stop
    <3>1. requests' \in 0..MaxRequests
      BY <2>11, WatcherAssumption DEF Stop, Accept, TypeOK
    <3>2. watcher' \in [Watchers -> WatcherType] /\ current' = 0
      BY <2>11, Stopped DEF Stop
    <3>3. inst' \in {inst, [inst EXCEPT !.at = "stopped"]} /\ UNCHANGED <<roll, reads, fileVars, auxVars>>
      BY <2>11 DEF Stop
    <3>4. inst' \in InstType /\ (inst'.at = "up" => inst'.ran # 0)
      BY <3>3 DEF InstType, TypeOK
    <3> QED
      BY <1>0, <3>1, <3>2, <3>3, <3>4 DEF TypeOK, fileVars, auxVars
  <2>12. CASE Reload
    <3>1. requests' \in 0..MaxRequests
      BY <2>12, WatcherAssumption DEF Reload, Accept, TypeOK
    <3>2. CASE BeginReload /\ UNCHANGED <<watchVars, fileVars, aborted>>
      <4>1. roll' \in [at : {"idle", "probe", "drain"}, new : InstType]
        BY <1>0, <3>2 DEF BeginReload
      <4> QED
        BY <3>1, <3>2, <4>1 DEF BeginReload, TypeOK, watchVars, fileVars
    <3> QED
      BY <2>9, <2>12, <3>1, <3>2 DEF Reload
  <2>13. CASE UNCHANGED vars
    BY <2>13 DEF vars, fileVars, serviceVars, watchVars, auxVars, TypeOK
  <2> QED
    BY <2>1, <2>2, <2>3, <2>4, <2>5, <2>6, <2>7, <2>8, <2>10, <2>11, <2>12, <2>13 DEF Next
<1> QED
  BY <1>1, <1>2, PTL DEF Spec

--------------------------------------------------------------------------------
(* One watcher                                                                *)

(* OneWatcher holds of every reachable state.                                 *)
THEOREM NeverTwo == Spec => []OneWatcher
<1>0. 0 \notin Watchers
  BY DEF Watchers
<1>1. Init => OneInv
  BY <1>0 DEF Init, OneInv, OneWatcher, NoWatcher
<1>2. TypeOK /\ OneInv /\ [Next]_vars => OneInv'
  <2> SUFFICES ASSUME TypeOK, OneInv, [Next]_vars PROVE OneInv'
    OBVIOUS
  <2>1. ASSUME NEW w \in Watchers, Watch(w) PROVE OneInv'
    <3>1. current' = current
      BY <2>1 DEF Watch, Begin, Poll, Quit, Fire
    <3>2. Quit(w) => watcher[w].stop
      BY DEF Quit
    <3>3. ASSUME NEW v \in Watchers
          PROVE  /\ watcher'[v].at # "none" <=> watcher[v].at # "none"
                 /\ watcher'[v].stop = watcher[v].stop
      BY <2>1, Watched
    <3> QED
      BY <3>1, <3>3 DEF OneInv, OneWatcher
  <2>2. CASE Launch
    <3>1. PICK n \in Watchers :
            /\ watcher[n].at = "none" /\ current' = n
            /\ \A w \in Watchers :
                 /\ watcher'[w].at = IF w = n THEN "begin" ELSE watcher[w].at
                 /\ watcher'[w].stop <=> w = current \/ watcher[w].stop
      BY <2>2, Launched
    <3>2. n # current /\ ~watcher[n].stop
      BY <3>1 DEF OneInv, OneWatcher
    <3>3. ASSUME NEW w \in Watchers
          PROVE  /\ watcher'[w].at # "none" /\ ~watcher'[w].stop <=> w = current'
                 /\ watcher'[w].at = "none" => ~watcher'[w].stop
      BY <3>1, <3>2 DEF OneInv, OneWatcher
    <3> QED
      BY <3>3 DEF OneInv, OneWatcher
  <2>3. CASE Stop
    <3>1. /\ current' = 0
          /\ \A w \in Watchers :
               /\ watcher'[w].at = watcher[w].at
               /\ watcher'[w].stop <=> w = current \/ watcher[w].stop
      BY <2>3, Stopped DEF Stop
    <3> QED
      BY <1>0, <3>1 DEF OneInv, OneWatcher
  <2>4. CASE UNCHANGED <<current, watcher>>
    BY <2>4 DEF OneInv, OneWatcher
  <2> QED
    BY <2>1, <2>2, <2>3, <2>4 DEF Next, Write, Remove, Exec, Crash, RollSwap, RollEnd, RollAbort,
       Start, Restart, Reload, watchVars, vars
<1>3. OneInv => OneWatcher
  BY DEF OneInv
<1> QED
  BY <1>1, <1>2, <1>3, TypeCorrect, PTL DEF Spec

--------------------------------------------------------------------------------
(* The debounce                                                               *)

\* What every step does to what is written and read.
LEMMA FilesKept == TypeOK /\ FilesInv /\ [Next]_vars => FilesInv'
<1> SUFFICES ASSUME TypeOK, FilesInv, [Next]_vars PROVE FilesInv'
  OBVIOUS
<1>0. writes \in Nat /\ \A w \in Watchers : watcher[w].accepted \in Nat /\ watcher[w].candidate \in Nat
  BY WatcherAssumption DEF TypeOK, WatcherType, Sigs
<1>1. CASE Write(TRUE) \/ Write(FALSE)
  <2>1. PICK b \in BOOLEAN :
          /\ writes' = writes + 1 /\ disk' = writes' /\ whole' = b
          /\ builds' = IF b THEN builds \cup {disk'} ELSE builds
          /\ watcher' = watcher
    BY <1>1 DEF Write
  <2> QED
    BY <1>0, <2>1 DEF FilesInv
<1>2. CASE Remove
  BY <1>2 DEF Remove, FilesInv
<1>3. ASSUME NEW w \in Watchers, Watch(w) PROVE FilesInv'
  <2>1. UNCHANGED fileVars
    BY <1>3 DEF Watch, Begin, Poll, Quit, Fire
  <2>2. /\ \A v \in Watchers : v # w => watcher'[v] = watcher[v]
        /\ watcher'[w].accepted \in {watcher[w].accepted, disk}
        /\ watcher'[w].candidate \in {watcher[w].candidate, 0, disk}
    BY <1>3, Watched
  <2>3. disk <= writes /\ 0 <= writes
    BY <1>0 DEF FilesInv
  <2>4. \A v \in Watchers : watcher'[v].accepted <= writes /\ watcher'[v].candidate <= writes
    BY <2>2, <2>3 DEF FilesInv
  <2> QED
    BY <2>1, <2>4 DEF FilesInv, fileVars
<1>4. CASE Launch
  BY <1>4, Launched DEF Launch, FilesInv, fileVars
<1>5. CASE Stop
  BY <1>5, Stopped DEF Stop, FilesInv, fileVars
<1>6. CASE UNCHANGED <<fileVars, watcher>>
  BY <1>6 DEF FilesInv, fileVars
<1> QED
  BY <1>1, <1>2, <1>3, <1>4, <1>5, <1>6 DEF Next, Exec, Crash, RollSwap, RollEnd, RollAbort,
     Start, Restart, Reload, watchVars, vars

LEMMA FilesInit == Init => FilesInv
<1>1. Init => \A w \in Watchers : watcher[w] = NoWatcher
  BY DEF Init
<1> QED
  BY <1>1 DEF Init, FilesInv, NoWatcher

(* SettledOnWhole holds of every reachable state, for any number of ticks from  *)
(* two up.                                                                     *)
THEOREM WholeBuilds == Spec => []SettledOnWhole
<1>1. Init => DebounceInv
  <2>1. Init => \A w \in Watchers : watcher[w] = NoWatcher
    BY DEF Init
  <2> QED
    BY <2>1 DEF DebounceInv, NoWatcher
<1>2. TypeOK /\ FilesInv /\ DebounceInv /\ [Next]_vars => DebounceInv'
  <2> SUFFICES ASSUME TypeOK, FilesInv, DebounceInv, [Next]_vars PROVE DebounceInv'
    OBVIOUS
  <2>0. /\ writes \in Nat
        /\ \A w \in Watchers : watcher[w].candidate \in Nat /\ watcher[w].candidate <= writes
    BY WatcherAssumption DEF TypeOK, WatcherType, Sigs, FilesInv
  <2>1. CASE Write(TRUE) \/ Write(FALSE)
    <3>1. /\ disk' = writes + 1 /\ watcher' = watcher
          /\ builds' \in {builds, builds \cup {disk'}}
      BY <2>1 DEF Write
    <3>2. \A w \in Watchers : watcher'[w].candidate # disk'
      BY <2>0, <3>1
    <3> QED
      BY <3>1, <3>2 DEF DebounceInv
  <2>2. CASE Remove
    BY <2>2 DEF Remove, DebounceInv
  <2>3. ASSUME NEW w \in Watchers, Poll(w) PROVE DebounceInv'
    <3>0. watcher[w] \in WatcherType /\ disk \in Sigs /\ watcher[w].at = "select"
      BY <2>3 DEF Poll, TypeOK
    <3>1. watcher'[w] = Polled(watcher[w]) /\ \A v \in Watchers : v # w => watcher'[v] = watcher[v]
      BY <2>3 DEF Poll, TypeOK
    <3>2. /\ UNCHANGED <<disk, whole, builds>> /\ (HalfWritten => w \notin reads)
          /\ reads' = IF HalfWritten THEN reads \cup {w} ELSE reads
      BY <2>3 DEF Poll, fileVars
    <3>3. /\ Polled(watcher[w]).candidate \in {0, disk}
          /\ \/ Polled(watcher[w]).at = "select"
             \/ /\ Polled(watcher[w]).at = "settled" /\ Polled(watcher[w]).accepted = disk
                /\ disk # 0 /\ disk = watcher[w].candidate
      BY <3>0, PolledTypes
    <3>4. disk \in builds \/ disk = 0 \/ HalfWritten
      BY DEF HalfWritten, FilesInv
    <3>5. \/ watcher'[w].candidate \in builds' \cup {0}
          \/ w \in reads'
      BY <3>1, <3>2, <3>3, <3>4
    <3>6. watcher'[w].at = "settled" => watcher'[w].accepted \in builds'
      BY <3>1, <3>2, <3>3, <3>4 DEF DebounceInv
    <3> QED
      BY <3>1, <3>2, <3>5, <3>6 DEF DebounceInv
  <2>4. ASSUME NEW w \in Watchers, Begin(w) \/ Quit(w) \/ Fire(w) PROVE DebounceInv'
    <3>1. UNCHANGED <<fileVars, reads>> /\ \A v \in Watchers : v # w => watcher'[v] = watcher[v]
      BY <2>4 DEF Begin, Quit, Fire, TypeOK
    <3>2. watcher'[w].at # "settled" /\ watcher'[w].candidate \in {watcher[w].candidate, 0}
      BY <2>4 DEF Begin, Quit, Fire, TypeOK, WatcherType, Watching
    <3> QED
      BY <3>1, <3>2 DEF DebounceInv, fileVars
  <2>5. CASE Launch
    <3>1. /\ UNCHANGED <<fileVars, reads>>
          /\ \A w \in Watchers : watcher'[w].candidate = watcher[w].candidate
                                   /\ watcher'[w].accepted = watcher[w].accepted
                                   /\ (watcher'[w].at = "settled" => watcher[w].at = "settled")
      BY <2>5, Launched DEF Launch
    <3> QED
      BY <3>1 DEF DebounceInv, fileVars
  <2>6. CASE Stop
    BY <2>6, Stopped DEF Stop, DebounceInv, fileVars
  <2>7. CASE UNCHANGED <<fileVars, watcher, reads>>
    BY <2>7 DEF DebounceInv, fileVars
  <2> QED
    BY <2>1, <2>2, <2>3, <2>4, <2>5, <2>6, <2>7 DEF Next, Watch, Exec, Crash, RollSwap, RollEnd,
       RollAbort, Start, Restart, Reload, watchVars, vars
<1>3. DebounceInv => SettledOnWhole
  BY DEF DebounceInv, SettledOnWhole
<1> QED
  BY <1>1, <1>2, <1>3, FilesInit, FilesKept, TypeCorrect, PTL DEF Spec

--------------------------------------------------------------------------------
(* What has been accepted                                                     *)

(* AcceptedRuns holds of every reachable state: every exec finds the newest    *)
(* write there is, so no watcher that has accepted less is behind.             *)
THEOREM NothingForgotten == Spec => []AcceptedRuns
<1>1. Init => RunsInv
  <2>1. Init => \A w \in Watchers : watcher[w].at = "none"
    BY DEF Init, NoWatcher
  <2> QED
    BY <2>1 DEF Init, RunsInv
<1>2. TypeOK /\ FilesInv /\ RunsInv /\ [Next]_vars => RunsInv'
  <2> SUFFICES ASSUME TypeOK, FilesInv, RunsInv, [Next]_vars PROVE RunsInv'
    OBVIOUS
  <2>0. /\ disk \in Nat /\ inst.ran \in Nat /\ roll.new.ran \in Nat
        /\ \A w \in Watchers : watcher[w].accepted \in Nat /\ watcher[w].accepted <= writes
        /\ Starting.at = "starting" /\ NoInst.at = "none"
    BY WatcherAssumption DEF TypeOK, InstType, WatcherType, Sigs, FilesInv, Starting, NoInst
  <2>1. CASE Write(TRUE) \/ Write(FALSE) \/ Remove
    BY <2>1 DEF Write, Remove, RunsInv, serviceVars, auxVars
  <2>2. ASSUME NEW w \in Watchers, Begin(w) PROVE RunsInv'
    <3>1. /\ UNCHANGED <<inst, roll, current, aborted>>
          /\ \A v \in Watchers : v # w => watcher'[v] = watcher[v]
          /\ watcher'[w].accepted = disk
          /\ missed' = IF \E i \in {inst, roll.new} : i.at = "up" /\ i.ran < disk
                       THEN missed \cup {disk} ELSE missed
      BY <2>2 DEF Begin, serviceVars, TypeOK, Watching
    <3>2. /\ roll.new.at = "up" => disk \in missed' \/ disk <= roll.new.ran
          /\ inst.at = "up" => disk \in missed' \/ disk <= inst.ran
      <4>1. CASE \E i \in {inst, roll.new} : i.at = "up" /\ i.ran < disk
        BY <3>1, <4>1
      <4>2. CASE \A i \in {inst, roll.new} : ~(i.at = "up" /\ i.ran < disk)
        BY <2>0, <4>2
      <4> QED
        BY <4>1, <4>2
    <3> QED
      BY <3>1, <3>2 DEF RunsInv
  <2>3. ASSUME NEW w \in Watchers, Poll(w) PROVE RunsInv'
    <3>0. watcher[w] \in WatcherType /\ disk \in Sigs /\ watcher[w].at = "select"
      BY <2>3 DEF Poll, TypeOK
    <3>1. /\ watcher'[w] = Polled(watcher[w]) /\ \A v \in Watchers : v # w => watcher'[v] = watcher[v]
          /\ UNCHANGED <<inst, roll, current, missed, aborted>>
      BY <2>3 DEF Poll, TypeOK, serviceVars, auxVars
    <3>2. watcher'[w].at = "select" => watcher'[w].accepted = watcher[w].accepted
      BY <3>0, <3>1, PolledTypes
    <3> QED
      BY <3>0, <3>1, <3>2 DEF RunsInv
  <2>4. ASSUME NEW w \in Watchers, Quit(w) PROVE RunsInv'
    <3>1. /\ watcher'[w].at = "gone" /\ \A v \in Watchers : v # w => watcher'[v] = watcher[v]
          /\ UNCHANGED <<inst, roll, current, missed, aborted>>
      BY <2>4 DEF Quit, TypeOK, WatcherType, serviceVars, auxVars
    <3> QED
      BY <3>1 DEF RunsInv
  <2>5. ASSUME NEW w \in Watchers, Fire(w) PROVE RunsInv'
    <3>1. /\ watcher'[w].accepted = watcher[w].accepted
          /\ \A v \in Watchers : v # w => watcher'[v] = watcher[v]
          /\ UNCHANGED <<inst, current, aborted>>
      BY <2>5 DEF Fire, TypeOK, WatcherType, BeginReload, Refused, serviceVars
    <3>2. CASE BeginReload
      BY <2>0, <3>1, <3>2 DEF BeginReload, RunsInv
    <3>3. CASE Refused(w)
      BY <3>1, <3>3 DEF Refused, RunsInv, serviceVars
    <3> QED
      BY <2>5, <3>2, <3>3 DEF Fire
  <2>6. CASE Exec
    <3>1. UNCHANGED <<current, watcher, missed, aborted>> /\ disk = writes
      BY <2>6 DEF Exec, watchVars, auxVars, FilesInv
    <3>2. \/ inst' = [at |-> "up", ran |-> disk] /\ roll' = roll
          \/ /\ roll.new.at = "starting" /\ roll' = [roll EXCEPT !.new = [at |-> "up", ran |-> disk]]
             /\ inst' = inst
      BY <2>6 DEF Exec
    <3>3. CASE inst' = [at |-> "up", ran |-> disk] /\ roll' = roll
      BY <2>0, <3>1, <3>3 DEF RunsInv
    <3>4. CASE roll.new.at = "starting" /\ inst' = inst
                 /\ roll' = [roll EXCEPT !.new = [at |-> "up", ran |-> disk]]
      <4>1. roll.at = "probe"
        BY <2>0, <3>4 DEF RunsInv
      <4>2. roll'.at = "probe" /\ roll'.new.ran = disk
        BY <3>4, <4>1 DEF TypeOK
      <4> QED
        BY <2>0, <3>1, <4>2 DEF RunsInv
    <3> QED
      BY <3>2, <3>3, <3>4
  <2>7. CASE Crash
    BY <2>0, <2>7 DEF Crash, RunsInv, watchVars, auxVars
  <2>8. CASE RollSwap
    BY <2>8 DEF RollSwap, Healthy, RunsInv, watchVars, auxVars
  <2>9. CASE RollEnd
    <3>1. roll.at = "drain" /\ roll'.at = "idle" /\ roll'.new = roll.new
      BY <2>9 DEF RollEnd, TypeOK
    <3> QED
      BY <2>9, <3>1 DEF RollEnd, RunsInv, watchVars, auxVars
  <2>10. CASE RollAbort
    <3>1. \A w \in Watchers : watcher'[w].accepted \in aborted'
      BY <2>10 DEF RollAbort, watchVars
    <3> QED
      BY <2>10, <3>1 DEF RollAbort, RunsInv
  <2>11. CASE Launch
    <3>1. current' \in Watchers /\ watcher'[current'].at = "begin" /\ roll' = roll
      BY <2>11, Launched DEF Launch
    <3> QED
      BY <3>1 DEF RunsInv
  <2>12. CASE Stop
    <3>1. current' = 0 /\ roll' = roll
      BY <2>12 DEF Stop
    <3> QED
      BY <3>1 DEF RunsInv, Watchers
  <2>13. CASE BeginReload /\ UNCHANGED <<watchVars, aborted>>
    BY <2>0, <2>13 DEF BeginReload, RunsInv, watchVars
  <2>14. CASE UNCHANGED vars
    BY <2>14 DEF vars, serviceVars, watchVars, auxVars, RunsInv
  <2> QED
    BY <2>1, <2>2, <2>3, <2>4, <2>5, <2>6, <2>7, <2>8, <2>9, <2>10, <2>11, <2>12, <2>13, <2>14
    DEF Next, Watch, Start, Restart, Reload
<1>3. RunsInv => AcceptedRuns
  BY DEF RunsInv, AcceptedRuns
<1> QED
  BY <1>1, <1>2, <1>3, FilesInit, FilesKept, TypeCorrect, PTL DEF Spec
================================================================================
