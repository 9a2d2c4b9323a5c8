----------------------------- MODULE RegistryProof -----------------------------
(******************************************************************************)
(* What Registry keeps for any names and any number of requests and lives.     *)
(******************************************************************************)
EXTENDS Registry, FiniteSetTheorems, TLAPS

(* A write in progress is the job in hand's.                                  *)
WriteInv ==
  /\ writing # {} => up
  /\ "handler" \in writing => job \in {"flush", "stopping"}
  /\ "save" \in writing => job = "save"

(* Ids stay unique in memory and in what a next daemon would load.            *)
IdsInv == ~collided => IsInjective(Ids(mem)) /\ IsInjective(Ids(stateFile.procs))

(* The registry, the file and the answers agree but for the request in hand.  *)
DurableInv ==
  /\ up => Ids(mem) = want
  /\ up /\ job # "flush" => acked = want
  /\ ~up => job = "idle"
  /\ stateFile.ok => Ids(stateFile.procs) \in {acked, want}

(* What reads as running has a runner or escaped its stop; after the clean     *)
(* stop only the latter, in memory and in the file.                            *)
CutInv ==
  /\ up => Running(mem) \subseteq runners \cup cut
  /\ ~up => job = "idle" /\ runners = {}
  /\ ~up /\ stateFile.ok => Running(stateFile.procs) \subseteq cut
  /\ job \in {"stopping", "exit"} => up /\ Running(mem) \subseteq cut
  /\ job = "exit" /\ stateFile.ok => Running(stateFile.procs) \subseteq cut

--------------------------------------------------------------------------------
(* Types                                                                      *)

LEMMA EmptyTypes == IsRegistry(Empty) /\ IsFile(Unreadable)
<1>1. DOMAIN Empty = {} /\ Empty \in [{} -> Entry]
  BY DEF Empty
<1>2. IsRegistry(Empty)
  BY <1>1 DEF IsRegistry
<1>3. Unreadable.ok = FALSE /\ Unreadable.procs = Empty
  BY DEF Unreadable
<1> QED
  BY <1>2, <1>3 DEF IsFile

LEMMA FileTypes == ASSUME NEW r, IsRegistry(r) PROVE IsFile([ok |-> TRUE, procs |-> r])
<1> DEFINE f == [ok |-> TRUE, procs |-> r]
<1>1. f.ok = TRUE /\ f.procs = r
  OBVIOUS
<1> QED
  BY <1>1 DEF IsFile

LEMMA SavedTypes == ASSUME IsRegistry(mem) PROVE IsRegistry(Saved)
BY DEF IsRegistry, Entry, Saved

\* One entry set, the others kept.
LEMMA LaunchedTypes ==
  ASSUME IsRegistry(mem), NEW n \in Names, NEW i \in Nat
  PROVE  IsRegistry(Launched(n, i))
BY DEF IsRegistry, Entry, Launched

\* The id given to a new service is a number.
LEMMA FreeIdIsNat ==
  ASSUME IsRegistry(mem), NEW i \in NextFreeID
  PROVE  i \in Nat
<1>1. IsFiniteSet(DOMAIN mem)
  BY RegistryAssumption, FS_Subset DEF IsRegistry
<1>2. Cardinality(DOMAIN mem) \in Nat
  BY <1>1, FS_CardinalityType
<1> QED
  BY <1>2 DEF NextFreeID

\* A stop changes nothing but what some entries say.
LEMMA StopTypes ==
  ASSUME IsRegistry(mem), cut \subseteq Names, NEW names \in SUBSET Names, StopThese(names)
  PROVE  IsRegistry(mem') /\ cut' \subseteq Names
<1>1. PICK missed \in SUBSET (names \cap Running(mem)) :
        mem' = StoppedRunners(names, missed) /\ cut' = (cut \ names) \cup missed
  BY DEF StopThese
<1>2. IsRegistry(StoppedRunners(names, missed))
  BY DEF StoppedRunners, IsRegistry, Entry
<1> QED
  BY <1>1, <1>2

(* Every variable has its type.                                               *)
THEOREM TypeCorrect == Spec => []TypeOK
<1> USE RegistryAssumption
<1>1. Init => TypeOK
  <2> SUFFICES ASSUME Init PROVE TypeOK
    OBVIOUS
  <2>1. IsRegistry(mem) /\ IsFile(stateFile) /\ IsFile(saveFile)
    BY EmptyTypes DEF Init
  <2>2. DOMAIN Empty = {} /\ Empty \in [DOMAIN Empty -> Nat]
    BY DEF Empty
  <2>3. lives \in 0..MaxLives /\ requests \in 0..MaxRequests
    BY DEF Init
  <2>4. \A ids \in {acked, want} : DOMAIN ids \subseteq Names /\ ids \in [DOMAIN ids -> Nat]
    BY <2>2 DEF Init
  <2> QED
    BY <2>1, <2>3, <2>4 DEF Init, TypeOK, Jobs
<1>2. TypeOK /\ [Next]_vars => TypeOK'
  <2> SUFFICES ASSUME TypeOK, [Next]_vars PROVE TypeOK'
    OBVIOUS
  <2>0. IsRegistry(Empty) /\ IsFile(Unreadable)
    BY EmptyTypes
  <2>1. CASE Boot
    <3>1. IsRegistry(mem')
      BY <2>0, <2>1 DEF Boot, TypeOK, IsFile
    <3>2. DOMAIN Ids(mem') \subseteq Names /\ Ids(mem') \in [DOMAIN Ids(mem') -> Nat]
      BY <3>1 DEF Ids, IsRegistry, Entry
    <3> QED
      BY <2>1, <3>1, <3>2 DEF Boot, TypeOK, fileVars, Jobs
  <2>2. CASE Crash
    <3>1. Running(mem) \subseteq Names /\ Running(stateFile.procs) \subseteq Names
      BY DEF Running, TypeOK, IsFile, IsRegistry
    <3> QED
      BY <2>0, <2>2, <3>1 DEF Crash, Ends, TypeOK, Jobs
  <2>3. CASE Exit
    BY <2>0, <2>3 DEF Exit, Ends, TypeOK, Jobs
  <2>4. CASE StopAll
    <3>1. IsRegistry(mem') /\ cut' \subseteq Names
      BY <2>4, StopTypes DEF StopAll, TypeOK
    <3> QED
      BY <2>4, <3>1 DEF StopAll, TypeOK, fileVars, Jobs
  <2>5. ASSUME NEW w \in {"handler", "runner", "save"}, BeginWrite(w) PROVE TypeOK'
    <3>1. IsFile(stateFile') /\ IsFile(saveFile') /\ writing' \subseteq {"handler", "runner", "save"}
      BY <2>0, <2>5 DEF BeginWrite, Truncate, TypeOK
    <3> QED
      BY <2>5, <3>1 DEF BeginWrite, TypeOK
  <2>6. ASSUME NEW w \in {"handler", "runner", "save"}, EndWrite(w) PROVE TypeOK'
    <3>1. IsFile([ok |-> TRUE, procs |-> mem]) /\ IsFile([ok |-> TRUE, procs |-> Saved])
      BY FileTypes, SavedTypes DEF TypeOK
    <3>2. IsFile(stateFile') /\ IsFile(saveFile')
      BY <2>6, <3>1 DEF EndWrite, TypeOK
    <3> QED
      BY <2>6, <3>2 DEF EndWrite, TypeOK, Jobs
  <2>7. ASSUME NEW n \in Names, Start(n) PROVE TypeOK'
    <3>1. PICK i \in Nat : mem' = Launched(n, i) /\ want' \in {want, Named(acked, n, i)}
      BY <2>7, FreeIdIsNat DEF Start, TypeOK, IsRegistry, Entry
    <3>2. IsRegistry(mem')
      BY <3>1, LaunchedTypes DEF TypeOK
    <3>3. DOMAIN want' \subseteq Names /\ want' \in [DOMAIN want' -> Nat]
      BY <3>1 DEF TypeOK, Named
    <3> QED
      BY <2>7, <3>2, <3>3 DEF Start, Accept, TypeOK, fileVars, Jobs
  <2>8. ASSUME NEW n \in Names, Restart(n) PROVE TypeOK'
    <3>1. IsRegistry(mem')
      BY <2>8, LaunchedTypes DEF Restart, TypeOK, IsRegistry, Entry
    <3> QED
      BY <2>8, <3>1 DEF Restart, Accept, TypeOK, fileVars, Jobs
  <2>9. ASSUME NEW n \in Names, Stop(n) PROVE TypeOK'
    <3>1. IsRegistry(mem') /\ cut' \subseteq Names
      BY <2>9, StopTypes DEF Stop, TypeOK
    <3> QED
      BY <2>9, <3>1 DEF Stop, Accept, TypeOK, fileVars, Jobs
  <2>10. ASSUME NEW n \in Names, Delete(n) PROVE TypeOK'
    <3>1. IsRegistry(mem')
      BY <2>10 DEF Delete, Restrict, TypeOK, IsRegistry
    <3>2. DOMAIN want' \subseteq Names /\ want' \in [DOMAIN want' -> Nat]
      BY <2>10 DEF Delete, Restrict, TypeOK
    <3>3. requests' \in 0..MaxRequests /\ runners' \subseteq Names /\ cut' \subseteq Names
      BY <2>10 DEF Delete, Accept, TypeOK
    <3>4. up' \in BOOLEAN /\ lives' \in 0..MaxLives /\ collided' \in BOOLEAN /\ job' \in Jobs
      BY <2>10 DEF Delete, Accept, TypeOK, Jobs
    <3>5. acked' = acked /\ fileVars' = fileVars
      BY <2>10 DEF Delete, Accept
    <3> QED
      BY <3>1, <3>2, <3>3, <3>4, <3>5 DEF TypeOK, fileVars
  <2>11. CASE Save
    BY <2>11 DEF Save, Accept, TypeOK, fileVars, Jobs
  <2>12. CASE Resurrect
    <3> DEFINE saved == saveFile.procs
    <3>1. IsRegistry(saved) /\ IsRegistry(mem)
      BY DEF TypeOK, IsFile
    <3>2. IsRegistry(mem')
      <4>1. mem' = [n \in DOMAIN mem \cup DOMAIN saved |->
                     IF n \in DOMAIN saved THEN [id |-> saved[n].id, live |-> "running"] ELSE mem[n]]
        BY <2>12 DEF Resurrect
      <4> HIDE DEF saved
      <4>2. \A n \in DOMAIN saved : [id |-> saved[n].id, live |-> "running"] \in Entry
        BY <3>1 DEF IsRegistry, Entry
      <4>3. \A n \in DOMAIN mem : mem[n] \in Entry
        BY <3>1 DEF IsRegistry
      <4> QED
        BY <3>1, <4>1, <4>2, <4>3 DEF IsRegistry
    <3>3. DOMAIN want' \subseteq Names /\ want' \in [DOMAIN want' -> Nat]
      <4>1. want' = [n \in DOMAIN acked \cup DOMAIN saved |->
                      IF n \in DOMAIN saved THEN saved[n].id ELSE acked[n]]
        BY <2>12 DEF Resurrect
      <4> HIDE DEF saved
      <4>2. \A n \in DOMAIN saved : saved[n].id \in Nat
        BY <3>1 DEF IsRegistry, Entry
      <4> QED
        BY <3>1, <4>1, <4>2 DEF IsRegistry, TypeOK
    <3>4. requests' \in 0..MaxRequests /\ collided' \in BOOLEAN /\ runners' \subseteq Names /\ cut' \subseteq Names
      <4>1. DOMAIN saved \subseteq Names
        BY <3>1 DEF IsRegistry
      <4> QED
        BY <2>12, <4>1 DEF Resurrect, Accept, TypeOK
    <3> QED
      BY <2>12, <3>2, <3>3, <3>4 DEF Resurrect, Accept, TypeOK, fileVars, Jobs
  <2>13. CASE UNCHANGED vars
    BY <2>13 DEF vars, fileVars, TypeOK
  <2>14. ASSUME NEW n \in Names, Overwrite(n) PROVE TypeOK'
    <3>1. IsRegistry(mem')
      BY <2>14 DEF Overwrite, WrittenBack, TypeOK, IsRegistry, Entry
    <3> QED
      BY <2>14, <3>1 DEF Overwrite, TypeOK, fileVars, Jobs
  <2> QED
    BY <2>1, <2>2, <2>3, <2>4, <2>5, <2>6, <2>7, <2>8, <2>9, <2>10, <2>11, <2>12, <2>13,
       <2>14 DEF Next
<1> QED
  BY <1>1, <1>2, PTL DEF Spec

--------------------------------------------------------------------------------
(* Ids                                                                        *)

LEMMA IdsOf == ASSUME NEW r PROVE DOMAIN Ids(r) = DOMAIN r /\ \A n \in DOMAIN r : Ids(r)[n] = r[n].id
BY DEF Ids

LEMMA EmptyInjective == IsInjective(Ids(Empty)) /\ Running(Empty) = {} /\ DOMAIN Empty = {}
BY DEF Empty, Ids, IsInjective, Running

\* Starting again, stopping and writing back leave the ids alone.
LEMMA SameIds ==
  /\ \A n \in DOMAIN mem : Ids(Launched(n, mem[n].id)) = Ids(mem)
  /\ \A names, missed : Ids(StoppedRunners(names, missed)) = Ids(mem)
  /\ \A n \in DOMAIN mem : Ids(WrittenBack(n)) = Ids(mem)
<1>1. ASSUME NEW n \in DOMAIN mem PROVE Ids(Launched(n, mem[n].id)) = Ids(mem)
  <2>1. DOMAIN Launched(n, mem[n].id) = DOMAIN mem
    BY DEF Launched
  <2>2. \A k \in DOMAIN mem : Launched(n, mem[n].id)[k].id = mem[k].id
    BY DEF Launched
  <2> QED
    BY <2>1, <2>2 DEF Ids
<1>2. \A names, missed : Ids(StoppedRunners(names, missed)) = Ids(mem)
  BY DEF StoppedRunners, Ids
<1>3. ASSUME NEW n \in DOMAIN mem PROVE Ids(WrittenBack(n)) = Ids(mem)
  <2>1. DOMAIN WrittenBack(n) = DOMAIN mem
    BY DEF WrittenBack
  <2>2. \A k \in DOMAIN mem : WrittenBack(n)[k].id = mem[k].id
    BY DEF WrittenBack
  <2> QED
    BY <2>1, <2>2 DEF Ids
<1> QED
  BY <1>1, <1>2, <1>3

\* So does a stop.
LEMMA StopIds == ASSUME NEW names, StopThese(names) PROVE Ids(mem') = Ids(mem)
BY SameIds DEF StopThese

\* A new service takes an id nobody has.
LEMMA NewIdInjective ==
  ASSUME NEW n, n \notin DOMAIN mem, NEW i \in NextFreeID, IsInjective(Ids(mem))
  PROVE  IsInjective(Ids(Launched(n, i)))
<1>1. \A k \in DOMAIN mem : mem[k].id # i
  BY DEF NextFreeID
<1>2. DOMAIN Launched(n, i) = DOMAIN mem \cup {n}
  BY DEF Launched
<1>3. Launched(n, i)[n].id = i /\ \A k \in DOMAIN mem : Launched(n, i)[k] = mem[k]
  BY DEF Launched
<1>4. \A j, k \in DOMAIN mem : mem[j].id = mem[k].id => j = k
  BY IdsOf DEF IsInjective
<1> SUFFICES ASSUME NEW j \in DOMAIN mem \cup {n}, NEW k \in DOMAIN mem \cup {n},
                    Launched(n, i)[j].id = Launched(n, i)[k].id
             PROVE  j = k
  BY <1>2, IdsOf DEF IsInjective
<1> QED
  BY <1>1, <1>3, <1>4

\* Deleting a service takes its id out and nothing else.
LEMMA RestrictIds ==
  ASSUME NEW r, NEW T PROVE Ids(Restrict(r, DOMAIN r \ T)) = Restrict(Ids(r), DOMAIN Ids(r) \ T)
BY DEF Ids, Restrict

(* IdsUnique holds of every reachable state.                                  *)
THEOREM UniqueIds == Spec => []IdsUnique
<1>1. Init => IdsInv
  BY EmptyInjective DEF Init, IdsInv, Unreadable
<1>2. TypeOK /\ IdsInv /\ [Next]_vars => IdsInv'
  <2> SUFFICES ASSUME TypeOK, IdsInv, [Next]_vars, ~collided' PROVE IdsInv'
    BY DEF IdsInv
  <2> USE DEF IdsInv
  <2>0. ~collided => IsInjective(Ids(mem)) /\ IsInjective(Ids(stateFile.procs))
    OBVIOUS
  <2>1. CASE Boot
    BY <2>1, EmptyInjective DEF Boot, fileVars
  <2>2. CASE Crash \/ Exit
    BY <2>2, EmptyInjective DEF Crash, Exit, Ends
  <2>3. CASE StopAll
    BY <2>3, StopIds DEF StopAll, fileVars
  <2>4. ASSUME NEW w \in {"handler", "runner", "save"}, BeginWrite(w) PROVE IdsInv'
    BY <2>4, EmptyInjective DEF BeginWrite, Truncate, Unreadable
  <2>5. ASSUME NEW w \in {"handler", "runner", "save"}, EndWrite(w) PROVE IdsInv'
    BY <2>5 DEF EndWrite
  <2>6. ASSUME NEW n \in Names, Start(n) PROVE IdsInv'
    <3>1. ~collided /\ stateFile' = stateFile
      BY <2>6 DEF Start, Accept, fileVars
    <3>2. IsInjective(Ids(mem'))
      BY <2>6, <3>1, SameIds, NewIdInjective DEF Start
    <3> QED
      BY <3>1, <3>2
  <2>7. ASSUME NEW n \in Names, Restart(n) \/ Stop(n) \/ Overwrite(n) PROVE IdsInv'
    BY <2>7, SameIds, StopIds DEF Restart, Stop, Overwrite, Accept, fileVars
  <2>8. ASSUME NEW n \in Names, Delete(n) PROVE IdsInv'
    <3>1. ~collided /\ stateFile' = stateFile /\ mem' = Restrict(mem, DOMAIN mem \ {n})
      BY <2>8 DEF Delete, Accept, fileVars
    <3> DEFINE ids == Ids(mem)
    <3>2. Ids(mem') = Restrict(ids, DOMAIN ids \ {n})
      BY <3>1, RestrictIds
    <3>3. IsInjective(ids)
      BY <3>1
    <3> HIDE DEF ids
    <3>4. IsInjective(Restrict(ids, DOMAIN ids \ {n}))
      BY <3>3 DEF IsInjective, Restrict
    <3>5. IsInjective(Ids(mem'))
      BY <3>2, <3>4
    <3> QED
      BY <3>1, <3>5
  <2>9. CASE Save
    BY <2>9 DEF Save, Accept, fileVars
  <2>10. CASE Resurrect
    BY <2>10 DEF Resurrect, Accept, fileVars
  <2>11. CASE UNCHANGED vars
    BY <2>11 DEF vars, fileVars
  <2> QED
    BY <2>1, <2>2, <2>3, <2>4, <2>5, <2>6, <2>7, <2>8, <2>9, <2>10, <2>11 DEF Next
<1>3. IdsInv => IdsUnique
  BY DEF IdsInv, IdsUnique
<1> QED
  BY <1>1, <1>2, <1>3, TypeCorrect, PTL DEF Spec

--------------------------------------------------------------------------------
(* Durability                                                                 *)

\* A service registered or resurrected adds its id to the ids; a delete takes
\* one out: the same change the answer promises.
LEMMA LaunchedIds ==
  ASSUME NEW n, NEW i PROVE Ids(Launched(n, i)) = Named(Ids(mem), n, i)
BY DEF Ids, Launched, Named

LEMMA ResurrectedIds ==
  ASSUME NEW saved
  PROVE  Ids([n \in DOMAIN mem \cup DOMAIN saved |->
                IF n \in DOMAIN saved THEN [id |-> saved[n].id, live |-> "running"] ELSE mem[n]])
         = [n \in DOMAIN Ids(mem) \cup DOMAIN saved |->
              IF n \in DOMAIN saved THEN saved[n].id ELSE Ids(mem)[n]]
BY DEF Ids

(* RegistryDurable holds of every reachable state.                            *)
THEOREM Durable == Spec => []RegistryDurable
<1> DEFINE I == WriteInv /\ DurableInv
<1>1. Init => I
  BY DEF Init, WriteInv, DurableInv, Unreadable
<1>2. I /\ [Next]_vars => I'
  <2> SUFFICES ASSUME I, [Next]_vars PROVE WriteInv' /\ DurableInv'
    OBVIOUS
  <2> USE DEF WriteInv, DurableInv
  <2>1. CASE Boot
    BY <2>1 DEF Boot, fileVars
  <2>2. CASE Crash \/ Exit
    BY <2>2 DEF Crash, Exit, Ends
  <2>3. CASE StopAll
    BY <2>3, StopIds DEF StopAll, Writable, fileVars
  <2>4. ASSUME NEW w \in {"handler", "runner", "save"}, BeginWrite(w)
        PROVE  WriteInv' /\ DurableInv'
    BY <2>4 DEF BeginWrite, Truncate, Unreadable
  <2>5. ASSUME NEW w \in {"handler", "runner", "save"}, EndWrite(w)
        PROVE  WriteInv' /\ DurableInv'
    <3>1. CASE w = "runner"
      BY <2>5, <3>1 DEF EndWrite
    <3>2. CASE w = "handler"
      BY <2>5, <3>2 DEF EndWrite
    <3>3. CASE w = "save"
      BY <2>5, <3>3 DEF EndWrite
    <3> QED
      BY <3>1, <3>2, <3>3
  <2>6. ASSUME NEW n \in Names, Start(n) PROVE WriteInv' /\ DurableInv'
    <3>1. up /\ Ids(mem) = acked /\ want = acked
      BY <2>6 DEF Start, Accept
    <3>2. Ids(mem') = want'
      BY <2>6, <3>1, SameIds, LaunchedIds DEF Start
    <3>3. job' = "flush" /\ writing' = {} /\ stateFile' = stateFile /\ acked' = acked /\ up'
      BY <2>6 DEF Start, Accept, Writable, fileVars
    <3> QED
      BY <3>1, <3>2, <3>3
  <2>7. ASSUME NEW n \in Names, Restart(n) \/ Stop(n) \/ Overwrite(n)
        PROVE  WriteInv' /\ DurableInv'
    BY <2>7, SameIds, StopIds DEF Restart, Stop, Overwrite, Accept, Writable, fileVars
  <2>8. ASSUME NEW n \in Names, Delete(n) PROVE WriteInv' /\ DurableInv'
    <3>1. up /\ Ids(mem) = acked /\ want = acked
      BY <2>8 DEF Delete, Accept
    <3>2. Ids(mem') = want'
      BY <2>8, <3>1, RestrictIds DEF Delete
    <3>3. job' = "flush" /\ writing' = {} /\ stateFile' = stateFile /\ acked' = acked /\ up'
      BY <2>8 DEF Delete, Accept, Writable, fileVars
    <3> QED
      BY <3>1, <3>2, <3>3
  <2>9. CASE Save
    BY <2>9 DEF Save, Accept, Writable, fileVars
  <2>10. CASE Resurrect
    <3>1. up /\ Ids(mem) = acked /\ want = acked
      BY <2>10 DEF Resurrect, Accept
    <3> DEFINE saved == saveFile.procs
    <3>4. mem' = [n \in DOMAIN mem \cup DOMAIN saved |->
                   IF n \in DOMAIN saved THEN [id |-> saved[n].id, live |-> "running"] ELSE mem[n]]
      BY <2>10 DEF Resurrect
    <3>5. want' = [n \in DOMAIN acked \cup DOMAIN saved |->
                    IF n \in DOMAIN saved THEN saved[n].id ELSE acked[n]]
      BY <2>10 DEF Resurrect
    <3> HIDE DEF saved
    <3>6. Ids([n \in DOMAIN mem \cup DOMAIN saved |->
                 IF n \in DOMAIN saved THEN [id |-> saved[n].id, live |-> "running"] ELSE mem[n]])
          = [n \in DOMAIN Ids(mem) \cup DOMAIN saved |->
               IF n \in DOMAIN saved THEN saved[n].id ELSE Ids(mem)[n]]
      BY ResurrectedIds
    <3>2. Ids(mem') = want'
      BY <3>1, <3>4, <3>5, <3>6
    <3>3. job' = "flush" /\ writing' = {} /\ stateFile' = stateFile /\ acked' = acked /\ up'
      BY <2>10 DEF Resurrect, Accept, Writable, fileVars
    <3> QED
      BY <3>1, <3>2, <3>3
  <2>11. CASE UNCHANGED vars
    BY <2>11 DEF vars, fileVars
  <2> QED
    BY <2>1, <2>2, <2>3, <2>4, <2>5, <2>6, <2>7, <2>8, <2>9, <2>10, <2>11 DEF Next
<1>3. I => RegistryDurable
  BY DEF DurableInv, RegistryDurable
<1> QED
  BY <1>1, <1>2, <1>3, PTL DEF Spec

--------------------------------------------------------------------------------
(* What can be started                                                        *)

\* What still reads as running after a stop was not stopped, or has escaped it.
LEMMA StopRunning ==
  ASSUME NEW names, StopThese(names)
  PROVE  /\ Running(mem') \subseteq (Running(mem) \ names) \cup cut'
         /\ cut \ names \subseteq cut'
<1>1. PICK missed \in SUBSET (names \cap Running(mem)) :
        mem' = StoppedRunners(names, missed) /\ cut' = (cut \ names) \cup missed
  BY DEF StopThese
<1>2. Running(StoppedRunners(names, missed)) \subseteq (Running(mem) \ names) \cup missed
  BY DEF StoppedRunners, Running
<1> QED
  BY <1>1, <1>2

(* RefusedOnlyIfCut holds of every reachable state: a service that has no      *)
(* runner reads as running only if the last daemon was killed or an entry of   *)
(* the service escaped its stop.                                               *)
THEOREM Startable == Spec => []RefusedOnlyIfCut
<1> DEFINE I == WriteInv /\ CutInv
<1>1. Init => I
  BY EmptyInjective DEF Init, WriteInv, CutInv, Unreadable
<1>2. I /\ [Next]_vars => I'
  <2> SUFFICES ASSUME I, [Next]_vars PROVE WriteInv' /\ CutInv'
    OBVIOUS
  <2> USE DEF WriteInv, CutInv
  <2>1. CASE Boot
    <3>1. Running(mem') \subseteq cut'
      BY <2>1, EmptyInjective DEF Boot, Running
    <3> QED
      BY <2>1, <3>1 DEF Boot, fileVars
  <2>2. CASE Crash
    BY <2>2 DEF Crash, Ends
  <2>3. CASE Exit
    <3>1. stateFile.ok => Running(stateFile.procs) \subseteq cut
      BY <2>3 DEF Exit
    <3> QED
      BY <2>3, <3>1 DEF Exit, Ends
  <2>4. CASE StopAll
    <3>1. /\ Running(mem') \subseteq (Running(mem) \ runners) \cup cut'
          /\ cut \ runners \subseteq cut'
      BY <2>4, StopRunning DEF StopAll
    <3>2. Running(mem') \subseteq cut'
      BY <2>4, <3>1 DEF StopAll
    <3> QED
      BY <2>4, <3>2 DEF StopAll, Writable, fileVars
  <2>5. ASSUME NEW w \in {"handler", "runner", "save"}, BeginWrite(w)
        PROVE  WriteInv' /\ CutInv'
    BY <2>5 DEF BeginWrite, Truncate, Unreadable
  <2>6. ASSUME NEW w \in {"handler", "runner", "save"}, EndWrite(w)
        PROVE  WriteInv' /\ CutInv'
    <3>1. CASE w = "runner"
      BY <2>6, <3>1 DEF EndWrite
    <3>2. CASE w = "handler"
      BY <2>6, <3>2 DEF EndWrite
    <3>3. CASE w = "save"
      BY <2>6, <3>3 DEF EndWrite
    <3> QED
      BY <3>1, <3>2, <3>3
  <2>7. ASSUME NEW n \in Names, Start(n) \/ Restart(n) PROVE WriteInv' /\ CutInv'
    <3>1. PICK i : mem' = Launched(n, i)
      BY <2>7 DEF Start, Restart
    <3>2. Running(mem') \subseteq Running(mem) \cup {n}
      BY <3>1 DEF Launched, Running
    <3>3. runners' = runners \cup {n} /\ cut' = cut \ {n}
      BY <2>7 DEF Start, Restart
    <3>4. up /\ up' /\ job' = "flush" /\ writing' = {}
      BY <2>7 DEF Start, Restart, Accept, Writable, fileVars
    <3> QED
      BY <3>2, <3>3, <3>4
  <2>8. ASSUME NEW n \in Names, Stop(n) PROVE WriteInv' /\ CutInv'
    <3>1. n \in runners /\ Running(mem') \subseteq (Running(mem) \ {n}) \cup cut'
          /\ cut \ {n} \subseteq cut'
      BY <2>8, StopRunning DEF Stop
    <3>2. up /\ up' /\ job' = "flush" /\ writing' = {} /\ runners' = runners
      BY <2>8 DEF Stop, Accept, Writable, fileVars
    <3>3. Running(mem') \subseteq runners' \cup cut'
      BY <3>1, <3>2
    <3> QED
      BY <3>2, <3>3
  <2>9. ASSUME NEW n \in Names, Delete(n) PROVE WriteInv' /\ CutInv'
    <3>1. Running(mem') \subseteq Running(mem) \ {n}
      BY <2>9 DEF Delete, Restrict, Running
    <3> QED
      BY <2>9, <3>1 DEF Delete, Accept, Writable, fileVars
  <2>10. CASE Save
    BY <2>10 DEF Save, Accept, Writable, fileVars
  <2>11. CASE Resurrect
    <3> DEFINE S == DOMAIN saveFile.procs
    <3>1. Running(mem') \subseteq Running(mem) \cup S
      BY <2>11 DEF Resurrect, Running
    <3>2. runners' = runners \cup S /\ cut' = cut \ S
      BY <2>11 DEF Resurrect
    <3>3. up /\ up' /\ job' = "flush" /\ writing' = {}
      BY <2>11 DEF Resurrect, Accept, Writable, fileVars
    <3> QED
      BY <3>1, <3>2, <3>3
  <2>12. CASE UNCHANGED vars
    BY <2>12 DEF vars, fileVars
  <2>13. ASSUME NEW n \in Names, Overwrite(n) PROVE WriteInv' /\ CutInv'
    <3>1. Running(mem') \subseteq Running(mem) \cup {n}
      BY <2>13 DEF Overwrite, WrittenBack, Running
    <3>2. cut' = cut \cup {n} /\ up /\ up' /\ writing = {}
          /\ UNCHANGED <<runners, job, stateFile, writing>>
      BY <2>13 DEF Overwrite, Writable, fileVars
    <3> QED
      BY <3>1, <3>2
  <2> QED
    BY <2>1, <2>2, <2>3, <2>4, <2>5, <2>6, <2>7, <2>8, <2>9, <2>10, <2>11, <2>12, <2>13
       DEF Next
<1>3. I => RefusedOnlyIfCut
  BY DEF CutInv, RefusedOnlyIfCut, AnyRunning, Running
<1> QED
  BY <1>1, <1>2, <1>3, PTL DEF Spec
================================================================================
