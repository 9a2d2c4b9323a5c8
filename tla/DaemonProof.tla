------------------------------ MODULE DaemonProof ------------------------------
(******************************************************************************)
(* Proofs that a service is never in two rolling reloads at a time and that no *)
(* two of its runners share an index, for any number of connections, requests  *)
(* and reloads.                                                                *)
(******************************************************************************)
EXTENDS Daemon, SequenceTheorems, TLAPS

(* What the argument needs of the reloads' type.                              *)
RollsShape ==
  /\ Len(rolls) \in Nat
  /\ DOMAIN rolls = 1..Len(rolls)
  /\ \A k \in DOMAIN rolls : "at" \in DOMAIN rolls[k]

RInv == RollsShape /\ OneRolling

(* A reload that begins while none is under way is the only one.              *)
LEMMA Started ==
  ASSUME RInv, ~reloading, reloading' = TRUE,
         NEW roll, roll.at = "next", "at" \in DOMAIN roll,
         rolls' = Append(rolls, roll)
  PROVE  RInv'
  <1>1. Len(rolls') = Len(rolls) + 1 /\ DOMAIN rolls' = 1..(Len(rolls) + 1)
    BY DEF RInv, RollsShape
  <1>2. /\ \A k \in DOMAIN rolls : rolls'[k] = rolls[k]
        /\ rolls'[Len(rolls) + 1] = roll
    BY DEF RInv, RollsShape
  <1>3. RollsShape'
    BY <1>1, <1>2 DEF RInv, RollsShape
  <1>4. \A k \in DOMAIN rolls : rolls[k].at = "done"
    BY DEF RInv, OneRolling, Active
  <1>5. \A k \in DOMAIN rolls' : k \in DOMAIN rolls \/ k = Len(rolls) + 1
    BY <1>1 DEF RInv, RollsShape
  <1>6. \A k \in Active' : k = Len(rolls) + 1
    BY <1>2, <1>4, <1>5 DEF Active
  <1>7. Len(rolls) + 1 \in Active'
    BY <1>1, <1>2 DEF RInv, RollsShape, Active
  <1>8. OneRolling'
    BY <1>6, <1>7 DEF OneRolling
  <1>9. QED
    BY <1>3, <1>8 DEF RInv

(* A step of one reload that does not end it changes nothing for the others.  *)
LEMMA GoesOn ==
  ASSUME RInv, NEW k \in DOMAIN rolls, NEW roll, "at" \in DOMAIN roll,
         (roll.at = "done") <=> (rolls[k].at = "done"),
         rolls' = [rolls EXCEPT ![k] = roll], reloading' = reloading
  PROVE  RInv'
  <1>1. DOMAIN rolls' = DOMAIN rolls /\ Len(rolls') = Len(rolls)
    BY DEF RInv, RollsShape
  <1>2. \A j \in DOMAIN rolls :
          rolls'[j] = IF j = k THEN roll ELSE rolls[j]
    OBVIOUS
  <1>3. RollsShape'
    BY <1>1, <1>2 DEF RInv, RollsShape
  <1>4. Active' = Active
    BY <1>1, <1>2 DEF Active
  <1>5. QED
    BY <1>3, <1>4 DEF RInv, OneRolling

(* The last step of a reload leaves none.                                     *)
LEMMA Ended ==
  ASSUME RInv, NEW k \in DOMAIN rolls, rolls[k].at # "done",
         NEW roll, "at" \in DOMAIN roll, roll.at = "done",
         rolls' = [rolls EXCEPT ![k] = roll], reloading' = FALSE
  PROVE  RInv'
  <1>1. DOMAIN rolls' = DOMAIN rolls /\ Len(rolls') = Len(rolls)
    BY DEF RInv, RollsShape
  <1>2. \A j \in DOMAIN rolls :
          rolls'[j] = IF j = k THEN roll ELSE rolls[j]
    OBVIOUS
  <1>3. RollsShape'
    BY <1>1, <1>2 DEF RInv, RollsShape
  <1>4. \A j \in DOMAIN rolls : j = k \/ rolls[j].at = "done"
    BY DEF RInv, OneRolling, Active
  <1>5. Active' = {}
    BY <1>1, <1>2, <1>4 DEF Active
  <1>6. QED
    BY <1>3, <1>5 DEF RInv, OneRolling

(* What touches neither the reloads nor the flag keeps the invariant.         *)
LEMMA UntouchedInv == RInv /\ UNCHANGED reloadVars => RInv'
  BY DEF RInv, RollsShape, OneRolling, Active, reloadVars

(* Whoever asks for it, a reload begins only where none is under way.         *)
LEMMA ReloadInv ==
  ASSUME RInv, NEW c \in Clients, Reload(c)
  PROVE  RInv'
  <1>1. CASE ReloadPortless(c)
    BY <1>1, UntouchedInv DEF ReloadPortless
  <1>2. CASE ReloadStarts
    BY <1>2, UntouchedInv DEF ReloadStarts
  <1>3. CASE ReloadRolls
    <2>1. PICK t \in Sortings(Slice) :
            rolls' = Append(rolls, [at |-> "next", todo |-> t, new |-> 0,
                                    drains |-> {}, stopping |-> {}])
      BY <1>3 DEF ReloadRolls
    <2>2. ~reloading /\ reloading' = TRUE
      BY <1>3 DEF ReloadRolls, MayReload
    <2> DEFINE roll == [at |-> "next", todo |-> t, new |-> 0,
                        drains |-> {}, stopping |-> {}]
    <2>3. roll.at = "next" /\ "at" \in DOMAIN roll
      OBVIOUS
    <2>4. QED
      BY <2>1, <2>2, <2>3, Started
  <1>4. QED
    BY <1>1, <1>2, <1>3 DEF Reload

(* A step of a reload under way: it goes on, or it was the only one and ends. *)
LEMMA RollInv ==
  ASSUME RInv, NEW k \in DOMAIN rolls, Roll(k)
  PROVE  RInv'
  <1> "at" \in DOMAIN rolls[k]
    BY DEF RInv, RollsShape
  <1>1. CASE RollLaunch(k)
    <2> DEFINE roll == [[rolls[k] EXCEPT !.at = "probe"] EXCEPT !.new = Len(inst) + 1]
    <2>1. rolls' = [rolls EXCEPT ![k] = roll] /\ rolls[k].at = "next"
      BY <1>1 DEF RollLaunch
    <2>2. "at" \in DOMAIN roll /\ roll.at = "probe"
      OBVIOUS
    <2>3. reloading' = reloading
      BY <1>1 DEF RollLaunch
    <2>4. QED
      BY <2>1, <2>2, <2>3, GoesOn
  <1>2. CASE RollSwap(k)
    <2> DEFINE roll == [[[[rolls[k] EXCEPT !.at = "next"]
                           EXCEPT !.todo = Tail(@)] EXCEPT !.new = 0]
                           EXCEPT !.drains = @ \cup {Head(rolls[k].todo)}]
    <2>1. rolls' = [rolls EXCEPT ![k] = roll] /\ rolls[k].at = "probe"
      BY <1>2 DEF RollSwap
    <2>2. "at" \in DOMAIN roll /\ roll.at = "next"
      OBVIOUS
    <2>3. reloading' = reloading
      BY <1>2 DEF RollSwap
    <2>4. QED
      BY <2>1, <2>2, <2>3, GoesOn
  <1>3. CASE RollAbort(k)
    <2> DEFINE roll == [rolls[k] EXCEPT !.at = "abort"]
    <2>1. rolls' = [rolls EXCEPT ![k] = roll] /\ rolls[k].at = "probe"
      BY <1>3 DEF RollAbort
    <2>2. "at" \in DOMAIN roll /\ roll.at = "abort"
      OBVIOUS
    <2>3. reloading' = reloading
      BY <1>3 DEF RollAbort
    <2>4. QED
      BY <2>1, <2>2, <2>3, GoesOn
  <1>4. CASE RollAbortDone(k)
    <2> DEFINE roll == [[[rolls[k] EXCEPT !.at = "next"]
                           EXCEPT !.todo = <<>>] EXCEPT !.new = 0]
    <2>1. rolls' = [rolls EXCEPT ![k] = roll] /\ rolls[k].at = "abort"
      BY <1>4 DEF RollAbortDone
    <2>2. "at" \in DOMAIN roll /\ roll.at = "next"
      OBVIOUS
    <2>3. reloading' = reloading
      BY <1>4 DEF RollAbortDone
    <2>4. QED
      BY <2>1, <2>2, <2>3, GoesOn
  <1>5. CASE RollDone(k)
    <2> DEFINE roll == [rolls[k] EXCEPT !.at = "done"]
    <2>1. rolls' = [rolls EXCEPT ![k] = roll] /\ rolls[k].at = "next"
      BY <1>5 DEF RollDone
    <2>2. "at" \in DOMAIN roll /\ roll.at = "done"
      OBVIOUS
    <2>3. reloading' = FALSE
      BY <1>5 DEF RollDone
    <2>4. QED
      BY <2>1, <2>2, <2>3, Ended
  <1>6. ASSUME NEW old \in Runners, DrainTell(k, old) PROVE RInv'
    <2> DEFINE roll == [[rolls[k] EXCEPT !.drains = @ \ {old}]
                          EXCEPT !.stopping = @ \cup {old}]
    <2>1. rolls' = [rolls EXCEPT ![k] = roll]
      BY <1>6 DEF DrainTell
    <2>2. "at" \in DOMAIN roll /\ roll.at = rolls[k].at
      OBVIOUS
    <2>3. reloading' = reloading
      BY <1>6 DEF DrainTell
    <2>4. QED
      BY <2>1, <2>2, <2>3, GoesOn
  <1>7. ASSUME NEW old \in Runners, DrainDone(k, old) PROVE RInv'
    <2> DEFINE roll == [rolls[k] EXCEPT !.stopping = DoneWith(k, old)]
    <2>1. rolls' = [rolls EXCEPT ![k] = roll]
      BY <1>7 DEF DrainDone
    <2>2. "at" \in DOMAIN roll /\ roll.at = rolls[k].at
      OBVIOUS
    <2>3. reloading' = reloading
      BY <1>7 DEF DrainDone
    <2>4. QED
      BY <2>1, <2>2, <2>3, GoesOn
  <1>8. QED
    BY <1>1, <1>2, <1>3, <1>4, <1>5, <1>6, <1>7 DEF Roll

(* Every other step leaves the reloads and the flag alone.                    *)
LEMMA ServeInv ==
  ASSUME RInv, NEW c \in Clients, Serve(c)
  PROVE  RInv'
  <1>1. UNCHANGED reloadVars
    BY DEF Serve, TellStop, StopReturns, StopDone, RestartDone, DeleteDone,
           ScaleDownDone, ShutdownDone, reloadVars
  <1>2. QED
    BY <1>1, UntouchedInv

(* A request begins a reload or leaves the reloads alone.                     *)
LEMMA RequestInv ==
  ASSUME RInv, NEW c \in Clients, Request(c)
  PROVE  RInv'
  <1>1. CASE RequestReload(c)
    BY <1>1, ReloadInv DEF RequestReload
  <1>2. CASE Stop(c) \/ Restart(c) \/ Delete(c) \/ ScaleDown(c) \/ Shutdown(c)
    <2>1. UNCHANGED reloadVars
      BY <1>2 DEF Stop, Restart, Delete, ScaleDown, Shutdown, reloadVars
    <2>2. QED
      BY <2>1, UntouchedInv
  <1>3. QED
    BY <1>1, <1>2 DEF Request

(* Every step keeps the invariant.                                            *)
LEMMA StepInv == RInv /\ [Next]_vars => RInv'
  <1> SUFFICES ASSUME RInv, [Next]_vars PROVE RInv'
    OBVIOUS
  <1>1. CASE Start \/ Save \/ Resurrect \/ ScaleUp \/ WatcherFires \/ WatcherRefused
    <2>1. UNCHANGED reloadVars
      BY <1>1 DEF Start, Save, Resurrect, ScaleUp, WatcherFires, WatcherRefused,
                  reloadVars
    <2>2. QED
      BY <2>1, UntouchedInv
  <1>2. ASSUME NEW c \in Clients, Request(c) PROVE RInv'
    BY <1>2, RequestInv
  <1>3. ASSUME NEW c \in Clients, Serve(c) PROVE RInv'
    BY <1>3, ServeInv
  <1>4. ASSUME NEW c \in Clients, WatcherReloads(c) PROVE RInv'
    BY <1>4, ReloadInv DEF WatcherReloads
  <1>5. ASSUME NEW k \in DOMAIN rolls, Roll(k) PROVE RInv'
    BY <1>5, RollInv
  <1>6. ASSUME NEW r \in Runners, Report(r) PROVE RInv'
    BY <1>6, UntouchedInv DEF Report
  <1>7. CASE UNCHANGED vars
    BY <1>7, UntouchedInv DEF vars
  <1>8. QED
    BY <1>1, <1>2, <1>3, <1>4, <1>5, <1>6, <1>7 DEF Next

(* At first there is none.                                                    *)
LEMMA InitReloads == Init => RInv
  <1> SUFFICES ASSUME Init PROVE RInv
    OBVIOUS
  <1>1. rolls = <<>> /\ reloading = FALSE
    BY DEF Init
  <1>2. Len(rolls) = 0 /\ DOMAIN rolls = {} /\ 1..0 = {}
    BY <1>1
  <1>3. RollsShape
    BY <1>2 DEF RollsShape
  <1>4. OneRolling
    BY <1>1, <1>2 DEF OneRolling, Active
  <1> QED
    BY <1>3, <1>4 DEF RInv

(* A service is in one rolling reload at a time, and reloading says so, from   *)
(* the request until the last drain, whatever handlers overlap                 *)
(* (daemon.go:538-555, 570-576).                                               *)
THEOREM OneReload == SafeSpec => []OneRolling
  <1>1. RInv => OneRolling
    BY DEF RInv
  <1> QED
    BY <1>1, InitReloads, StepInv, PTL DEF SafeSpec

--------------------------------------------------------------------------------
(* Indices                                                                    *)

(* How many instances a request may launch.                                   *)
JobShape(j, S) ==
  /\ {"op", "i", "r", "p", "goal"} \subseteq DOMAIN j
  /\ j.op \in {"restart", "scale"} => j.p \in 1..Len(S)
  /\ j.op = "scale" => j.goal \in Counts

CountsInv ==
  /\ specs \in Seq(Counts)
  /\ svc \in 0..Len(specs)
  /\ saved \in Counts \cup {0}
  /\ "len" \in DOMAIN runners /\ runners.len \in Nat
  /\ DOMAIN job = Clients
  /\ \A c \in Clients : JobShape(job[c], specs)

(* Until a delete sets it back, nextIdx is beyond every index given.          *)
IndexInv ==
  /\ nextIdx \in Nat
  /\ Len(inst) \in Nat /\ inst = [r \in Runners |-> inst[r]]
  /\ \A r \in Runners : "idx" \in DOMAIN inst[r] /\ inst[r].idx \in Nat
  /\ "delete" \notin seen => \A r \in Runners : inst[r].idx < nextIdx
  /\ UniqueIndex

(* New runners take the next indices.                                         *)
LEMMA IndicesGiven ==
  ASSUME IndexInv, NEW k \in Nat, NEW slot, NewRunners(k, slot), seen \subseteq seen'
  PROVE  IndexInv'
  <1> DEFINE new == [j \in 1..k |-> [idx |-> nextIdx + j - 1, slot |-> slot + j - 1,
                                     stopped |-> FALSE, over |-> FALSE]]
  <1>1. inst' = inst \o new /\ nextIdx' = nextIdx + k
    BY DEF NewRunners
  <1>2. Len(new) = k /\ \A j \in 1..k : "idx" \in DOMAIN new[j] /\ new[j].idx = nextIdx + j - 1
    OBVIOUS
  <1> HIDE DEF new
  <1>3. /\ Len(inst') = Len(inst) + k /\ inst' = [r \in Runners' |-> inst'[r]]
        /\ \A r \in Runners : inst'[r] = inst[r]
        /\ \A j \in 1..k : inst'[Len(inst) + j] = new[j]
    <2> DEFINE S == {inst[r] : r \in Runners} \cup {new[j] : j \in 1..k}
    <2>1. inst \in [1..Len(inst) -> S]
      BY DEF IndexInv, Runners
    <2>2. new = [j \in 1..k |-> new[j]]
      BY DEF new
    <2>3. inst \in Seq(S) /\ new \in Seq(S)
      <3>1. new \in [1..k -> S]
        BY <2>2
      <3>2. Len(inst) \in Nat
        BY DEF IndexInv
      <3> QED
        BY <2>1, <3>1, <3>2, SeqDef
    <2> HIDE DEF S
    <2>4. /\ inst' \in Seq(S) /\ Len(inst') = Len(inst) + k
          /\ \A i \in 1..(Len(inst) + k) :
               inst'[i] = IF i <= Len(inst) THEN inst[i] ELSE new[i - Len(inst)]
      BY <1>1, <1>2, <2>3, ConcatProperties
    <2>5. inst' = [r \in Runners' |-> inst'[r]]
      BY <2>4 DEF Runners
    <2> QED
      BY <2>4, <2>5 DEF IndexInv, Runners
  <1>4. \A r \in Runners' : r \in Runners \/ \E j \in 1..k : r = Len(inst) + j
    <2> SUFFICES ASSUME NEW r \in Runners', r \notin Runners PROVE r - Len(inst) \in 1..k
      BY DEF IndexInv, Runners
    <2> QED
      BY <1>3 DEF IndexInv, Runners
  <1>5. \A r \in Runners : inst'[r] = inst[r] /\ inst[r].idx \in Nat
    BY <1>3 DEF IndexInv, Runners
  <1>6. \A r \in Runners' : "idx" \in DOMAIN inst'[r] /\ inst'[r].idx \in Nat
    BY <1>2, <1>3, <1>4, <1>5 DEF IndexInv
  <1>7. ASSUME "delete" \notin seen' PROVE \A r \in Runners' : inst'[r].idx < nextIdx'
    BY <1>1, <1>2, <1>3, <1>4, <1>5, <1>7 DEF IndexInv
  <1>8. ASSUME "delete" \notin seen', NEW q \in Runners', NEW r \in Runners',
               inst'[q].idx = inst'[r].idx
        PROVE  q = r
    <2>1. "delete" \notin seen
      BY <1>8
    <2>2. CASE q \in Runners /\ r \in Runners
      BY <1>5, <1>8, <2>1, <2>2 DEF IndexInv, UniqueIndex
    <2>3. ASSUME NEW x \in Runners, NEW j \in 1..k PROVE inst'[x].idx < inst'[Len(inst) + j].idx
      BY <1>2, <1>3, <1>5, <2>1, <2>3 DEF IndexInv
    <2>4. \A j \in 1..k : inst'[Len(inst) + j].idx = nextIdx + j - 1
      BY <1>2, <1>3
    <2> QED
      BY <1>4, <1>6, <1>8, <2>2, <2>3, <2>4 DEF IndexInv
  <1> QED
    <2>1. nextIdx' \in Nat /\ Len(inst') \in Nat
      BY <1>1, <1>3 DEF IndexInv
    <2>2. UniqueIndex'
      BY <1>8 DEF UniqueIndex
    <2> QED
      BY <1>3, <1>6, <1>7, <2>1, <2>2 DEF IndexInv

(* A runner that is told to stop, or has written its last entry, keeps its own. *)
LEMMA IndicesKept ==
  ASSUME IndexInv, inst' = [r \in Runners |-> inst'[r]], Len(inst') = Len(inst),
         nextIdx' = nextIdx, seen \subseteq seen',
         \A r \in Runners : "idx" \in DOMAIN inst'[r] /\ inst'[r].idx = inst[r].idx
  PROVE  IndexInv'
  <1>1. Runners' = Runners
    BY DEF Runners
  <1>2. \A r \in Runners' : "idx" \in DOMAIN inst'[r] /\ inst'[r].idx \in Nat
    BY <1>1 DEF IndexInv
  <1>3. "delete" \notin seen' => \A r \in Runners' : inst'[r].idx < nextIdx'
    BY <1>1 DEF IndexInv
  <1>4. UniqueIndex'
    BY <1>1 DEF IndexInv, UniqueIndex
  <1> QED
    BY <1>1, <1>2, <1>3, <1>4 DEF IndexInv

(* A step that rewrites one runner's record keeps the indices.                *)
LEMMA Marked ==
  ASSUME IndexInv, NEW r, NEW rec,
         r \in Runners => "idx" \in DOMAIN rec /\ rec.idx = inst[r].idx,
         inst' = [inst EXCEPT ![r] = rec], nextIdx' = nextIdx, seen \subseteq seen'
  PROVE  IndexInv'
  <1>1. CASE r \in Runners
    <2> DEFINE S == {inst[q] : q \in Runners} \cup {rec}
    <2>1. inst \in Seq(S)
      <3>1. inst \in [1..Len(inst) -> S]
        BY DEF IndexInv, Runners
      <3>2. Len(inst) \in Nat
        BY DEF IndexInv
      <3> QED
        BY <3>1, <3>2, SeqDef
    <2>2. rec \in S /\ r \in 1..Len(inst)
      BY <1>1 DEF Runners
    <2> HIDE DEF S
    <2>3. /\ Len(inst') = Len(inst)
          /\ inst' \in Seq(S)
          /\ \A q \in 1..Len(inst) : inst'[q] = IF q = r THEN rec ELSE inst[q]
      BY <2>1, <2>2, ExceptSeq
    <2>4. inst' = [q \in Runners |-> inst'[q]]
      <3>1. inst' \in [1..Len(inst') -> S]
        BY <2>3, LenProperties
      <3> QED
        BY <2>3, <3>1 DEF Runners
    <2>5. \A q \in Runners : "idx" \in DOMAIN inst'[q] /\ inst'[q].idx = inst[q].idx
      BY <1>1, <2>3 DEF IndexInv, Runners
    <2> QED
      BY <2>3, <2>4, <2>5, IndicesKept
  <1>2. CASE r \notin Runners
    <2>1. inst' = inst
      <3>1. inst = [q \in Runners |-> inst[q]]
        BY DEF IndexInv
      <3> QED
        BY <1>2, <3>1
    <2> QED
      BY <2>1, IndicesKept DEF IndexInv
  <1> QED
    BY <1>1, <1>2

(* Every step of a handler, a reload or the supervision keeps the indices.    *)
LEMMA StartIndices ==
  ASSUME IndexInv, NEW p, NEW n \in Nat, StartInstances(p, n), seen \subseteq seen'
  PROVE  IndexInv'
  BY IndicesGiven DEF StartInstances

(* So does one that leaves the runners and the counter alone.                 *)
LEMMA IndicesUntouched ==
  ASSUME IndexInv, UNCHANGED <<inst, nextIdx>>, seen \subseteq seen'
  PROVE  IndexInv'
  BY IndicesKept DEF IndexInv

(* The registered service has a count, and so has every Process.              *)
LEMMA SpecCounts ==
  CountsInv => /\ \A p \in 1..Len(specs) : specs[p] \in Counts /\ specs[p] \in Nat
               /\ svc # 0 => svc \in 1..Len(specs)
  <1> SUFFICES ASSUME CountsInv PROVE /\ \A p \in 1..Len(specs) : specs[p] \in Counts /\ specs[p] \in Nat
                                      /\ svc # 0 => svc \in 1..Len(specs)
    OBVIOUS
  <1>1. specs \in Seq(Counts) /\ svc \in 0..Len(specs)
    BY DEF CountsInv
  <1>2. \A p \in 1..Len(specs) : specs[p] \in Counts
    BY <1>1
  <1>3. \A n \in Counts : n \in Nat
    BY DaemonAssumption
  <1>4. svc # 0 => svc \in 1..Len(specs)
    BY <1>1
  <1> QED
    BY <1>2, <1>3, <1>4

(* A reload launches at most what the service has stored.                     *)
LEMMA ReloadIndices ==
  ASSUME CountsInv, IndexInv, NEW c, Reload(c), seen \subseteq seen'
  PROVE  IndexInv'
  <1>1. CASE ReloadPortless(c)
    BY <1>1, IndicesUntouched DEF ReloadPortless, runnerVars
  <1>2. CASE ReloadStarts
    <2>1. specs[svc] \in Nat
      BY SpecCounts DEF Reload
    <2> QED
      BY <1>2, <2>1, StartIndices DEF ReloadStarts
  <1>3. CASE ReloadRolls
    BY <1>3, IndicesUntouched DEF ReloadRolls, runnerVars
  <1> QED
    BY <1>1, <1>2, <1>3 DEF Reload

(* A delete sets the counter back, and the invariant says no more from then on. *)
LEMMA RequestIndices ==
  ASSUME CountsInv, IndexInv, NEW c \in Clients, Request(c)
  PROVE  IndexInv'
  <1>1. CASE Delete(c)
    <2>1. "delete" \in seen' /\ nextIdx' = 0 /\ inst' = inst
      BY <1>1 DEF Delete, Accept
    <2> QED
      BY <2>1 DEF IndexInv, UniqueIndex, Runners
  <1>2. CASE RequestReload(c)
    BY <1>2, ReloadIndices DEF RequestReload, Accept
  <1>3. CASE Stop(c) \/ Restart(c) \/ ScaleDown(c) \/ Shutdown(c)
    BY <1>3, IndicesUntouched
       DEF Stop, Restart, ScaleDown, Shutdown, Accept, runnerVars
  <1> QED
    BY <1>1, <1>2, <1>3 DEF Request

(* A handler going on: stops, and the fresh start that ends a restart.        *)
LEMMA ServeIndices ==
  ASSUME CountsInv, IndexInv, NEW c \in Clients, Serve(c)
  PROVE  IndexInv'
  <1>1. CASE TellStop(c)
    <2> DEFINE r == arrays[job[c].arr][job[c].i]
               rec == [inst[r] EXCEPT !.stopped = TRUE]
    <2>1. inst' = [inst EXCEPT ![r] = rec] /\ nextIdx' = nextIdx /\ seen' = seen
      BY <1>1 DEF TellStop, countVars
    <2>2. r \in Runners => "idx" \in DOMAIN rec /\ rec.idx = inst[r].idx
      BY DEF IndexInv
    <2> HIDE DEF r, rec
    <2> QED
      BY <2>1, <2>2, Marked
  <1>2. CASE RestartDone(c)
    <2>1. specs[job[c].p] \in Nat
      <3>1. job[c].p \in 1..Len(specs)
        BY <1>2 DEF RestartDone, Finishes, CountsInv, JobShape
      <3> QED
        BY <3>1, SpecCounts
    <2> QED
      BY <1>2, <2>1, StartIndices DEF RestartDone, countVars
  <1>3. CASE StopReturns(c) \/ StopDone(c) \/ DeleteDone(c) \/ ScaleDownDone(c)
               \/ ShutdownDone(c)
    BY <1>3, IndicesUntouched
       DEF StopReturns, StopDone, DeleteDone, ScaleDownDone, ShutdownDone,
           runnerVars, countVars
  <1> QED
    BY <1>1, <1>2, <1>3 DEF Serve

(* A rolling reload takes one index for each replacement.                     *)
LEMMA RollIndices ==
  ASSUME IndexInv, NEW k, Roll(k)
  PROVE  IndexInv'
  <1>1. CASE RollLaunch(k)
    BY <1>1, IndicesGiven DEF RollLaunch, countVars
  <1>2. CASE RollAbort(k)
    <2> DEFINE r == GivenUp(k)
               rec == [inst[r] EXCEPT !.stopped = TRUE]
    <2>1. inst' = [inst EXCEPT ![r] = rec] /\ nextIdx' = nextIdx /\ seen' = seen
      BY <1>2 DEF RollAbort, countVars
    <2>2. r \in Runners => "idx" \in DOMAIN rec /\ rec.idx = inst[r].idx
      BY DEF IndexInv
    <2> HIDE DEF r, rec
    <2> QED
      BY <2>1, <2>2, Marked
  <1>3. ASSUME NEW old \in Runners, DrainTell(k, old) PROVE IndexInv'
    <2> DEFINE rec == [inst[old] EXCEPT !.stopped = TRUE]
    <2>1. inst' = [inst EXCEPT ![old] = rec] /\ nextIdx' = nextIdx /\ seen' = seen
      BY <1>3 DEF DrainTell, countVars
    <2>2. "idx" \in DOMAIN rec /\ rec.idx = inst[old].idx
      BY DEF IndexInv
    <2> HIDE DEF rec
    <2> QED
      BY <2>1, <2>2, Marked
  <1>4. ASSUME NEW old \in Runners, DrainDone(k, old) PROVE IndexInv'
    BY <1>4, IndicesUntouched DEF DrainDone, runnerVars, countVars
  <1>5. CASE RollSwap(k) \/ RollAbortDone(k) \/ RollDone(k)
    BY <1>5, IndicesUntouched
       DEF RollSwap, RollAbortDone, RollDone, runnerVars, countVars
  <1> QED
    BY <1>1, <1>2, <1>3, <1>4, <1>5 DEF Roll

(* Every step keeps the indices.                                              *)
LEMMA StepIndices == CountsInv /\ IndexInv /\ [Next]_vars => IndexInv'
  <1> SUFFICES ASSUME CountsInv, IndexInv, [Next]_vars PROVE IndexInv'
    OBVIOUS
  <1>1. CASE Start
    <2>1. svc # 0 => specs[svc] \in Nat
      BY SpecCounts
    <2>2. \E p : \E n \in Nat : StartInstances(p, n)
      <3>1. CASE svc # 0 /\ StartInstances(svc, specs[svc])
        BY <2>1, <3>1
      <3>2. ASSUME NEW n \in Counts, StartInstances(Len(specs) + 1, n)
            PROVE  \E p : \E m \in Nat : StartInstances(p, m)
        BY <3>2, DaemonAssumption
      <3> QED
        BY <1>1, <3>1, <3>2 DEF Start
    <2>3. PICK p : \E n \in Nat : StartInstances(p, n)
      BY <2>2
    <2>4. PICK n \in Nat : StartInstances(p, n)
      BY <2>3
    <2> QED
      BY <1>1, <2>4, StartIndices DEF Start, Accept
  <1>2. CASE Resurrect
    <2>1. saved \in Nat
      BY DaemonAssumption DEF CountsInv
    <2> QED
      BY <1>2, <2>1, StartIndices DEF Resurrect, Accept
  <1>3. CASE ScaleUp
    <2>1. PICK n \in Counts : n - runners.len > 0 /\ NewRunners(n - runners.len, runners.len)
      BY <1>3 DEF ScaleUp
    <2>2. n - runners.len \in Nat
      BY <2>1, DaemonAssumption DEF CountsInv
    <2> QED
      BY <1>3, <2>1, <2>2, IndicesGiven DEF ScaleUp, Accept
  <1>4. CASE Save \/ WatcherFires \/ WatcherRefused
    BY <1>4, IndicesUntouched
       DEF Save, WatcherFires, WatcherRefused, Accept, runnerVars, countVars
  <1>5. ASSUME NEW c \in Clients, Request(c) PROVE IndexInv'
    BY <1>5, RequestIndices
  <1>6. ASSUME NEW c \in Clients, Serve(c) PROVE IndexInv'
    BY <1>6, ServeIndices
  <1>7. ASSUME NEW c \in Clients, WatcherReloads(c) PROVE IndexInv'
    BY <1>7, ReloadIndices DEF WatcherReloads, countVars
  <1>8. ASSUME NEW k \in DOMAIN rolls, Roll(k) PROVE IndexInv'
    BY <1>8, RollIndices
  <1>9. ASSUME NEW r \in Runners, Report(r) PROVE IndexInv'
    <2> DEFINE rec == [inst[r] EXCEPT !.over = inst[r].stopped]
    <2>1. inst' = [inst EXCEPT ![r] = rec] /\ nextIdx' = nextIdx /\ seen' = seen
      BY <1>9 DEF Report, countVars
    <2>2. "idx" \in DOMAIN rec /\ rec.idx = inst[r].idx
      BY DEF IndexInv
    <2> HIDE DEF rec
    <2> QED
      BY <2>1, <2>2, Marked
  <1>10. CASE UNCHANGED vars
    BY <1>10, IndicesUntouched DEF vars, runnerVars, countVars
  <1> QED
    BY <1>1, <1>2, <1>3, <1>4, <1>5, <1>6, <1>7, <1>8, <1>9, <1>10 DEF Next

(* What is stored, tracked and under way goes on counting instances.          *)
LengthKept == "len" \in DOMAIN runners /\ runners.len \in Nat
StoreKept == /\ specs \in Seq(Counts)
             /\ svc \in 0..Len(specs)
             /\ saved \in Counts \cup {0}

(* The jobs under way stay good while the Process objects only get more.      *)
LEMMA JobsGrow ==
  ASSUME CountsInv, StoreKept', LengthKept', Len(specs) <= Len(specs'), job' = job
  PROVE  CountsInv'
  <1>1. Len(specs) \in Nat /\ Len(specs') \in Nat
    BY DEF CountsInv, StoreKept
  <1>2. \A c \in Clients : JobShape(job'[c], specs')
    BY <1>1 DEF CountsInv, JobShape
  <1> QED
    BY <1>2 DEF CountsInv, StoreKept, LengthKept

(* One job is begun, moved on or ended.                                       *)
LEMMA JobSet ==
  ASSUME CountsInv, StoreKept', LengthKept', Len(specs) <= Len(specs'),
         NEW c \in Clients, NEW j, JobShape(j, specs'), job' = [job EXCEPT ![c] = j]
  PROVE  CountsInv'
  <1>1. Len(specs) \in Nat /\ Len(specs') \in Nat
    BY DEF CountsInv, StoreKept
  <1>2. DOMAIN job' = Clients
    BY DEF CountsInv
  <1>3. \A d \in Clients : job'[d] = IF d = c THEN j ELSE job[d]
    BY DEF CountsInv
  <1>4. \A d \in Clients : JobShape(job[d], specs')
    BY <1>1 DEF CountsInv, JobShape
  <1>5. \A d \in Clients : JobShape(job'[d], specs')
    BY <1>3, <1>4
  <1> QED
    BY <1>2, <1>5 DEF CountsInv, StoreKept, LengthKept

(* A step that leaves the store alone.                                        *)
LEMMA StoreStays == CountsInv /\ UNCHANGED <<svc, specs, saved>> =>
                      StoreKept' /\ Len(specs) <= Len(specs')
  <1> SUFFICES ASSUME CountsInv, UNCHANGED <<svc, specs, saved>>
               PROVE  StoreKept' /\ Len(specs) <= Len(specs')
    OBVIOUS
  <1>1. specs \in Seq(Counts)
    BY DEF CountsInv
  <1>2. Len(specs) \in Nat
    BY <1>1
  <1> QED
    BY <1>2 DEF CountsInv, StoreKept

(* A step that leaves the slice's header alone.                               *)
LEMMA LengthStays == CountsInv /\ UNCHANGED runners => LengthKept'
  BY DEF CountsInv, LengthKept

(* A step that leaves all of it alone.                                        *)
LEMMA CountsUntouched ==
  CountsInv /\ UNCHANGED <<svc, specs, saved, runners, job>> => CountsInv'
  BY StoreStays, LengthStays, JobsGrow

(* append makes the slice longer by what is appended.                         *)
LEMMA Appended ==
  ASSUME CountsInv, NEW R, Len(R) \in Nat, AppendRunners(R)
  PROVE  LengthKept'
  <1>1. runners.len + Len(R) \in Nat
    BY DEF CountsInv
  <1>2. \/ runners' = [runners EXCEPT !.len = runners.len + Len(R)]
        \/ runners' = [arr |-> Len(arrays) + 1, len |-> runners.len + Len(R)]
    BY DEF AppendRunners
  <1> QED
    BY <1>1, <1>2 DEF CountsInv, LengthKept

(* A fresh start of n instances.                                              *)
LEMMA StartCounts ==
  ASSUME CountsInv, NEW p, NEW n \in Nat, StartInstances(p, n), specs' \in Seq(Counts),
         Len(specs) <= Len(specs'), p \in 0..Len(specs'), saved' = saved
  PROVE  StoreKept' /\ LengthKept'
  <1>1. runners' = [arr |-> Len(arrays) + 1, len |-> n] /\ svc' = p
    BY DEF StartInstances
  <1> QED
    BY <1>1 DEF CountsInv, StoreKept, LengthKept

(* A new Process has a count.                                                 *)
LEMMA SpecAppended ==
  ASSUME CountsInv, NEW n \in Counts, specs' = Append(specs, n)
  PROVE  /\ specs' \in Seq(Counts) /\ Len(specs) <= Len(specs')
         /\ Len(specs) + 1 \in 0..Len(specs')
  <1>1. specs \in Seq(Counts)
    BY DEF CountsInv
  <1>2. Len(specs) \in Nat /\ Len(specs') = Len(specs) + 1 /\ specs' \in Seq(Counts)
    BY <1>1
  <1> QED
    BY <1>2

(* Scaling changes the count of one Process.                                  *)
LEMMA SpecSet ==
  ASSUME CountsInv, NEW p \in 1..Len(specs), NEW n \in Counts,
         specs' = [specs EXCEPT ![p] = n]
  PROVE  specs' \in Seq(Counts) /\ Len(specs') = Len(specs) /\ Len(specs) \in Nat
  <1>1. specs \in Seq(Counts)
    BY DEF CountsInv
  <1> QED
    BY <1>1, ExceptSeq

(* A handler that begins to stop runners does it for the service there is.    *)
LEMMA LoopCounts ==
  ASSUME CountsInv, NEW c \in Clients, NEW op, op # "scale", op = "restart" => svc # 0,
         Loop(c, op), UNCHANGED <<svc, specs, saved>>, LengthKept'
  PROVE  CountsInv'
  <1>1. job' = [job EXCEPT ![c] = Job(op, 1, 0)]
    BY DEF Loop
  <1>2. JobShape(Job(op, 1, 0), specs')
    BY SpecCounts DEF JobShape, Job
  <1> HIDE DEF Job
  <1> QED
    BY <1>1, <1>2, StoreStays, JobSet

(* A reload, whoever asks for it.                                             *)
LEMMA ReloadCounts ==
  ASSUME CountsInv, NEW c \in Clients, Reload(c)
  PROVE  CountsInv'
  <1> svc # 0
    BY DEF Reload
  <1>1. CASE ReloadPortless(c)
    BY <1>1, LoopCounts, LengthStays DEF ReloadPortless, storeVars, runnerVars
  <1>2. CASE ReloadStarts
    <2>1. specs[svc] \in Nat /\ svc \in 0..Len(specs) /\ specs \in Seq(Counts)
      BY SpecCounts DEF CountsInv
    <2>2. Len(specs) <= Len(specs)
      BY <2>1
    <2>3. StartInstances(svc, specs[svc]) /\ UNCHANGED <<specs, saved, job>>
      BY <1>2 DEF ReloadStarts
    <2>4. StoreKept' /\ LengthKept'
      BY <2>1, <2>2, <2>3, StartCounts
    <2> QED
      BY <2>2, <2>3, <2>4, JobsGrow
  <1>3. CASE ReloadRolls
    BY <1>3, CountsUntouched DEF ReloadRolls, storeVars, runnerVars
  <1> QED
    BY <1>1, <1>2, <1>3 DEF Reload

(* A request that begins to stop runners.                                     *)
LEMMA RequestCounts ==
  ASSUME CountsInv, NEW c \in Clients, Request(c)
  PROVE  CountsInv'
  <1>1. CASE Stop(c)
    BY <1>1, LoopCounts, LengthStays DEF Stop, storeVars, runnerVars
  <1>2. CASE Restart(c)
    BY <1>2, LoopCounts, LengthStays DEF Restart, storeVars, runnerVars
  <1>3. CASE Delete(c)
    <2>1. LengthKept'
      BY <1>3 DEF Delete, NoRunners, LengthKept
    <2>2. UNCHANGED <<svc, specs, saved>>
      BY <1>3 DEF Delete, storeVars
    <2>3. CASE svc = 0
      BY <1>3, <2>1, <2>2, <2>3, StoreStays, JobsGrow DEF Delete
    <2>4. CASE svc # 0
      BY <1>3, <2>1, <2>2, <2>4, LoopCounts DEF Delete
    <2> QED
      BY <2>3, <2>4
  <1>4. CASE ScaleDown(c)
    <2>1. PICK n \in Counts : job' = [job EXCEPT ![c] = Job("scale", n + 1, n)]
      BY <1>4 DEF ScaleDown
    <2>2. UNCHANGED <<svc, specs, saved, runners>> /\ svc # 0
      BY <1>4 DEF ScaleDown, storeVars
    <2>3. JobShape(Job("scale", n + 1, n), specs')
      BY <2>2, SpecCounts DEF JobShape, Job
    <2> QED
      BY <2>1, <2>2, <2>3, StoreStays, LengthStays, JobSet
  <1>5. CASE Shutdown(c)
    BY <1>5, LoopCounts, LengthStays DEF Shutdown, storeVars, runnerVars
  <1>6. CASE RequestReload(c)
    BY <1>6, ReloadCounts DEF RequestReload
  <1> QED
    BY <1>1, <1>2, <1>3, <1>4, <1>5, <1>6 DEF Request

(* A handler that is done.                                                    *)
LEMMA FinishCounts ==
  ASSUME CountsInv, NEW c \in Clients, NEW op, Finishes(c, op), StoreKept',
         LengthKept', Len(specs) <= Len(specs')
  PROVE  CountsInv'
  <1>1. JobShape(NoJob, specs')
    BY DEF JobShape, NoJob
  <1> QED
    BY <1>1, JobSet DEF Finishes

(* The steps of a handler under way.                                          *)
LEMMA ServeCounts ==
  ASSUME CountsInv, NEW c \in Clients, Serve(c)
  PROVE  CountsInv'
  <1>0. JobShape(job[c], specs)
    BY DEF CountsInv
  <1>1. CASE TellStop(c)
    <2> DEFINE j == [job[c] EXCEPT !.r = arrays[job[c].arr][job[c].i]]
    <2>1. job' = [job EXCEPT ![c] = j] /\ UNCHANGED <<svc, specs, saved, runners>>
      BY <1>1 DEF TellStop, storeVars
    <2>2. JobShape(j, specs')
      BY <1>0, <2>1 DEF JobShape
    <2> HIDE DEF j
    <2> QED
      BY <2>1, <2>2, StoreStays, LengthStays, JobSet
  <1>2. CASE StopReturns(c)
    <2> DEFINE j == [[job[c] EXCEPT !.r = 0] EXCEPT !.i = job[c].i + 1]
    <2>1. job' = [job EXCEPT ![c] = j] /\ UNCHANGED <<svc, specs, saved, runners>>
      BY <1>2 DEF StopReturns, runnerVars
    <2>2. JobShape(j, specs')
      BY <1>0, <2>1 DEF JobShape
    <2> HIDE DEF j
    <2> QED
      BY <2>1, <2>2, StoreStays, LengthStays, JobSet
  <1>3. CASE StopDone(c)
    BY <1>3, FinishCounts, StoreStays, LengthStays DEF StopDone, storeVars, runnerVars
  <1>4. CASE RestartDone(c)
    <2>1. job[c].p \in 1..Len(specs)
      BY <1>0, <1>4 DEF RestartDone, Finishes, JobShape
    <2>2. specs[job[c].p] \in Nat /\ specs \in Seq(Counts)
      BY <2>1, SpecCounts DEF CountsInv
    <2>3. job[c].p \in 0..Len(specs) /\ Len(specs) <= Len(specs)
      BY <2>1, <2>2
    <2>4. StartInstances(job[c].p, specs[job[c].p]) /\ UNCHANGED <<specs, saved>>
      BY <1>4 DEF RestartDone
    <2>5. StoreKept' /\ LengthKept'
      BY <2>2, <2>3, <2>4, StartCounts
    <2> QED
      BY <1>4, <2>3, <2>4, <2>5, FinishCounts DEF RestartDone
  <1>5. CASE DeleteDone(c)
    <2>1. UNCHANGED <<specs, saved, runners>> /\ svc' = 0
      BY <1>5 DEF DeleteDone, runnerVars
    <2>2. specs \in Seq(Counts) /\ Len(specs) \in Nat
      BY DEF CountsInv
    <2>3. StoreKept' /\ Len(specs) <= Len(specs')
      BY <2>1, <2>2 DEF CountsInv, StoreKept
    <2> QED
      BY <1>5, <2>1, <2>3, FinishCounts, LengthStays DEF DeleteDone
  <1>6. CASE ScaleDownDone(c)
    <2>1. job[c].p \in 1..Len(specs) /\ job[c].goal \in Counts
      BY <1>0, <1>6 DEF ScaleDownDone, Finishes, JobShape
    <2>2. /\ specs' = [specs EXCEPT ![job[c].p] = job[c].goal]
          /\ svc' = job[c].p /\ saved' = saved
          /\ runners' = [runners EXCEPT !.len = job[c].goal]
      BY <1>6 DEF ScaleDownDone
    <2>3. specs' \in Seq(Counts) /\ Len(specs') = Len(specs) /\ Len(specs) \in Nat
      BY <2>1, <2>2, SpecSet
    <2>4. StoreKept' /\ Len(specs) <= Len(specs')
      BY <2>1, <2>2, <2>3 DEF CountsInv, StoreKept
    <2>5. LengthKept'
      BY <2>1, <2>2, DaemonAssumption DEF CountsInv, LengthKept
    <2> QED
      BY <1>6, <2>4, <2>5, FinishCounts DEF ScaleDownDone
  <1>7. CASE ShutdownDone(c)
    BY <1>7, FinishCounts, StoreStays, LengthStays
       DEF ShutdownDone, storeVars, runnerVars
  <1> QED
    BY <1>1, <1>2, <1>3, <1>4, <1>5, <1>6, <1>7 DEF Serve

(* The steps of a rolling reload.                                             *)
LEMMA RollCounts ==
  ASSUME CountsInv, NEW k, Roll(k)
  PROVE  CountsInv'
  <1>1. CASE RollSwap(k)
    <2>1. UNCHANGED <<svc, specs, saved, job>>
      BY <1>1 DEF RollSwap, storeVars
    <2>2. \/ UNCHANGED runners
          \/ AppendRunners(<<rolls[k].new>>)
      BY <1>1 DEF RollSwap, Replace
    <2>3. LengthKept'
      <3>1. Len(<<rolls[k].new>>) \in Nat
        OBVIOUS
      <3> QED
        BY <2>2, <3>1, Appended, LengthStays
    <2> QED
      BY <2>1, <2>3, StoreStays, JobsGrow
  <1>2. CASE RollLaunch(k) \/ RollAbort(k) \/ RollAbortDone(k) \/ RollDone(k)
               \/ \E old \in Runners : DrainTell(k, old) \/ DrainDone(k, old)
    BY <1>2, CountsUntouched
       DEF RollLaunch, RollAbort, RollAbortDone, RollDone, DrainTell, DrainDone,
           storeVars, runnerVars
  <1> QED
    BY <1>1, <1>2 DEF Roll

(* Every step keeps the counts.                                               *)
LEMMA StepCounts == CountsInv /\ [Next]_vars => CountsInv'
  <1> SUFFICES ASSUME CountsInv, [Next]_vars PROVE CountsInv'
    OBVIOUS
  <1>0. specs \in Seq(Counts) /\ Len(specs) \in Nat /\ svc \in 0..Len(specs)
    BY DEF CountsInv
  <1>1. CASE Start
    <2>1. CASE svc # 0 /\ StartInstances(svc, specs[svc]) /\ UNCHANGED specs
      <3>1. specs[svc] \in Nat
        BY <2>1, SpecCounts
      <3>2. StoreKept' /\ LengthKept'
        BY <1>0, <1>1, <2>1, <3>1, StartCounts DEF Start
      <3> QED
        BY <1>0, <1>1, <2>1, <3>2, JobsGrow DEF Start
    <2>2. ASSUME NEW n \in Counts, specs' = Append(specs, n),
                 StartInstances(Len(specs) + 1, n)
          PROVE  CountsInv'
      <3>1. n \in Nat
        BY DaemonAssumption
      <3>2. /\ specs' \in Seq(Counts) /\ Len(specs) <= Len(specs')
            /\ Len(specs) + 1 \in 0..Len(specs')
        BY <2>2, SpecAppended
      <3>3. StoreKept' /\ LengthKept'
        BY <1>1, <2>2, <3>1, <3>2, StartCounts DEF Start
      <3> QED
        BY <1>1, <3>2, <3>3, JobsGrow DEF Start
    <2> QED
      BY <1>1, <2>1, <2>2 DEF Start
  <1>2. CASE Save
    <2>1. saved' \in Counts \cup {0}
      BY <1>2, SpecCounts DEF Save
    <2>2. UNCHANGED <<svc, specs, runners, job>>
      BY <1>2 DEF Save, runnerVars
    <2>3. StoreKept' /\ Len(specs) <= Len(specs')
      BY <1>0, <2>1, <2>2 DEF StoreKept
    <2> QED
      BY <2>2, <2>3, LengthStays, JobsGrow
  <1>3. CASE Resurrect
    <2>1. saved \in Counts /\ saved \in Nat
      BY <1>3, DaemonAssumption DEF CountsInv, Resurrect
    <2>2. /\ specs' \in Seq(Counts) /\ Len(specs) <= Len(specs')
          /\ Len(specs) + 1 \in 0..Len(specs')
      BY <1>3, <2>1, SpecAppended DEF Resurrect
    <2>3. StoreKept' /\ LengthKept'
      BY <1>3, <2>1, <2>2, StartCounts DEF Resurrect
    <2> QED
      BY <1>3, <2>2, <2>3, JobsGrow DEF Resurrect
  <1>4. CASE ScaleUp
    <2>1. PICK n \in Counts :
            /\ n - runners.len > 0
            /\ AppendRunners(NewIds(n - runners.len))
            /\ specs' = [specs EXCEPT ![svc] = n]
      BY <1>4 DEF ScaleUp
    <2>2. n - runners.len \in Nat
      BY <2>1, DaemonAssumption DEF CountsInv
    <2>3. Len(NewIds(n - runners.len)) \in Nat
      BY <2>2 DEF NewIds
    <2>4. LengthKept'
      BY <2>1, <2>3, Appended
    <2>5. svc \in 1..Len(specs)
      BY <1>4, SpecCounts DEF ScaleUp
    <2>6. specs' \in Seq(Counts) /\ Len(specs') = Len(specs)
      BY <2>1, <2>5, SpecSet
    <2>7. StoreKept' /\ Len(specs) <= Len(specs')
      BY <1>0, <1>4, <2>6 DEF ScaleUp, CountsInv, StoreKept
    <2> QED
      BY <1>4, <2>4, <2>7, JobsGrow DEF ScaleUp
  <1>5. CASE WatcherFires \/ WatcherRefused
    BY <1>5, CountsUntouched DEF WatcherFires, WatcherRefused, storeVars, runnerVars
  <1>6. ASSUME NEW c \in Clients, Request(c) PROVE CountsInv'
    BY <1>6, RequestCounts
  <1>7. ASSUME NEW c \in Clients, Serve(c) PROVE CountsInv'
    BY <1>7, ServeCounts
  <1>8. ASSUME NEW c \in Clients, WatcherReloads(c) PROVE CountsInv'
    BY <1>8, ReloadCounts DEF WatcherReloads
  <1>9. ASSUME NEW k \in DOMAIN rolls, Roll(k) PROVE CountsInv'
    BY <1>9, RollCounts
  <1>10. ASSUME NEW r \in Runners, Report(r) PROVE CountsInv'
    BY <1>10, CountsUntouched DEF Report
  <1>11. CASE UNCHANGED vars
    BY <1>11, CountsUntouched DEF vars, storeVars, runnerVars
  <1> QED
    BY <1>1, <1>2, <1>3, <1>4, <1>5, <1>6, <1>7, <1>8, <1>9, <1>10, <1>11 DEF Next

(* At first there is no runner.                                               *)
LEMMA InitIndices == Init => CountsInv /\ IndexInv
  <1> SUFFICES ASSUME Init PROVE CountsInv /\ IndexInv
    OBVIOUS
  <1>1. Len(specs) = 0 /\ specs \in Seq(Counts) /\ Len(inst) = 0 /\ Runners = {}
    BY DEF Init, Runners
  <1>2. \A c \in Clients : JobShape(job[c], specs)
    BY DEF Init, JobShape, NoJob
  <1>3. CountsInv
    BY <1>1, <1>2 DEF Init, CountsInv
  <1>4. inst = [r \in Runners |-> inst[r]]
    BY <1>1 DEF Init
  <1>5. IndexInv
    BY <1>1, <1>4 DEF Init, IndexInv, UniqueIndex
  <1> QED
    BY <1>3, <1>5

(* No two runners are ever given the same index, whatever handlers and reloads *)
(* overlap, until a delete sets the counter back (daemon.go:894-900).          *)
THEOREM UniqueIndexes == SafeSpec => []UniqueIndex
  <1>1. IndexInv => UniqueIndex
    BY DEF IndexInv
  <1>2. CountsInv /\ IndexInv /\ [Next]_vars => (CountsInv /\ IndexInv)'
    BY StepCounts, StepIndices
  <1> QED
    BY InitIndices, <1>1, <1>2, PTL DEF SafeSpec
===============================================================================
