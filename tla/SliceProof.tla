------------------------------ MODULE SliceProof ------------------------------
(******************************************************************************)
(* Proofs about the slice of runners that the handlers, the reloads and the    *)
(* proxy of a service share: Service.runners of daemon.go, its backing arrays, *)
(* and the entries that each runner keeps in the store.                        *)
(*                                                                             *)
(* Base is inductive alone: types, a runner behind every position of every     *)
(* slice header, one scaling at a time, what each stage of a reload may hold.  *)
(* To it are added, each in a section that ends in its theorem:                *)
(*   ProxyInv             the proxy forwards to the tracked runners            *)
(*   SeenInv, ScaleInv    what was requested, what a scale-down has stopped    *)
(*   LostInv              a running instance has somebody to stop it           *)
(*   SlotsInv, HoldInv    the slots of the tracked runners; what a reload      *)
(*   ServedInv            holds is its own; who stands for a slot meanwhile    *)
(*   IdleInv, ListedInv   an entry for every runner kept, a reason for every   *)
(*                        entry                                                *)
(******************************************************************************)
EXTENDS DaemonProof, FiniteSetTheorems

RunnerRec == [idx : Nat, slot : Nat, stopped : BOOLEAN, over : BOOLEAN]

RunnerTypes == inst \in Seq(RunnerRec) /\ nextIdx \in Nat

SliceTypes == /\ arrays \in Seq(Seq(0..Len(inst)))
              /\ runners \in [arr : 0..Len(arrays), len : Nat]

(* A slice header within its array, with a runner at every position.          *)
Header(a, n) ==
  /\ a \in 0..Len(arrays) /\ n \in Nat
  /\ a = 0 => n = 0
  /\ a # 0 => n <= Len(arrays[a])
  /\ \A i \in 1..n : arrays[a][i] # 0

TrackedHeader == Header(runners.arr, runners.len)

(* No runner goes away, changes its index or slot, or is started again.       *)
InstGrows ==
  /\ Len(inst) <= Len(inst')
  /\ \A r \in Runners :
       /\ inst'[r].idx = inst[r].idx /\ inst'[r].slot = inst[r].slot
       /\ inst[r].stopped => inst'[r].stopped
       /\ inst[r].over => inst'[r].over

(* No array goes away, and no position that named a runner loses it for none. *)
ArraysGrow ==
  /\ Len(arrays) <= Len(arrays')
  /\ \A a \in 1..Len(arrays) :
       /\ Len(arrays'[a]) = Len(arrays[a])
       /\ \A i \in 1..Len(arrays[a]) : arrays[a][i] # 0 => arrays'[a][i] # 0

--------------------------------------------------------------------------------
(* Runners                                                                    *)

(* What a runner is made of.                                                  *)
LEMMA RunnerFields ==
  ASSUME RunnerTypes
  PROVE  /\ Len(inst) \in Nat /\ inst \in [Runners -> RunnerRec]
         /\ \A r \in Runners : /\ inst[r] \in RunnerRec
                               /\ inst[r].idx \in Nat /\ inst[r].slot \in Nat
                               /\ inst[r].stopped \in BOOLEAN /\ inst[r].over \in BOOLEAN
  <1>1. Len(inst) \in Nat /\ inst \in [Runners -> RunnerRec]
    BY LenProperties DEF RunnerTypes, Runners
  <1> QED
    BY <1>1 DEF RunnerRec

(* New runners come behind the ones there are.                                *)
LEMMA RunnersAdded ==
  ASSUME RunnerTypes, NEW k \in Nat, NEW slot \in Nat, NewRunners(k, slot)
  PROVE  /\ RunnerTypes' /\ InstGrows
         /\ Len(inst') = Len(inst) + k
         /\ \A r \in Runners : inst'[r] = inst[r]
         /\ \A j \in 1..k : inst'[Len(inst) + j] =
                              [idx |-> nextIdx + j - 1, slot |-> slot + j - 1,
                               stopped |-> FALSE, over |-> FALSE]
  <1> DEFINE e(j) == [idx |-> nextIdx + j - 1, slot |-> slot + j - 1,
                      stopped |-> FALSE, over |-> FALSE]
             new == [j \in 1..k |-> e(j)]
  <1>1. inst' = inst \o new /\ nextIdx' = nextIdx + k
    BY DEF NewRunners
  <1>2. \A j \in 1..k : e(j) \in RunnerRec
    BY DEF RunnerTypes, RunnerRec
  <1>3. new \in Seq(RunnerRec) /\ Len(new) = k /\ \A j \in 1..k : new[j] = e(j)
    <2>1. new \in [1..k -> RunnerRec]
      BY <1>2
    <2> QED
      BY <2>1, SeqDef
  <1> HIDE DEF e
  <1> HIDE DEF new
  <1>4. /\ inst' \in Seq(RunnerRec) /\ Len(inst') = Len(inst) + k
        /\ \A i \in 1..(Len(inst) + k) :
             inst'[i] = IF i <= Len(inst) THEN inst[i] ELSE new[i - Len(inst)]
    BY <1>1, <1>3, ConcatProperties DEF RunnerTypes
  <1>5. Len(inst) \in Nat
    BY LenProperties DEF RunnerTypes
  <1>6. \A r \in Runners : inst'[r] = inst[r]
    BY <1>4, <1>5 DEF Runners
  <1>7. \A j \in 1..k : inst'[Len(inst) + j] = e(j)
    BY <1>3, <1>4, <1>5
  <1>8. RunnerTypes'
    BY <1>1, <1>4 DEF RunnerTypes
  <1>9. InstGrows
    BY <1>4, <1>5, <1>6 DEF InstGrows
  <1> QED
    BY <1>4, <1>6, <1>7, <1>8, <1>9 DEF e

(* A runner is told to stop or has written its last entry.                    *)
LEMMA RunnerMarked ==
  ASSUME RunnerTypes, NEW r \in Runners, NEW rec \in RunnerRec,
         rec.idx = inst[r].idx, rec.slot = inst[r].slot,
         inst[r].stopped => rec.stopped, inst[r].over => rec.over,
         inst' = [inst EXCEPT ![r] = rec], nextIdx' = nextIdx
  PROVE  /\ RunnerTypes' /\ InstGrows
         /\ Len(inst') = Len(inst)
         /\ \A q \in Runners : inst'[q] = IF q = r THEN rec ELSE inst[q]
  <1>1. r \in 1..Len(inst) /\ Len(inst) \in Nat
    BY RunnerFields DEF Runners
  <1>2. /\ inst' \in Seq(RunnerRec) /\ Len(inst') = Len(inst)
        /\ \A q \in 1..Len(inst) : inst'[q] = IF q = r THEN rec ELSE inst[q]
    BY <1>1, ExceptSeq DEF RunnerTypes
  <1>3. RunnerTypes'
    BY <1>2 DEF RunnerTypes
  <1>4. InstGrows
    BY <1>1, <1>2 DEF InstGrows, Runners
  <1> QED
    BY <1>2, <1>3, <1>4 DEF Runners

(* Stop marks the runner stopped and nothing else.                            *)
LEMMA RunnerStopped ==
  ASSUME RunnerTypes, NEW r \in Runners,
         inst' = [inst EXCEPT ![r].stopped = TRUE], nextIdx' = nextIdx
  PROVE  /\ RunnerTypes' /\ InstGrows
         /\ Len(inst') = Len(inst)
         /\ inst'[r].stopped
         /\ \A q \in Runners : q # r => inst'[q] = inst[q]
         /\ \A q \in Runners : inst'[q].over = inst[q].over
  <1> DEFINE rec == [inst[r] EXCEPT !.stopped = TRUE]
  <1>1. inst[r] \in RunnerRec
    BY RunnerFields
  <1>2. /\ rec \in RunnerRec /\ rec.idx = inst[r].idx /\ rec.slot = inst[r].slot
        /\ rec.stopped /\ rec.over = inst[r].over
    BY <1>1 DEF RunnerRec
  <1>3. inst' = [inst EXCEPT ![r] = rec]
    OBVIOUS
  <1> HIDE DEF rec
  <1>4. /\ RunnerTypes' /\ InstGrows /\ Len(inst') = Len(inst)
        /\ \A q \in Runners : inst'[q] = IF q = r THEN rec ELSE inst[q]
    BY <1>2, <1>3, RunnerMarked
  <1> QED
    BY <1>2, <1>4

(* The last report of a stopped runner marks it over.                         *)
LEMMA RunnerReported ==
  ASSUME RunnerTypes, NEW r \in Runners, ~inst[r].over,
         inst' = [inst EXCEPT ![r].over = inst[r].stopped], nextIdx' = nextIdx
  PROVE  /\ RunnerTypes' /\ InstGrows
         /\ Len(inst') = Len(inst)
         /\ inst'[r].over <=> inst[r].stopped
         /\ \A q \in Runners : q # r => inst'[q] = inst[q]
         /\ \A q \in Runners : inst'[q].stopped = inst[q].stopped
  <1> DEFINE rec == [inst[r] EXCEPT !.over = inst[r].stopped]
  <1>1. inst[r] \in RunnerRec /\ inst[r].stopped \in BOOLEAN
    BY RunnerFields
  <1>2. /\ rec \in RunnerRec /\ rec.idx = inst[r].idx /\ rec.slot = inst[r].slot
        /\ rec.stopped = inst[r].stopped /\ (rec.over <=> inst[r].stopped)
    BY <1>1 DEF RunnerRec
  <1>3. inst' = [inst EXCEPT ![r] = rec]
    OBVIOUS
  <1> HIDE DEF rec
  <1>4. /\ RunnerTypes' /\ InstGrows /\ Len(inst') = Len(inst)
        /\ \A q \in Runners : inst'[q] = IF q = r THEN rec ELSE inst[q]
    BY <1>2, <1>3, RunnerMarked
  <1> QED
    BY <1>2, <1>4

--------------------------------------------------------------------------------
(* Arrays and headers                                                         *)

(* What the arrays and the header of the tracked slice are made of.           *)
LEMMA SliceFields ==
  ASSUME SliceTypes
  PROVE  /\ Len(arrays) \in Nat
         /\ \A a \in 1..Len(arrays) :
              /\ arrays[a] \in Seq(0..Len(inst))
              /\ Len(arrays[a]) \in Nat
              /\ \A i \in 1..Len(arrays[a]) : arrays[a][i] \in 0..Len(inst)
         /\ runners.arr \in 0..Len(arrays) /\ runners.len \in Nat
         /\ runners = [arr |-> runners.arr, len |-> runners.len]
  <1>1. Len(arrays) \in Nat
    BY LenProperties DEF SliceTypes
  <1>2. \A a \in 1..Len(arrays) : arrays[a] \in Seq(0..Len(inst))
    BY ElementOfSeq DEF SliceTypes
  <1>3. \A a \in 1..Len(arrays) : Len(arrays[a]) \in Nat
    BY <1>2, LenProperties
  <1>4. \A a \in 1..Len(arrays) : \A i \in 1..Len(arrays[a]) : arrays[a][i] \in 0..Len(inst)
    BY <1>2, ElementOfSeq
  <1> QED
    BY <1>1, <1>2, <1>3, <1>4 DEF SliceTypes

(* What a good header says.                                                   *)
LEMMA HeaderNames ==
  ASSUME SliceTypes, NEW a, NEW n, Header(a, n)
  PROVE  \A i \in 1..n : /\ a \in 1..Len(arrays) /\ i \in 1..Len(arrays[a])
                         /\ arrays[a][i] \in Runners
  <1>1. a \in 0..Len(arrays) /\ n \in Nat /\ Len(arrays) \in Nat
    BY SliceFields DEF Header
  <1> SUFFICES ASSUME NEW i \in 1..n
               PROVE  /\ a \in 1..Len(arrays) /\ i \in 1..Len(arrays[a])
                      /\ arrays[a][i] \in Runners
    OBVIOUS
  <1>2. a \in 1..Len(arrays)
    BY <1>1 DEF Header
  <1>3. Len(arrays[a]) \in Nat /\ i \in 1..Len(arrays[a])
    BY <1>1, <1>2, SliceFields DEF Header
  <1>4. arrays[a][i] \in 0..Len(inst) /\ arrays[a][i] # 0
    BY <1>2, <1>3, SliceFields DEF Header
  <1> QED
    BY <1>2, <1>3, <1>4 DEF Runners

(* A good header stays good.                                                  *)
LEMMA HeaderKept ==
  ASSUME SliceTypes, Len(arrays') \in Nat, ArraysGrow, NEW a, NEW n, Header(a, n)
  PROVE  Header(a, n)'
  <1>1. a \in 0..Len(arrays) /\ n \in Nat /\ Len(arrays) \in Nat
    BY SliceFields DEF Header
  <1>2. CASE a = 0
    BY <1>1, <1>2 DEF Header
  <1>3. CASE a # 0
    <2>1. a \in 1..Len(arrays)
      BY <1>1, <1>3
    <2>2. Len(arrays'[a]) = Len(arrays[a])
      BY <2>1 DEF ArraysGrow
    <2>3. n <= Len(arrays'[a])
      BY <1>3, <2>2 DEF Header
    <2>4. \A i \in 1..n : i \in 1..Len(arrays[a]) /\ arrays[a][i] # 0
      BY HeaderNames DEF Header
    <2>5. \A i \in 1..n : arrays'[a][i] # 0
      BY <2>1, <2>4 DEF ArraysGrow
    <2>6. a \in 0..Len(arrays')
      BY <1>1 DEF ArraysGrow
    <2> QED
      BY <1>1, <1>3, <2>3, <2>5, <2>6 DEF Header
  <1> QED
    BY <1>2, <1>3

(* With nothing new the types stay as they are.                               *)
LEMMA SliceStays ==
  ASSUME SliceTypes, Len(inst) \in Nat, Len(inst') \in Nat, Len(inst) <= Len(inst'),
         UNCHANGED arrays
  PROVE  ArraysGrow /\ (UNCHANGED runners => SliceTypes')
  <1>1. 0..Len(inst) \subseteq 0..Len(inst')
    OBVIOUS
  <1>2. Seq(0..Len(inst)) \subseteq Seq(0..Len(inst'))
    BY <1>1, SeqMonotonic
  <1>3. arrays \in Seq(Seq(0..Len(inst')))
    BY <1>2, SeqMonotonic DEF SliceTypes
  <1>4. ArraysGrow
    BY SliceFields DEF ArraysGrow
  <1> QED
    BY <1>3, <1>4 DEF SliceTypes

(* A new array becomes the tracked slice.                                     *)
LEMMA SliceReplaced ==
  ASSUME SliceTypes, Len(inst) \in Nat, Len(inst') \in Nat, Len(inst) <= Len(inst'),
         NEW s \in Seq(0..Len(inst')), NEW n \in Nat, n <= Len(s),
         \A i \in 1..n : s[i] # 0,
         arrays' = Append(arrays, s),
         runners' = [arr |-> Len(arrays) + 1, len |-> n]
  PROVE  /\ SliceTypes' /\ ArraysGrow /\ TrackedHeader'
         /\ \A i \in 1..n : At(i)' = s[i]
         /\ \A a \in 1..Len(arrays) : arrays'[a] = arrays[a]
  <1>1. arrays \in Seq(Seq(0..Len(inst')))
    <2>1. 0..Len(inst) \subseteq 0..Len(inst')
      OBVIOUS
    <2>2. Seq(0..Len(inst)) \subseteq Seq(0..Len(inst'))
      BY <2>1, SeqMonotonic
    <2> QED
      BY <2>2, SeqMonotonic DEF SliceTypes
  <1> DEFINE S == Seq(0..Len(inst'))
  <1>2. /\ arrays' \in Seq(S) /\ Len(arrays') = Len(arrays) + 1
        /\ \A a \in 1..Len(arrays) : arrays'[a] = arrays[a]
        /\ arrays'[Len(arrays) + 1] = s
    <2> s \in S /\ arrays \in Seq(S)
      BY <1>1
    <2> HIDE DEF S
    <2> QED
      BY AppendProperties
  <1>3. Len(arrays) \in Nat
    BY SliceFields
  <1>4. ArraysGrow
    BY <1>2, <1>3 DEF ArraysGrow
  <1>5. runners'.arr = Len(arrays) + 1 /\ runners'.len = n
    OBVIOUS
  <1>6. SliceTypes'
    BY <1>2, <1>3 DEF SliceTypes
  <1>7. TrackedHeader'
    BY <1>2, <1>3, <1>5 DEF TrackedHeader, Header
  <1>8. \A i \in 1..n : At(i)' = s[i]
    BY <1>2, <1>5 DEF At
  <1> QED
    BY <1>2, <1>4, <1>6, <1>7, <1>8

(* One array is rewritten in place.                                           *)
LEMMA SliceRewritten ==
  ASSUME SliceTypes, Len(inst) \in Nat, Len(inst') \in Nat, Len(inst) <= Len(inst'),
         NEW a \in 1..Len(arrays), NEW s \in Seq(0..Len(inst')),
         Len(s) = Len(arrays[a]),
         \A i \in 1..Len(arrays[a]) : arrays[a][i] # 0 => s[i] # 0,
         arrays' = [arrays EXCEPT ![a] = s]
  PROVE  /\ arrays' \in Seq(Seq(0..Len(inst'))) /\ Len(arrays') = Len(arrays)
         /\ ArraysGrow
         /\ \A b \in 1..Len(arrays) : arrays'[b] = IF b = a THEN s ELSE arrays[b]
  <1>1. arrays \in Seq(Seq(0..Len(inst')))
    <2>1. 0..Len(inst) \subseteq 0..Len(inst')
      OBVIOUS
    <2>2. Seq(0..Len(inst)) \subseteq Seq(0..Len(inst'))
      BY <2>1, SeqMonotonic
    <2> QED
      BY <2>2, SeqMonotonic DEF SliceTypes
  <1> DEFINE S == Seq(0..Len(inst'))
  <1>2. /\ arrays' \in Seq(S) /\ Len(arrays') = Len(arrays)
        /\ \A b \in 1..Len(arrays) : arrays'[b] = IF b = a THEN s ELSE arrays[b]
    <2> s \in S /\ arrays \in Seq(S)
      BY <1>1
    <2> HIDE DEF S
    <2> QED
      BY ExceptSeq
  <1>3. ArraysGrow
    BY <1>2, SliceFields DEF ArraysGrow
  <1> QED
    BY <1>2, <1>3

(* A fresh start tracks the new runners, in order.                            *)
LEMMA SliceStarted ==
  ASSUME RunnerTypes, SliceTypes, NEW p, NEW n \in Nat, StartInstances(p, n)
  PROVE  /\ RunnerTypes' /\ InstGrows /\ SliceTypes' /\ ArraysGrow /\ TrackedHeader'
         /\ Len(inst') = Len(inst) + n /\ runners'.len = n
         /\ \A i \in 1..n : At(i)' = Len(inst) + i
         /\ \A r \in Runners : inst'[r] = inst[r]
         /\ \A j \in 1..n : inst'[Len(inst) + j] =
                              [idx |-> nextIdx + j - 1, slot |-> j - 1,
                               stopped |-> FALSE, over |-> FALSE]
  <1>1. /\ NewRunners(n, 0) /\ arrays' = Append(arrays, NewIds(n))
        /\ runners' = [arr |-> Len(arrays) + 1, len |-> n]
    BY DEF StartInstances
  <1>2. Len(inst) \in Nat
    BY RunnerFields
  <1>3. /\ RunnerTypes' /\ InstGrows /\ Len(inst') = Len(inst) + n
        /\ \A r \in Runners : inst'[r] = inst[r]
        /\ \A j \in 1..n : inst'[Len(inst) + j] =
                             [idx |-> nextIdx + j - 1, slot |-> 0 + j - 1,
                              stopped |-> FALSE, over |-> FALSE]
    <2> 0 \in Nat
      OBVIOUS
    <2> QED
      BY <1>1, RunnersAdded
  <1>4. /\ NewIds(n) \in Seq(0..Len(inst')) /\ Len(NewIds(n)) = n
        /\ \A i \in 1..n : NewIds(n)[i] = Len(inst) + i /\ NewIds(n)[i] # 0
    BY <1>2, <1>3 DEF NewIds
  <1> DEFINE s == NewIds(n)
  <1> HIDE DEF s
  <1>5. /\ SliceTypes' /\ ArraysGrow /\ TrackedHeader'
        /\ \A i \in 1..n : At(i)' = s[i]
    <2>1. s \in Seq(0..Len(inst')) /\ n <= Len(s) /\ \A i \in 1..n : s[i] # 0
      BY <1>4 DEF s
    <2>2. Len(inst') \in Nat /\ Len(inst) <= Len(inst')
      BY <1>2, <1>3
    <2>3. arrays' = Append(arrays, s)
      BY <1>1 DEF s
    <2> QED
      BY <1>1, <1>2, <2>1, <2>2, <2>3, SliceReplaced
  <1>6. \A j \in 1..n : inst'[Len(inst) + j] =
                             [idx |-> nextIdx + j - 1, slot |-> j - 1,
                              stopped |-> FALSE, over |-> FALSE]
    BY <1>3
  <1> QED
    BY <1>1, <1>3, <1>4, <1>5, <1>6 DEF s

(* append puts its runners behind the tracked ones.                           *)
LEMMA SliceAppended ==
  ASSUME SliceTypes, TrackedHeader,
         Len(inst) \in Nat, Len(inst') \in Nat, Len(inst) <= Len(inst'),
         NEW R \in Seq(1..Len(inst')), R # <<>>, AppendRunners(R)
  PROVE  /\ SliceTypes' /\ ArraysGrow /\ TrackedHeader'
         /\ Len(R) \in Nat /\ runners'.len = runners.len + Len(R)
         /\ \A i \in 1..runners.len : At(i)' = At(i)
         /\ \A j \in 1..Len(R) : arrays'[runners'.arr][runners.len + j] = R[j]
  <1> DEFINE len == runners.len
             n == len + Len(R)
             Elem(i) == IF i <= len THEN At(i) ELSE IF i <= n THEN R[i - len] ELSE 0
  <1>1. /\ Len(R) \in Nat /\ Len(R) # 0
        /\ \A j \in 1..Len(R) : R[j] \in 1..Len(inst')
    BY LenProperties, ElementOfSeq, EmptySeq
  <1>2. len \in Nat /\ n \in Nat /\ n > 0
    BY <1>1, SliceFields
  <1>3. \A i \in 1..len : At(i) \in 1..Len(inst')
    BY HeaderNames DEF TrackedHeader, At, Runners
  <1>4. \A i \in 1..n : Elem(i) \in 1..Len(inst') /\ Elem(i) # 0
    <2> SUFFICES ASSUME NEW i \in 1..n PROVE Elem(i) \in 1..Len(inst') /\ Elem(i) # 0
      OBVIOUS
    <2>1. CASE i <= len
      <3>1. Elem(i) = At(i) /\ i \in 1..len
        BY <1>2, <2>1
      <3>2. At(i) \in 1..Len(inst')
        BY <3>1, <1>3
      <3> HIDE DEF Elem
      <3> QED
        BY <3>1, <3>2
    <2>2. CASE ~(i <= len)
      <3>1. Elem(i) = R[i - len] /\ i - len \in 1..Len(R)
        BY <1>1, <1>2, <2>2
      <3>2. R[i - len] \in 1..Len(inst')
        BY <3>1, <1>1
      <3> HIDE DEF Elem
      <3> QED
        BY <3>1, <3>2
    <2> QED
      BY <2>1, <2>2
  <1>5. \A i \in 1..len : Elem(i) = At(i)
    BY <1>2
  <1>6. \A j \in 1..Len(R) : len + j \in 1..n /\ Elem(len + j) = R[j]
    BY <1>1, <1>2
  <1>7. \A i \in Nat : i > n => Elem(i) = 0
    BY <1>1, <1>2
  <1>8. \/ /\ n <= Cap
           /\ arrays' = [arrays EXCEPT ![runners.arr] =
                            [i \in 1..Cap |-> IF i \in 1..n THEN Elem(i) ELSE @[i]]]
           /\ runners' = [runners EXCEPT !.len = n]
        \/ /\ n > Cap
           /\ \E k \in Grown(n) : arrays' = Append(arrays, [i \in 1..k |-> Elem(i)])
           /\ runners' = [arr |-> Len(arrays) + 1, len |-> n]
    BY DEF AppendRunners
  <1>9. n = len + Len(R)
    OBVIOUS
  <1> HIDE DEF n, Elem
  <1>10. CASE /\ n <= Cap
              /\ arrays' = [arrays EXCEPT ![runners.arr] =
                               [i \in 1..Cap |-> IF i \in 1..n THEN Elem(i) ELSE @[i]]]
              /\ runners' = [runners EXCEPT !.len = n]
    <2>1. runners.arr \in 1..Len(arrays) /\ Cap = Len(arrays[runners.arr]) /\ Cap \in Nat
      <3>1. runners.arr # 0
        BY <1>2, <1>10 DEF Cap
      <3> QED
        BY <3>1, SliceFields DEF Cap
    <2> DEFINE old == arrays[runners.arr]
               s == [i \in 1..Cap |-> IF i \in 1..n THEN Elem(i) ELSE old[i]]
    <2>2. arrays' = [arrays EXCEPT ![runners.arr] = s]
      BY <1>10, <2>1
    <2>3. \A i \in 1..Cap : old[i] \in 0..Len(inst')
      BY <2>1, SliceFields
    <2>4. s \in Seq(0..Len(inst')) /\ Len(s) = Cap
          /\ \A i \in 1..Cap : s[i] = IF i \in 1..n THEN Elem(i) ELSE old[i]
      <3>1. \A i \in 1..Cap : (IF i \in 1..n THEN Elem(i) ELSE old[i]) \in 0..Len(inst')
        BY <1>4, <2>3
      <3>2. s \in [1..Cap -> 0..Len(inst')]
        BY <3>1
      <3> QED
        BY <2>1, <3>2, SeqDef
    <2>5. \A i \in 1..Cap : old[i] # 0 => s[i] # 0
      BY <1>4, <2>4
    <2>6. \A i \in 1..n : i \in 1..Cap /\ s[i] = Elem(i)
      BY <1>2, <1>10, <2>1, <2>4
    <2> HIDE DEF s
    <2>7. /\ arrays' \in Seq(Seq(0..Len(inst'))) /\ Len(arrays') = Len(arrays)
          /\ ArraysGrow /\ arrays'[runners.arr] = s
      <3>1. PICK a : a = runners.arr
        OBVIOUS
      <3>2. /\ a \in 1..Len(arrays) /\ Len(s) = Len(arrays[a])
            /\ \A i \in 1..Len(arrays[a]) : arrays[a][i] # 0 => s[i] # 0
        BY <2>1, <2>4, <2>5, <3>1
      <3>3. s \in Seq(0..Len(inst'))
        BY <2>4
      <3>4. arrays' = [arrays EXCEPT ![a] = s]
        BY <2>2, <3>1
      <3> HIDE DEF old
      <3>5. /\ arrays' \in Seq(Seq(0..Len(inst'))) /\ Len(arrays') = Len(arrays)
            /\ ArraysGrow /\ arrays'[a] = s
        <4>1. PICK t : t = s
          OBVIOUS
        <4>2. /\ t \in Seq(0..Len(inst')) /\ Len(t) = Len(arrays[a])
              /\ \A i \in 1..Len(arrays[a]) : arrays[a][i] # 0 => t[i] # 0
              /\ arrays' = [arrays EXCEPT ![a] = t]
          BY <3>2, <3>3, <3>4, <4>1
        <4>3. a \in 1..Len(arrays)
          BY <3>2
        <4>4. /\ arrays' \in Seq(Seq(0..Len(inst'))) /\ Len(arrays') = Len(arrays)
              /\ ArraysGrow
              /\ \A b \in 1..Len(arrays) : arrays'[b] = IF b = a THEN t ELSE arrays[b]
          BY <4>2, <4>3, SliceRewritten
        <4> QED
          BY <4>1, <4>3, <4>4
      <3> QED
        BY <3>1, <3>5
    <2>8. runners'.arr = runners.arr /\ runners'.len = n
          /\ runners' = [arr |-> runners.arr, len |-> n]
      BY <1>10, SliceFields
    <2>9. \A i \in 1..n : At(i)' = Elem(i)
      BY <2>6, <2>7, <2>8 DEF At
    <2>10. TrackedHeader'
      <3>1. \A i \in 1..n : s[i] # 0
        BY <1>4, <2>6
      <3>2. n <= Len(s) /\ runners.arr # 0 /\ runners.arr \in 0..Len(arrays)
        BY <1>10, <2>1, <2>4
      <3> QED
        BY <1>2, <2>7, <2>8, <3>1, <3>2 DEF TrackedHeader, Header
    <2>11. SliceTypes'
      BY <1>2, <2>1, <2>7, <2>8 DEF SliceTypes
    <2> QED
      <3>1. \A i \in 1..len : i \in 1..n
        BY <1>1, <1>2, <1>9
      <3>2. \A i \in 1..len : At(i)' = At(i)
        BY <1>5, <2>9, <3>1
      <3>3. \A j \in 1..Len(R) : arrays'[runners'.arr][len + j] = R[j]
        BY <1>6, <2>9 DEF At
      <3> QED
        BY <1>1, <1>9, <2>7, <2>8, <2>10, <2>11, <3>2, <3>3
  <1>11. CASE /\ n > Cap
              /\ \E k \in Grown(n) : arrays' = Append(arrays, [i \in 1..k |-> Elem(i)])
              /\ runners' = [arr |-> Len(arrays) + 1, len |-> n]
    <2>1. PICK k \in Grown(n) : arrays' = Append(arrays, [i \in 1..k |-> Elem(i)])
      BY <1>11
    <2>2. k \in Nat /\ k >= n
      BY <1>2 DEF Grown
    <2> DEFINE s == [i \in 1..k |-> Elem(i)]
    <2>3. s \in Seq(0..Len(inst')) /\ Len(s) = k /\ \A i \in 1..k : s[i] = Elem(i)
      <3>1. \A i \in 1..k : Elem(i) \in 0..Len(inst')
        <4> SUFFICES ASSUME NEW i \in 1..k PROVE Elem(i) \in 0..Len(inst')
          OBVIOUS
        <4> i \in Nat /\ (i \in 1..n \/ i > n)
          BY <1>2, <2>2
        <4> QED
          BY <1>4, <1>7
      <3>2. s \in [1..k -> 0..Len(inst')]
        BY <3>1
      <3> QED
        BY <2>2, <3>2, SeqDef
    <2>4. \A i \in 1..n : i \in 1..k /\ s[i] # 0 /\ s[i] = Elem(i)
      BY <1>2, <1>4, <2>2, <2>3
    <2>5. arrays' = Append(arrays, s)
      BY <2>1
    <2> HIDE DEF s
    <2>6. /\ SliceTypes' /\ ArraysGrow /\ TrackedHeader'
          /\ \A i \in 1..n : At(i)' = s[i]
      BY <1>2, <1>11, <2>2, <2>3, <2>4, <2>5, SliceReplaced
    <2>7. runners'.len = n
      BY <1>11
    <2>8. \A i \in 1..n : At(i)' = Elem(i)
      BY <2>4, <2>6
    <2> QED
      <3>1. \A i \in 1..len : i \in 1..n
        BY <1>1, <1>2, <1>9
      <3>2. \A i \in 1..len : At(i)' = At(i)
        BY <1>5, <2>8, <3>1
      <3>3. \A j \in 1..Len(R) : arrays'[runners'.arr][len + j] = R[j]
        BY <1>6, <2>8 DEF At
      <3> QED
        BY <1>1, <1>9, <2>6, <2>7, <3>2, <3>3
  <1> QED
    BY <1>8, <1>10, <1>11

(* A replacement takes the place of the old runner, or comes last.            *)
LEMMA SliceSwapped ==
  ASSUME RunnerTypes, SliceTypes, TrackedHeader, UNCHANGED inst,
         NEW old, NEW nw \in Runners, Replace(old, nw)
  PROVE  /\ SliceTypes' /\ ArraysGrow /\ TrackedHeader'
         /\ \/ \E p \in 1..runners.len :
                 /\ At(p) = old /\ runners'.len = runners.len
                 /\ \A i \in 1..runners.len : At(i)' = IF i = p THEN nw ELSE At(i)
            \/ /\ old \notin Tracked /\ runners'.len = runners.len + 1
               /\ \A i \in 1..runners.len : At(i)' = At(i)
               /\ arrays'[runners'.arr][runners.len + 1] = nw
  <1>1. Len(inst) \in Nat /\ Len(inst') = Len(inst) /\ Len(inst) <= Len(inst)
    BY RunnerFields
  <1>2. ASSUME NEW p \in 1..runners.len, At(p) = old,
               arrays' = [arrays EXCEPT ![runners.arr][p] = nw], UNCHANGED runners
        PROVE  /\ SliceTypes' /\ ArraysGrow /\ TrackedHeader'
               /\ runners'.len = runners.len
               /\ \A i \in 1..runners.len : At(i)' = IF i = p THEN nw ELSE At(i)
    <2>1. PICK a : a = runners.arr
      OBVIOUS
    <2>2. /\ a \in 1..Len(arrays) /\ arrays[a] \in Seq(0..Len(inst))
          /\ p \in 1..Len(arrays[a])
      <3>1. a \in 1..Len(arrays) /\ p \in 1..Len(arrays[a])
        BY <2>1, HeaderNames DEF TrackedHeader
      <3> QED
        BY <3>1, SliceFields
    <2>3. PICK t : t = [arrays[a] EXCEPT ![p] = nw]
      OBVIOUS
    <2>4. nw \in 0..Len(inst) /\ nw # 0
      BY <1>1 DEF Runners
    <2>5. /\ t \in Seq(0..Len(inst)) /\ Len(t) = Len(arrays[a])
          /\ \A i \in 1..Len(arrays[a]) : t[i] = IF i = p THEN nw ELSE arrays[a][i]
      BY <2>2, <2>3, <2>4, ExceptSeq
    <2>6. arrays' = [arrays EXCEPT ![a] = t]
      BY <1>2, <2>1, <2>3
    <2>7. /\ arrays' \in Seq(Seq(0..Len(inst'))) /\ Len(arrays') = Len(arrays)
          /\ ArraysGrow
          /\ \A b \in 1..Len(arrays) : arrays'[b] = IF b = a THEN t ELSE arrays[b]
      <3>1. t \in Seq(0..Len(inst'))
        BY <1>1, <2>5
      <3>2. \A i \in 1..Len(arrays[a]) : arrays[a][i] # 0 => t[i] # 0
        BY <2>4, <2>5
      <3> QED
        BY <1>1, <2>2, <2>5, <2>6, <3>1, <3>2, SliceRewritten
    <2>8. SliceTypes'
      BY <1>2, <2>7 DEF SliceTypes
    <2>9. TrackedHeader'
      BY <1>2, <2>7, <2>8, HeaderKept, SliceFields DEF TrackedHeader
    <2>10. \A i \in 1..runners.len : At(i)' = IF i = p THEN nw ELSE At(i)
      <3>1. \A i \in 1..runners.len : i \in 1..Len(arrays[a])
        BY <2>1, HeaderNames DEF TrackedHeader
      <3>2. arrays'[a] = t
        BY <2>2, <2>7
      <3> QED
        BY <1>2, <2>1, <2>5, <3>1, <3>2 DEF At
    <2> QED
      BY <1>2, <2>7, <2>8, <2>9, <2>10
  <1>3. CASE old \notin Tracked /\ AppendRunners(<<nw>>)
    <2>1. /\ <<nw>> \in Seq(1..Len(inst')) /\ <<nw>> # <<>>
          /\ Len(<<nw>>) = 1 /\ <<nw>>[1] = nw
      BY <1>1 DEF Runners
    <2>2. PICK R : R = <<nw>>
      OBVIOUS
    <2>3. /\ SliceTypes' /\ ArraysGrow /\ TrackedHeader'
          /\ runners'.len = runners.len + Len(R)
          /\ \A i \in 1..runners.len : At(i)' = At(i)
          /\ \A j \in 1..Len(R) : arrays'[runners'.arr][runners.len + j] = R[j]
      <3>1. R \in Seq(1..Len(inst')) /\ R # <<>> /\ AppendRunners(R)
        BY <1>3, <2>1, <2>2
      <3> QED
        BY <1>1, <3>1, SliceAppended
    <2> QED
      BY <1>3, <2>1, <2>2, <2>3
  <1> QED
    BY <1>2, <1>3 DEF Replace

(* Sorting rearranges what the slice names.                                   *)
LEMMA SortingArranges ==
  ASSUME SliceTypes, TrackedHeader, NEW t \in Sortings(Slice)
  PROVE  /\ t \in Seq(Runners) /\ Len(t) = runners.len
         /\ \A i, j \in 1..runners.len : i < j => inst[t[i]].slot <= inst[t[j]].slot
         /\ \E f \in [1..runners.len -> 1..runners.len] :
              /\ \A i, j \in 1..runners.len : f[i] = f[j] => i = j
              /\ \A j \in 1..runners.len : \E i \in 1..runners.len : f[i] = j
              /\ \A i \in 1..runners.len : t[i] = At(f[i])
  <1>1. PICK n \in Nat : n = runners.len
    BY SliceFields
  <1>2. Slice = [i \in 1..n |-> At(i)]
    BY <1>1 DEF Slice
  <1>3. Len(Slice) = n /\ \A i \in 1..n : Slice[i] = At(i)
    BY <1>2
  <1>4. t \in Arrangements(Slice)
    BY DEF Sortings
  <1>5. PICK f \in [1..n -> 1..n] :
          /\ \A i, j \in 1..n : f[i] = f[j] => i = j
          /\ t = [i \in 1..n |-> Slice[f[i]]]
    BY <1>3, <1>4 DEF Arrangements
  <1>6. \A j \in 1..n : \E i \in 1..n : f[i] = j
    <2>1. f \in Injection(1..n, 1..n)
      BY <1>5 DEF Injection, IsInjective
    <2>2. IsFiniteSet(1..n)
      BY FS_Interval
    <2>3. f \in Surjection(1..n, 1..n)
      BY <2>1, <2>2, FS_Injection
    <2> QED
      BY <2>3 DEF Surjection
  <1>7. \A i \in 1..n : f[i] \in 1..n /\ t[i] = At(f[i])
    BY <1>3, <1>5
  <1>8. \A i \in 1..n : At(i) \in Runners
    BY <1>1, HeaderNames DEF TrackedHeader, At
  <1>9. t \in Seq(Runners) /\ Len(t) = n
    <2>1. t \in [1..n -> Runners]
      BY <1>5, <1>7, <1>8
    <2> QED
      BY <2>1, SeqDef
  <1>10. \A i, j \in 1..n : i < j => inst[t[i]].slot <= inst[t[j]].slot
    BY <1>3 DEF Sortings
  <1>11. \E g \in [1..n -> 1..n] :
            /\ \A i, j \in 1..n : g[i] = g[j] => i = j
            /\ \A j \in 1..n : \E i \in 1..n : g[i] = j
            /\ \A i \in 1..n : t[i] = At(g[i])
    BY <1>5, <1>6, <1>7
  <1> QED
    BY <1>1, <1>9, <1>10, <1>11

(* Sorting in place.                                                          *)
LEMMA SliceSorted ==
  ASSUME RunnerTypes, SliceTypes, TrackedHeader, UNCHANGED <<inst, runners>>,
         runners.len > 0, NEW t \in Sortings(Slice),
         arrays' = [arrays EXCEPT ![runners.arr] =
                      [i \in DOMAIN @ |-> IF i <= runners.len THEN t[i] ELSE @[i]]]
  PROVE  /\ SliceTypes' /\ ArraysGrow /\ TrackedHeader'
         /\ \A i \in 1..runners.len : At(i)' = t[i]
  <1>1. Len(inst) \in Nat /\ Len(inst') = Len(inst) /\ Len(inst) <= Len(inst)
    BY RunnerFields
  <1>2. PICK a, n : a = runners.arr /\ n = runners.len
    OBVIOUS
  <1>3. /\ a \in 1..Len(arrays) /\ n \in Nat /\ n <= Len(arrays[a])
        /\ Len(arrays[a]) \in Nat /\ DOMAIN arrays[a] = 1..Len(arrays[a])
    <2>1. n \in Nat /\ 1 \in 1..n
      BY <1>2, SliceFields
    <2>2. a \in 1..Len(arrays)
      BY <1>2, <2>1, HeaderNames DEF TrackedHeader
    <2>3. n <= Len(arrays[a])
      BY <1>2, <2>2 DEF TrackedHeader, Header
    <2> QED
      BY <2>1, <2>2, <2>3, SliceFields, LenProperties
  <1>4. PICK s : s = [i \in 1..Len(arrays[a]) |-> IF i <= n THEN t[i] ELSE arrays[a][i]]
    OBVIOUS
  <1>5. \A i \in 1..n : t[i] \in Runners
    BY <1>2, SortingArranges, ElementOfSeq
  <1>6. /\ s \in Seq(0..Len(inst)) /\ Len(s) = Len(arrays[a])
        /\ \A i \in 1..Len(arrays[a]) : s[i] = IF i <= n THEN t[i] ELSE arrays[a][i]
    <2>1. \A i \in 1..Len(arrays[a]) :
            (IF i <= n THEN t[i] ELSE arrays[a][i]) \in 0..Len(inst)
      <3>1. \A i \in 1..Len(arrays[a]) : i <= n => i \in 1..n
        BY <1>3
      <3>2. \A i \in 1..n : t[i] \in 0..Len(inst)
        BY <1>1, <1>5 DEF Runners
      <3> QED
        BY <1>3, <3>1, <3>2, SliceFields
    <2>2. s \in [1..Len(arrays[a]) -> 0..Len(inst)]
      BY <1>4, <2>1
    <2> QED
      BY <1>3, <1>4, <2>2, SeqDef
  <1>7. arrays' = [arrays EXCEPT ![a] = s]
    BY <1>2, <1>3, <1>4
  <1>8. /\ arrays' \in Seq(Seq(0..Len(inst'))) /\ Len(arrays') = Len(arrays)
        /\ ArraysGrow
        /\ \A b \in 1..Len(arrays) : arrays'[b] = IF b = a THEN s ELSE arrays[b]
    <2>1. s \in Seq(0..Len(inst'))
      BY <1>1, <1>6
    <2>2. \A i \in 1..Len(arrays[a]) : arrays[a][i] # 0 => s[i] # 0
      BY <1>1, <1>3, <1>5, <1>6 DEF Runners
    <2> QED
      BY <1>1, <1>3, <1>6, <1>7, <2>1, <2>2, SliceRewritten
  <1>9. SliceTypes'
    BY <1>8 DEF SliceTypes
  <1>10. TrackedHeader'
    BY <1>8, <1>9, HeaderKept, SliceFields DEF TrackedHeader
  <1>11. \A i \in 1..runners.len : At(i)' = t[i]
    <2>1. \A i \in 1..n : i \in 1..Len(arrays[a]) /\ i <= n
      BY <1>3
    <2>2. arrays'[a] = s
      BY <1>3, <1>8
    <2> QED
      BY <1>2, <1>6, <2>1, <2>2 DEF At
  <1> QED
    BY <1>8, <1>9, <1>10, <1>11

--------------------------------------------------------------------------------
(* Who else holds runners: the handlers that stop some, and the reloads.      *)

JobSets(a, m, p) ==
  [op : {"none", "stop", "restart", "delete", "scale", "shutdown"},
   arr : 0..a, i : Nat \ {0}, n : Nat, r : 0..m, p : 0..p, goal : Nat]

JobTypes == /\ job \in [Clients -> JobSets(Len(arrays), Len(inst), Len(specs))]
            /\ \A c \in Clients : Header(job[c].arr, job[c].n)

(* A scale-down has the critical section and the tracked slice to itself.     *)
ScaleAlone ==
  /\ mu \in Clients \cup {0}
  /\ mu # 0 => job[mu].op = "scale"
  /\ \A c \in Clients : job[c].op = "scale" =>
       /\ c = mu /\ job[c].arr = runners.arr /\ job[c].n = runners.len
       /\ job[c].goal < job[c].n /\ job[c].goal < job[c].i

RollSets(m) ==
  [at : {"next", "probe", "abort", "done"}, todo : Seq(1..m), new : 0..m,
   drains : SUBSET (1..m), stopping : SUBSET (1..m)]

RollState(roll) ==
  /\ roll.at = "probe" => roll.new # 0 /\ roll.todo # <<>>
  /\ roll.at = "abort" => roll.new # 0
  /\ roll.at \in {"next", "done"} => roll.new = 0
  /\ roll.at = "done" => roll.todo = <<>> /\ AllDrained(roll)

RollTypes == /\ rolls \in Seq(RollSets(Len(inst)))
             /\ \A k \in DOMAIN rolls : RollState(rolls[k])

Base == /\ CountsInv
        /\ RunnerTypes /\ SliceTypes /\ TrackedHeader
        /\ JobTypes /\ ScaleAlone /\ RollTypes

(* What a handler under way is made of.                                       *)
LEMMA JobFields ==
  ASSUME JobTypes, NEW c \in Clients
  PROVE  /\ job[c] \in JobSets(Len(arrays), Len(inst), Len(specs))
         /\ job[c].arr \in 0..Len(arrays) /\ job[c].i \in Nat \ {0} /\ job[c].n \in Nat
         /\ job[c].r \in 0..Len(inst) /\ job[c].p \in 0..Len(specs)
         /\ job[c].goal \in Nat
         /\ job[c].op \in {"none", "stop", "restart", "delete", "scale", "shutdown"}
  <1>1. job[c] \in JobSets(Len(arrays), Len(inst), Len(specs))
    BY DEF JobTypes
  <1> QED
    BY <1>1 DEF JobSets

(* What a reload is made of.                                                  *)
LEMMA RollFields ==
  ASSUME RunnerTypes, RollTypes
  PROVE  /\ Len(rolls) \in Nat /\ DOMAIN rolls = 1..Len(rolls)
         /\ \A k \in DOMAIN rolls :
              /\ rolls[k] \in RollSets(Len(inst)) /\ RollState(rolls[k])
              /\ rolls[k].todo \in Seq(Runners)
              /\ rolls[k].drains \subseteq Runners /\ rolls[k].stopping \subseteq Runners
              /\ rolls[k].new = 0 \/ rolls[k].new \in Runners
              /\ rolls[k].at \in {"probe", "abort"} => rolls[k].new \in Runners
              /\ rolls[k].todo # <<>> => Head(rolls[k].todo) \in Runners
  <1>1. Len(rolls) \in Nat /\ DOMAIN rolls = 1..Len(rolls)
    BY LenProperties DEF RollTypes
  <1>2. \A k \in DOMAIN rolls : rolls[k] \in RollSets(Len(inst)) /\ RollState(rolls[k])
    BY <1>1, ElementOfSeq DEF RollTypes
  <1>3. ASSUME NEW k \in DOMAIN rolls
        PROVE  /\ rolls[k].todo \in Seq(Runners)
               /\ rolls[k].drains \subseteq Runners /\ rolls[k].stopping \subseteq Runners
               /\ rolls[k].new = 0 \/ rolls[k].new \in Runners
               /\ rolls[k].at \in {"probe", "abort"} => rolls[k].new \in Runners
               /\ rolls[k].todo # <<>> => Head(rolls[k].todo) \in Runners
    <2>1. Len(inst) \in Nat
      BY RunnerFields
    <2>2. /\ rolls[k].todo \in Seq(1..Len(inst)) /\ rolls[k].new \in 0..Len(inst)
          /\ rolls[k].drains \subseteq 1..Len(inst)
          /\ rolls[k].stopping \subseteq 1..Len(inst)
          /\ rolls[k].at \in {"probe", "abort"} => rolls[k].new # 0
      BY <1>2 DEF RollSets, RollState
    <2>3. rolls[k].todo # <<>> => Head(rolls[k].todo) \in 1..Len(inst)
      BY <2>2, HeadTailProperties
    <2> QED
      BY <2>1, <2>2, <2>3 DEF Runners
  <1> QED
    BY <1>1, <1>2, <1>3

(* What every step leaves of the runners, the arrays and the tracked slice.   *)
Carried == /\ RunnerTypes' /\ SliceTypes' /\ TrackedHeader'
           /\ InstGrows /\ ArraysGrow

(* A step that leaves the runners alone.                                      *)
LEMMA CarriedSame ==
  ASSUME RunnerTypes, SliceTypes, TrackedHeader, UNCHANGED runnerVars
  PROVE  Carried
  <1>1. UNCHANGED <<inst, nextIdx, arrays, runners>>
    BY DEF runnerVars
  <1>2. RunnerTypes' /\ InstGrows
    BY <1>1, RunnerFields DEF RunnerTypes, InstGrows
  <1>3. SliceTypes' /\ ArraysGrow
    BY <1>1, SliceFields DEF SliceTypes, ArraysGrow
  <1>4. TrackedHeader'
    BY <1>1 DEF TrackedHeader, Header
  <1> QED
    BY <1>2, <1>3, <1>4 DEF Carried

(* A step that changes runners, or launches some, but not the slice.          *)
LEMMA CarriedMarks ==
  ASSUME RunnerTypes, SliceTypes, TrackedHeader, RunnerTypes', InstGrows,
         UNCHANGED <<arrays, runners>>
  PROVE  Carried
  <1>1. Len(inst) \in Nat
    BY RunnerFields
  <1>2. Len(inst') \in Nat
    BY LenProperties DEF RunnerTypes
  <1>3. Len(inst) <= Len(inst')
    BY DEF InstGrows
  <1>4. SliceTypes' /\ ArraysGrow
    BY <1>1, <1>2, <1>3, SliceStays
  <1>5. TrackedHeader'
    BY DEF TrackedHeader, Header
  <1> QED
    BY <1>4, <1>5 DEF Carried

(* A fresh start.                                                             *)
LEMMA CarriedStart ==
  ASSUME Base, NEW p, NEW n \in Nat, StartInstances(p, n)
  PROVE  Carried
  BY SliceStarted DEF Base, Carried

(* Runner.Stop on a runner.                                                   *)
LEMMA CarriedStop ==
  ASSUME Base, NEW r \in Runners, inst' = [inst EXCEPT ![r].stopped = TRUE],
         UNCHANGED <<nextIdx, arrays, runners>>
  PROVE  Carried
  <1>1. RunnerTypes' /\ InstGrows
    BY RunnerStopped DEF Base
  <1> QED
    BY <1>1, CarriedMarks DEF Base

(* A shorter slice of the same array.                                         *)
LEMMA CarriedShorter ==
  ASSUME Base, UNCHANGED <<inst, nextIdx, arrays>>,
         NEW n \in 0..runners.len, runners' = [runners EXCEPT !.len = n]
  PROVE  Carried /\ \A i \in 1..n : At(i)' = At(i)
  <1>1. RunnerTypes' /\ InstGrows
    BY RunnerFields DEF Base, RunnerTypes, InstGrows
  <1>2. /\ runners.arr \in 0..Len(arrays) /\ runners.len \in Nat
        /\ runners' = [arr |-> runners.arr, len |-> n]
    BY SliceFields DEF Base
  <1>3. runners'.arr = runners.arr /\ runners'.len = n /\ n \in Nat
    BY <1>2
  <1>4. SliceTypes' /\ ArraysGrow
    BY <1>2, <1>3, SliceFields DEF Base, SliceTypes, ArraysGrow
  <1>5. TrackedHeader'
    <2>1. n <= runners.len /\ \A i \in 1..n : i \in 1..runners.len
      BY <1>2, <1>3
    <2>2. runners.arr = 0 => n = 0
      BY <2>1, <1>3 DEF Base, TrackedHeader, Header
    <2>3. runners.arr # 0 => n <= Len(arrays[runners.arr])
      <3>1. ASSUME runners.arr # 0 PROVE n <= Len(arrays[runners.arr])
        <4>1. runners.arr \in 1..Len(arrays)
          BY <1>2, <3>1
        <4>2. Len(arrays[runners.arr]) \in Nat
          BY <4>1, SliceFields DEF Base
        <4> QED
          BY <1>2, <2>1, <3>1, <4>2 DEF Base, TrackedHeader, Header
      <3> QED
        BY <3>1
    <2>4. \A i \in 1..n : arrays[runners.arr][i] # 0
      BY <2>1 DEF Base, TrackedHeader, Header
    <2> QED
      BY <1>2, <1>3, <2>2, <2>3, <2>4 DEF TrackedHeader, Header
  <1>6. \A i \in 1..n : At(i)' = At(i)
    BY <1>3 DEF At
  <1> QED
    BY <1>1, <1>4, <1>5, <1>6 DEF Carried

(* New runners behind the tracked ones.                                       *)
LEMMA CarriedScaleUp ==
  ASSUME Base, ScaleUp
  PROVE  /\ Carried
         /\ \E k \in Nat \ {0} :
              /\ NewRunners(k, runners.len) /\ Len(inst') = Len(inst) + k
              /\ runners'.len = runners.len + k
              /\ \A i \in 1..runners.len : At(i)' = At(i)
              /\ \A j \in 1..k : arrays'[runners'.arr][runners.len + j] = Len(inst) + j
              /\ listed' = Recorded(NewIdxs(k))
              /\ SyncProxy(Tracked \cup {Len(inst) + j : j \in 1..k})
              /\ runners.len + k \in Counts
              /\ specs' = [specs EXCEPT ![svc] = runners.len + k]
  <1>1. PICK n \in Counts : LET k == n - runners.len IN
          /\ k > 0
          /\ listed' = Recorded(NewIdxs(k))
          /\ NewRunners(k, runners.len)
          /\ AppendRunners(NewIds(k))
          /\ SyncProxy(Tracked \cup {NewIds(k)[j] : j \in 1..k})
          /\ specs' = [specs EXCEPT ![svc] = n]
    BY DEF ScaleUp
  <1>2. runners.len \in Nat /\ n \in Nat
    BY SliceFields, DaemonAssumption DEF Base
  <1>3. PICK k \in Nat \ {0} : k = n - runners.len /\ n = runners.len + k
    BY <1>1, <1>2
  <1>4. /\ listed' = Recorded(NewIdxs(k)) /\ NewRunners(k, runners.len)
        /\ AppendRunners(NewIds(k))
        /\ SyncProxy(Tracked \cup {NewIds(k)[j] : j \in 1..k})
        /\ specs' = [specs EXCEPT ![svc] = runners.len + k]
    BY <1>1, <1>3
  <1>5. RunnerTypes' /\ InstGrows /\ Len(inst') = Len(inst) + k
    BY <1>2, <1>4, RunnersAdded DEF Base
  <1>6. Len(inst) \in Nat
    BY RunnerFields DEF Base
  <1>7. PICK R : R = NewIds(k)
    OBVIOUS
  <1>8. /\ R \in Seq(1..Len(inst')) /\ R # <<>> /\ Len(R) = k
        /\ \A j \in 1..k : R[j] = Len(inst) + j
    <2>1. \A j \in 1..k : Len(inst) + j \in 1..Len(inst')
      BY <1>5, <1>6
    <2>2. R = [j \in 1..k |-> Len(inst) + j]
      BY <1>7 DEF NewIds
    <2>3. R \in [1..k -> 1..Len(inst')]
      BY <2>1, <2>2
    <2>4. R \in Seq(1..Len(inst')) /\ Len(R) = k
      BY <2>2, <2>3, SeqDef
    <2> QED
      BY <2>2, <2>4, EmptySeq
  <1>9. /\ SliceTypes' /\ ArraysGrow /\ TrackedHeader'
        /\ runners'.len = runners.len + Len(R)
        /\ \A i \in 1..runners.len : At(i)' = At(i)
        /\ \A j \in 1..Len(R) : arrays'[runners'.arr][runners.len + j] = R[j]
    <2>1. Len(inst') \in Nat /\ Len(inst) <= Len(inst')
      BY <1>5, <1>6
    <2>2. AppendRunners(R)
      BY <1>4, <1>7
    <2> QED
      BY <1>6, <1>8, <2>1, <2>2, SliceAppended DEF Base
  <1>10. Carried
    BY <1>5, <1>9 DEF Carried
  <1>11. {NewIds(k)[j] : j \in 1..k} = {Len(inst) + j : j \in 1..k}
    BY <1>7, <1>8
  <1>12. SyncProxy(Tracked \cup {Len(inst) + j : j \in 1..k})
    BY <1>4, <1>11
  <1>13. \A j \in 1..k : arrays'[runners'.arr][runners.len + j] = Len(inst) + j
    BY <1>8, <1>9
  <1> QED
    BY <1>3, <1>4, <1>5, <1>8, <1>9, <1>10, <1>12, <1>13

(* A scale-down begins by sorting the slice in place.                         *)
LEMMA CarriedScaleDown ==
  ASSUME Base, NEW c \in Clients, ScaleDown(c)
  PROVE  /\ Carried
         /\ \E n \in Counts, t \in Sortings(Slice) :
              /\ n < runners.len
              /\ \A i \in 1..runners.len : At(i)' = t[i]
              /\ job' = [job EXCEPT ![c] = Job("scale", n + 1, n)]
  <1>1. PICK n \in Counts, t \in Sortings(Slice) :
          /\ n < runners.len
          /\ arrays' = [arrays EXCEPT ![runners.arr] =
                          [i \in DOMAIN @ |-> IF i <= runners.len THEN t[i] ELSE @[i]]]
          /\ job' = [job EXCEPT ![c] = Job("scale", n + 1, n)]
    BY DEF ScaleDown
  <1>2. UNCHANGED <<inst, runners, nextIdx>>
    BY DEF ScaleDown
  <1>3. runners.len > 0
    BY <1>1, DaemonAssumption, SliceFields DEF Base
  <1>4. /\ SliceTypes' /\ ArraysGrow /\ TrackedHeader'
        /\ \A i \in 1..runners.len : At(i)' = t[i]
    BY <1>1, <1>2, <1>3, SliceSorted DEF Base
  <1>5. RunnerTypes' /\ InstGrows
    BY <1>2, RunnerFields DEF Base, RunnerTypes, InstGrows
  <1> QED
    BY <1>1, <1>4, <1>5 DEF Carried

(* Its last step drops what is beyond its goal.                               *)
LEMMA CarriedScaleDone ==
  ASSUME Base, NEW c \in Clients, ScaleDownDone(c)
  PROVE  /\ Carried /\ c = mu
         /\ job[c].goal \in 1..runners.len /\ runners'.len = job[c].goal
         /\ \A i \in 1..job[c].goal : At(i)' = At(i)
  <1>1. job[c].op = "scale" /\ job[c].goal \in Counts
    BY DEF ScaleDownDone, Finishes, Base, CountsInv, JobShape
  <1>2. c = mu /\ job[c].goal < runners.len
    BY <1>1 DEF Base, ScaleAlone
  <1>3. runners.len \in Nat /\ job[c].goal \in Nat /\ job[c].goal # 0
    BY <1>1, SliceFields, DaemonAssumption DEF Base
  <1>4. PICK g \in 0..runners.len : g = job[c].goal
    BY <1>2, <1>3
  <1>5. UNCHANGED <<inst, arrays, nextIdx>> /\ runners' = [runners EXCEPT !.len = g]
    BY <1>4 DEF ScaleDownDone
  <1>6. Carried /\ \A i \in 1..g : At(i)' = At(i)
    BY <1>5, CarriedShorter
  <1>7. runners'.len = g
    BY <1>5, SliceFields DEF Base
  <1> QED
    BY <1>2, <1>3, <1>4, <1>6, <1>7

(* A reload routes to a replacement.                                          *)
LEMMA CarriedSwap ==
  ASSUME Base, NEW k \in DOMAIN rolls, RollSwap(k)
  PROVE  LET old == Head(rolls[k].todo)  nw == rolls[k].new IN
         /\ Carried
         /\ \/ \E p \in 1..runners.len :
                 /\ At(p) = old /\ runners'.len = runners.len
                 /\ \A i \in 1..runners.len : At(i)' = IF i = p THEN nw ELSE At(i)
            \/ /\ old \notin Tracked /\ runners'.len = runners.len + 1
               /\ \A i \in 1..runners.len : At(i)' = At(i)
               /\ arrays'[runners'.arr][runners.len + 1] = nw
  <1>1. rolls[k].at = "probe" /\ UNCHANGED <<inst, nextIdx>>
        /\ Replace(Head(rolls[k].todo), rolls[k].new)
    BY DEF RollSwap
  <1>2. PICK old, nw : old = Head(rolls[k].todo) /\ nw = rolls[k].new
    OBVIOUS
  <1>3. nw \in Runners
    BY <1>1, <1>2, RollFields DEF Base
  <1>4. Replace(old, nw)
    BY <1>1, <1>2
  <1>5. /\ SliceTypes' /\ ArraysGrow /\ TrackedHeader'
        /\ \/ \E p \in 1..runners.len :
                /\ At(p) = old /\ runners'.len = runners.len
                /\ \A i \in 1..runners.len : At(i)' = IF i = p THEN nw ELSE At(i)
           \/ /\ old \notin Tracked /\ runners'.len = runners.len + 1
              /\ \A i \in 1..runners.len : At(i)' = At(i)
              /\ arrays'[runners'.arr][runners.len + 1] = nw
    BY <1>1, <1>3, <1>4, SliceSwapped DEF Base
  <1>6. RunnerTypes' /\ InstGrows
    BY <1>1, RunnerFields DEF Base, RunnerTypes, InstGrows
  <1> QED
    BY <1>2, <1>5, <1>6 DEF Carried

(* The next runner a handler stops is one.                                    *)
LEMMA ToldRunner ==
  ASSUME Base, NEW c \in Clients, TellStop(c)
  PROVE  arrays[job[c].arr][job[c].i] \in Runners /\ job[c].i \in 1..job[c].n
  <1>1. job[c].i \in Nat \ {0} /\ job[c].n \in Nat /\ job[c].i <= job[c].n
    BY JobFields DEF Base, TellStop
  <1>2. Header(job[c].arr, job[c].n)
    BY DEF Base, JobTypes
  <1> QED
    BY <1>1, <1>2, HeaderNames DEF Base

(* A reload, whoever asks for it, starts the service afresh where it has no    *)
(* runners, or leaves them alone.                                              *)
LEMMA CarriedReload ==
  ASSUME Base, NEW c, Reload(c)
  PROVE  Carried
  <1>1. CASE ReloadStarts
    <2>1. specs[svc] \in Nat
      BY SpecCounts DEF Reload, Base
    <2> QED
      BY <1>1, <2>1, CarriedStart DEF ReloadStarts
  <1>2. CASE ReloadPortless(c) \/ ReloadRolls
    BY <1>2, CarriedSame DEF Base, ReloadPortless, ReloadRolls
  <1> QED
    BY <1>1, <1>2 DEF Reload

(* A handler going on.                                                        *)
LEMMA CarriedServe ==
  ASSUME Base, NEW c \in Clients, Serve(c)
  PROVE  Carried
  <1>1. CASE TellStop(c)
    <2>1. PICK r : r = arrays[job[c].arr][job[c].i]
      OBVIOUS
    <2>2. r \in Runners
      BY <1>1, <2>1, ToldRunner
    <2>3. inst' = [inst EXCEPT ![r].stopped = TRUE]
          /\ UNCHANGED <<nextIdx, arrays, runners>>
      BY <1>1, <2>1 DEF TellStop
    <2> QED
      BY <2>2, <2>3, CarriedStop
  <1>2. CASE RestartDone(c)
    <2>1. job[c].p \in 1..Len(specs)
      BY <1>2 DEF RestartDone, Finishes, Base, CountsInv, JobShape
    <2>2. specs[job[c].p] \in Nat
      BY <2>1, SpecCounts DEF Base
    <2> QED
      BY <1>2, <2>2, CarriedStart DEF RestartDone
  <1>3. CASE ScaleDownDone(c)
    BY <1>3, CarriedScaleDone
  <1>4. CASE StopReturns(c) \/ StopDone(c) \/ DeleteDone(c) \/ ShutdownDone(c)
    BY <1>4, CarriedSame DEF Base, StopReturns, StopDone, DeleteDone, ShutdownDone
  <1> QED
    BY <1>1, <1>2, <1>3, <1>4 DEF Serve

(* A request.                                                                 *)
LEMMA CarriedRequest ==
  ASSUME Base, NEW c \in Clients, Request(c)
  PROVE  Carried
  <1>1. CASE Delete(c)
    <2>1. UNCHANGED <<inst, arrays>> /\ nextIdx' = 0 /\ runners' = NoRunners
      BY <1>1 DEF Delete
    <2>2. RunnerTypes' /\ InstGrows
      BY <2>1, RunnerFields DEF Base, RunnerTypes, InstGrows
    <2>3. SliceTypes' /\ ArraysGrow
      BY <2>1, SliceFields DEF Base, SliceTypes, ArraysGrow, NoRunners
    <2>4. TrackedHeader'
      BY <2>1, SliceFields DEF Base, TrackedHeader, Header, NoRunners
    <2> QED
      BY <2>2, <2>3, <2>4 DEF Carried
  <1>2. CASE ScaleDown(c)
    BY <1>2, CarriedScaleDown
  <1>3. CASE RequestReload(c)
    BY <1>3, CarriedReload DEF RequestReload
  <1>4. CASE Stop(c) \/ Restart(c) \/ Shutdown(c)
    BY <1>4, CarriedSame DEF Base, Stop, Restart, Shutdown
  <1> QED
    BY <1>1, <1>2, <1>3, <1>4 DEF Request

(* A reload going on.                                                         *)
LEMMA CarriedRoll ==
  ASSUME Base, NEW k \in DOMAIN rolls, Roll(k)
  PROVE  Carried
  <1>1. CASE RollLaunch(k)
    <2>1. PICK slot \in Nat : slot = inst[Head(rolls[k].todo)].slot
      BY <1>1, RollFields, RunnerFields DEF Base, RollLaunch
    <2>2. NewRunners(1, slot) /\ UNCHANGED <<arrays, runners>>
      BY <1>1, <2>1 DEF RollLaunch
    <2>3. RunnerTypes' /\ InstGrows
      BY <2>2, RunnersAdded DEF Base
    <2> QED
      BY <2>2, <2>3, CarriedMarks DEF Base
  <1>2. CASE RollSwap(k)
    BY <1>2, CarriedSwap
  <1>3. CASE RollAbort(k)
    <2>1. PICK r : r = rolls[k].new
      OBVIOUS
    <2>2. r \in Runners
      BY <1>3, <2>1, RollFields DEF RollAbort, Base
    <2>3. inst' = [inst EXCEPT ![r].stopped = TRUE]
          /\ UNCHANGED <<nextIdx, arrays, runners>>
      BY <1>3, <2>1 DEF RollAbort, GivenUp
    <2> QED
      BY <2>2, <2>3, CarriedStop
  <1>4. ASSUME NEW old \in Runners, DrainTell(k, old) PROVE Carried
    BY <1>4, CarriedStop DEF DrainTell
  <1>5. ASSUME NEW old \in Runners, DrainDone(k, old) PROVE Carried
    BY <1>5, CarriedSame DEF Base, DrainDone
  <1>6. CASE RollAbortDone(k) \/ RollDone(k)
    BY <1>6, CarriedSame DEF Base, RollAbortDone, RollDone
  <1> QED
    BY <1>1, <1>2, <1>3, <1>4, <1>5, <1>6 DEF Roll

(* Every step.                                                                *)
LEMMA StepCarried == Base /\ [Next]_vars => Carried
  <1> SUFFICES ASSUME Base, [Next]_vars PROVE Carried
    OBVIOUS
  <1>1. CASE Start
    <2>1. svc # 0 => specs[svc] \in Nat
      BY SpecCounts DEF Base
    <2>2. CASE svc # 0 /\ StartInstances(svc, specs[svc])
      BY <2>1, <2>2, CarriedStart
    <2>3. ASSUME NEW n \in Counts, StartInstances(Len(specs) + 1, n) PROVE Carried
      BY <2>3, CarriedStart, DaemonAssumption
    <2> QED
      BY <1>1, <2>2, <2>3 DEF Start
  <1>2. CASE Resurrect
    <2>1. saved \in Nat
      BY DaemonAssumption DEF Base, CountsInv
    <2> QED
      BY <1>2, <2>1, CarriedStart DEF Resurrect
  <1>3. CASE ScaleUp
    BY <1>3, CarriedScaleUp
  <1>4. CASE Save \/ WatcherFires \/ WatcherRefused
    BY <1>4, CarriedSame DEF Base, Save, WatcherFires, WatcherRefused
  <1>5. ASSUME NEW c \in Clients, Request(c) PROVE Carried
    BY <1>5, CarriedRequest
  <1>6. ASSUME NEW c \in Clients, Serve(c) PROVE Carried
    BY <1>6, CarriedServe
  <1>7. ASSUME NEW c \in Clients, WatcherReloads(c) PROVE Carried
    BY <1>7, CarriedReload DEF WatcherReloads
  <1>8. ASSUME NEW k \in DOMAIN rolls, Roll(k) PROVE Carried
    BY <1>8, CarriedRoll
  <1>9. ASSUME NEW r \in Runners, Report(r) PROVE Carried
    <2>1. inst' = [inst EXCEPT ![r].over = inst[r].stopped] /\ ~inst[r].over
          /\ UNCHANGED <<nextIdx, arrays, runners>>
      BY <1>9 DEF Report
    <2>2. RunnerTypes' /\ InstGrows
      BY <2>1, RunnerReported DEF Base
    <2> QED
      BY <2>1, <2>2, CarriedMarks DEF Base
  <1>10. CASE UNCHANGED vars
    BY <1>10, CarriedSame DEF Base, vars
  <1> QED
    BY <1>1, <1>2, <1>3, <1>4, <1>5, <1>6, <1>7, <1>8, <1>9, <1>10 DEF Next

(* Process objects only get more.                                             *)
LEMMA StepSpecs ==
  CountsInv /\ [Next]_vars =>
    Len(specs) \in Nat /\ Len(specs') \in Nat /\ Len(specs) <= Len(specs')
  <1> SUFFICES ASSUME CountsInv, [Next]_vars
               PROVE  Len(specs) \in Nat /\ Len(specs') \in Nat /\ Len(specs) <= Len(specs')
    OBVIOUS
  <1>1. specs \in Seq(Counts) /\ Len(specs) \in Nat
    BY LenProperties DEF CountsInv
  <1>2. CASE UNCHANGED specs
    BY <1>1, <1>2
  <1>3. ASSUME NEW n, specs' = Append(specs, n) PROVE Len(specs') = Len(specs) + 1
    <2>1. specs \in Seq(Counts \cup {n})
      BY <1>1, SeqMonotonic
    <2> QED
      BY <1>3, <2>1, AppendProperties
  <1>4. ASSUME NEW p, NEW n, specs' = [specs EXCEPT ![p] = n] PROVE Len(specs') = Len(specs)
    <2>1. specs \in Seq(Counts \cup {n})
      BY <1>1, SeqMonotonic
    <2>2. CASE p \in 1..Len(specs)
      BY <1>4, <2>1, <2>2, ExceptSeq
    <2>3. CASE p \notin 1..Len(specs)
      <3>1. DOMAIN specs = 1..Len(specs) /\ specs = [q \in 1..Len(specs) |-> specs[q]]
        BY <1>1, LenProperties
      <3>2. specs' = specs
        BY <1>4, <2>3, <3>1
      <3> QED
        BY <3>2
    <2> QED
      BY <2>2, <2>3
  <1>5. \/ UNCHANGED specs
        \/ \E n : specs' = Append(specs, n)
        \/ \E p, n : specs' = [specs EXCEPT ![p] = n]
    <2>1. CASE Start
      BY <2>1 DEF Start
    <2>2. CASE Resurrect \/ ScaleUp
      BY <2>2 DEF Resurrect, ScaleUp
    <2>3. CASE Save \/ WatcherFires \/ WatcherRefused
      BY <2>3 DEF Save, WatcherFires, WatcherRefused, storeVars
    <2>4. ASSUME NEW c, Reload(c) PROVE UNCHANGED specs
      BY <2>4 DEF Reload, ReloadPortless, ReloadStarts, ReloadRolls, storeVars
    <2>5. ASSUME NEW c \in Clients, Request(c) PROVE UNCHANGED specs
      BY <2>4, <2>5 DEF Request, Stop, Restart, Delete, ScaleDown, Shutdown,
                        RequestReload, storeVars
    <2>6. ASSUME NEW c \in Clients, Serve(c)
          PROVE  UNCHANGED specs \/ \E p, n : specs' = [specs EXCEPT ![p] = n]
      BY <2>6 DEF Serve, TellStop, StopReturns, StopDone, RestartDone, DeleteDone,
                  ScaleDownDone, ShutdownDone, storeVars
    <2>7. ASSUME NEW k \in DOMAIN rolls, Roll(k) PROVE UNCHANGED specs
      BY <2>7 DEF Roll, RollLaunch, RollSwap, RollAbort, RollAbortDone, RollDone,
                  DrainTell, DrainDone, storeVars
    <2>8. ASSUME NEW r \in Runners, Report(r) PROVE UNCHANGED specs
      BY <2>8 DEF Report
    <2>9. CASE UNCHANGED vars
      BY <2>9 DEF vars, storeVars
    <2> QED
      BY <2>1, <2>2, <2>3, <2>4, <2>5, <2>6, <2>7, <2>8, <2>9 DEF Next, WatcherReloads
  <1> QED
    BY <1>1, <1>2, <1>3, <1>4, <1>5

(* Nothing a handler refers to goes away.                                     *)
MoreOfAll ==
  /\ Len(inst) \in Nat /\ Len(inst') \in Nat /\ Len(inst) <= Len(inst')
  /\ Len(arrays) \in Nat /\ Len(arrays') \in Nat /\ Len(arrays) <= Len(arrays')
  /\ Len(specs) \in Nat /\ Len(specs') \in Nat /\ Len(specs) <= Len(specs')

(* So it is at every step.                                                    *)
LEMMA StepMore == Base /\ [Next]_vars => Carried /\ MoreOfAll
  <1> SUFFICES ASSUME Base, [Next]_vars PROVE Carried /\ MoreOfAll
    OBVIOUS
  <1>1. Carried
    BY StepCarried
  <1>2. Len(specs) \in Nat /\ Len(specs') \in Nat /\ Len(specs) <= Len(specs')
    BY StepSpecs DEF Base
  <1>3. Len(inst) \in Nat /\ Len(arrays) \in Nat
    BY RunnerFields, SliceFields DEF Base
  <1>4. Len(inst') \in Nat /\ Len(arrays') \in Nat
    BY <1>1, LenProperties DEF Carried, RunnerTypes, SliceTypes
  <1> QED
    BY <1>1, <1>2, <1>3, <1>4 DEF Carried, InstGrows, ArraysGrow, MoreOfAll

(* A handler under way stays good.                                            *)
LEMMA JobKept ==
  ASSUME Base, Carried, MoreOfAll,
         NEW j \in JobSets(Len(arrays), Len(inst), Len(specs)), Header(j.arr, j.n)
  PROVE  j \in JobSets(Len(arrays'), Len(inst'), Len(specs')) /\ Header(j.arr, j.n)'
  <1>1. j \in JobSets(Len(arrays'), Len(inst'), Len(specs'))
    BY DEF JobSets, MoreOfAll
  <1>2. Header(j.arr, j.n)'
    BY HeaderKept DEF Base, Carried, MoreOfAll
  <1> QED
    BY <1>1, <1>2

(* What a handler may become in a step.                                       *)
Good(j) == j \in JobSets(Len(arrays), Len(inst), Len(specs)) /\ Header(j.arr, j.n)

(* One handler goes on, begins or ends.                                       *)
LEMMA JobWritten ==
  ASSUME Base, Carried, MoreOfAll, NEW c \in Clients, NEW j, Good(j)',
         job' = [job EXCEPT ![c] = j]
  PROVE  JobTypes'
  <1>1. job = [d \in Clients |-> job[d]]
    BY DEF Base, JobTypes
  <1>2. job' = [d \in Clients |-> IF d = c THEN j ELSE job[d]]
    BY <1>1
  <1>3. ASSUME NEW d \in Clients, NEW x, x = job'[d]
        PROVE  x \in JobSets(Len(arrays'), Len(inst'), Len(specs')) /\ Header(x.arr, x.n)'
    <2>1. CASE d = c
      BY <1>2, <1>3, <2>1 DEF Good
    <2>2. CASE d # c
      <3>1. x = job[d]
        BY <1>2, <1>3, <2>2
      <3>2. x \in JobSets(Len(arrays), Len(inst), Len(specs)) /\ Header(x.arr, x.n)
        BY <3>1 DEF Base, JobTypes
      <3> QED
        BY <3>2, JobKept
    <2> QED
      BY <2>1, <2>2
  <1>4. \A d \in Clients : /\ job'[d] \in JobSets(Len(arrays'), Len(inst'), Len(specs'))
                            /\ Header(job[d].arr, job[d].n)'
    <2> TAKE d \in Clients
    <2>1. PICK x : x = job'[d]
      OBVIOUS
    <2>2. x \in JobSets(Len(arrays'), Len(inst'), Len(specs')) /\ Header(x.arr, x.n)'
      BY <1>3, <2>1
    <2> QED
      BY <2>1, <2>2 DEF Header
  <1>5. job' \in [Clients -> JobSets(Len(arrays'), Len(inst'), Len(specs'))]
    BY <1>2, <1>4
  <1> QED
    BY <1>4, <1>5 DEF JobTypes

(* No handler does anything.                                                  *)
LEMMA JobsUntouched ==
  ASSUME Base, Carried, MoreOfAll, job' = job
  PROVE  JobTypes'
  <1>1. \A d \in Clients : /\ job'[d] \in JobSets(Len(arrays'), Len(inst'), Len(specs'))
                            /\ Header(job[d].arr, job[d].n)'
    <2> TAKE d \in Clients
    <2>1. PICK x : x = job[d]
      OBVIOUS
    <2>2. x \in JobSets(Len(arrays), Len(inst), Len(specs)) /\ Header(x.arr, x.n)
      BY <2>1 DEF Base, JobTypes
    <2>3. x \in JobSets(Len(arrays'), Len(inst'), Len(specs')) /\ Header(x.arr, x.n)'
      BY <2>2, JobKept
    <2> QED
      BY <2>1, <2>3 DEF Header
  <1>2. job' \in [Clients -> JobSets(Len(arrays'), Len(inst'), Len(specs'))]
    BY <1>1 DEF Base, JobTypes
  <1> QED
    BY <1>1, <1>2 DEF JobTypes

(* A stop begins, on the handler's own record.                                *)
LEMMA JobTold ==
  ASSUME NEW a, NEW m, NEW p, NEW x \in JobSets(a, m, p), NEW r \in 0..m,
         NEW y, y = [x EXCEPT !.r = r]
  PROVE  /\ y = [op |-> x.op, arr |-> x.arr, i |-> x.i, n |-> x.n, r |-> r,
                 p |-> x.p, goal |-> x.goal]
         /\ y \in JobSets(a, m, p)
  <1>1. /\ x = [op |-> x.op, arr |-> x.arr, i |-> x.i, n |-> x.n, r |-> x.r,
                p |-> x.p, goal |-> x.goal]
        /\ x.op \in {"none", "stop", "restart", "delete", "scale", "shutdown"}
        /\ x.arr \in 0..a /\ x.i \in Nat \ {0} /\ x.n \in Nat /\ x.p \in 0..p
        /\ x.goal \in Nat
    BY DEF JobSets
  <1>2. y = [op |-> x.op, arr |-> x.arr, i |-> x.i, n |-> x.n, r |-> r, p |-> x.p,
             goal |-> x.goal]
    BY <1>1
  <1> QED
    BY <1>1, <1>2 DEF JobSets

(* It returns, and the next runner is up.                                     *)
LEMMA JobAdvanced ==
  ASSUME NEW a, NEW m, NEW p, NEW x \in JobSets(a, m, p), NEW i \in Nat \ {0},
         NEW y, y = [x EXCEPT !.i = i]
  PROVE  /\ y = [op |-> x.op, arr |-> x.arr, i |-> i, n |-> x.n, r |-> x.r,
                 p |-> x.p, goal |-> x.goal]
         /\ y \in JobSets(a, m, p)
  <1>1. /\ x = [op |-> x.op, arr |-> x.arr, i |-> x.i, n |-> x.n, r |-> x.r,
                p |-> x.p, goal |-> x.goal]
        /\ x.op \in {"none", "stop", "restart", "delete", "scale", "shutdown"}
        /\ x.arr \in 0..a /\ x.n \in Nat /\ x.r \in 0..m /\ x.p \in 0..p
        /\ x.goal \in Nat
    BY DEF JobSets
  <1>2. y = [op |-> x.op, arr |-> x.arr, i |-> i, n |-> x.n, r |-> x.r, p |-> x.p,
             goal |-> x.goal]
    BY <1>1
  <1> QED
    BY <1>1, <1>2 DEF JobSets

(* A handler that begins has the tracked slice in hand.                       *)
LEMMA JobBegun ==
  ASSUME Base, Carried, MoreOfAll,
         NEW op \in {"stop", "restart", "delete", "scale", "shutdown"},
         NEW i \in Nat \ {0}, NEW goal \in Nat, NEW j, j = Job(op, i, goal)
  PROVE  Good(j)'
  <1>1. /\ runners.arr \in 0..Len(arrays) /\ runners.len \in Nat
        /\ svc \in 0..Len(specs)
    BY SliceFields DEF Base, CountsInv
  <1>2. j = [op |-> op, arr |-> runners.arr, i |-> i, n |-> runners.len, r |-> 0,
             p |-> svc, goal |-> goal]
    BY DEF Job
  <1>3. j \in JobSets(Len(arrays), Len(inst), Len(specs))
    BY <1>1, <1>2 DEF JobSets, MoreOfAll
  <1>4. Header(j.arr, j.n)
    BY <1>2 DEF Base, TrackedHeader
  <1> QED
    BY <1>3, <1>4, JobKept DEF Good

(* A handler that begins to stop runners.                                     *)
LEMMA LoopJobs ==
  ASSUME Base, Carried, MoreOfAll, NEW c \in Clients,
         NEW op \in {"stop", "restart", "delete", "shutdown"}, Loop(c, op)
  PROVE  JobTypes'
  <1>1. PICK j : j = Job(op, 1, 0)
    OBVIOUS
  <1>2. job' = [job EXCEPT ![c] = j]
    BY <1>1 DEF Loop
  <1>3. Good(j)'
    BY <1>1, JobBegun
  <1> QED
    BY <1>2, <1>3, JobWritten

(* A handler that ends.                                                       *)
LEMMA FinishJobs ==
  ASSUME Base, Carried, MoreOfAll, NEW c \in Clients, NEW op, Finishes(c, op)
  PROVE  JobTypes'
  <1>1. NoJob \in JobSets(Len(arrays'), Len(inst'), Len(specs'))
    BY DEF NoJob, JobSets, MoreOfAll
  <1>2. NoJob.arr = 0 /\ NoJob.n = 0
    BY DEF NoJob
  <1>3. Header(NoJob.arr, NoJob.n)'
    BY <1>2 DEF Header, MoreOfAll
  <1>4. job' = [job EXCEPT ![c] = NoJob]
    BY DEF Finishes
  <1> QED
    BY <1>1, <1>3, <1>4, JobWritten DEF Good

(* A reload of a service without a port stops its runners.                    *)
LEMMA ReloadJobs ==
  ASSUME Base, Carried, MoreOfAll, NEW c \in Clients, Reload(c)
  PROVE  JobTypes'
  <1>1. CASE ReloadPortless(c)
    BY <1>1, LoopJobs DEF ReloadPortless
  <1>2. CASE ReloadStarts \/ ReloadRolls
    BY <1>2, JobsUntouched DEF ReloadStarts, ReloadRolls
  <1> QED
    BY <1>1, <1>2 DEF Reload

(* A request.                                                                 *)
LEMMA RequestJobs ==
  ASSUME Base, Carried, MoreOfAll, NEW c \in Clients, Request(c)
  PROVE  JobTypes'
  <1>1. CASE Stop(c)
    BY <1>1, LoopJobs DEF Stop
  <1>2. CASE Restart(c)
    BY <1>2, LoopJobs DEF Restart
  <1>3. CASE Delete(c)
    BY <1>3, LoopJobs, JobsUntouched DEF Delete
  <1>4. CASE Shutdown(c)
    BY <1>4, LoopJobs DEF Shutdown
  <1>5. CASE ScaleDown(c)
    <2>1. PICK n \in Counts : job' = [job EXCEPT ![c] = Job("scale", n + 1, n)]
      BY <1>5 DEF ScaleDown
    <2>2. PICK j : j = Job("scale", n + 1, n)
      OBVIOUS
    <2>3. n \in Nat /\ n + 1 \in Nat \ {0}
      BY DaemonAssumption
    <2>4. Good(j)'
      BY <2>2, <2>3, JobBegun
    <2> QED
      BY <2>1, <2>2, <2>4, JobWritten
  <1>6. CASE RequestReload(c)
    BY <1>6, ReloadJobs DEF RequestReload
  <1> QED
    BY <1>1, <1>2, <1>3, <1>4, <1>5, <1>6 DEF Request

(* A handler tells its next runner to stop.                                   *)
LEMMA ToldJob ==
  ASSUME Base, NEW c \in Clients, TellStop(c)
  PROVE  \E r \in Runners, j \in JobSets(Len(arrays), Len(inst), Len(specs)) :
           /\ r = arrays[job[c].arr][job[c].i] /\ job[c].i \in 1..job[c].n
           /\ inst' = [inst EXCEPT ![r].stopped = TRUE]
           /\ job' = [job EXCEPT ![c] = j]
           /\ j = [op |-> job[c].op, arr |-> job[c].arr, i |-> job[c].i, n |-> job[c].n,
                   r |-> r, p |-> job[c].p, goal |-> job[c].goal]
  <1>1. PICK r \in Runners : r = arrays[job[c].arr][job[c].i]
    BY ToldRunner
  <1>2. job[c].i \in 1..job[c].n
    BY ToldRunner
  <1>3. PICK x, j : x = job[c] /\ j = [x EXCEPT !.r = r]
    OBVIOUS
  <1>4. job' = [job EXCEPT ![c] = j] /\ inst' = [inst EXCEPT ![r].stopped = TRUE]
    BY <1>1, <1>3 DEF TellStop
  <1>5. r \in 0..Len(inst) /\ x \in JobSets(Len(arrays), Len(inst), Len(specs))
    BY <1>3, RunnerFields, JobFields DEF Base, Runners
  <1>6. /\ j = [op |-> x.op, arr |-> x.arr, i |-> x.i, n |-> x.n, r |-> r,
                p |-> x.p, goal |-> x.goal]
        /\ j \in JobSets(Len(arrays), Len(inst), Len(specs))
    BY <1>3, <1>5, JobTold
  <1> QED
    BY <1>1, <1>2, <1>3, <1>4, <1>6

(* The runner has stopped.                                                    *)
LEMMA ReturnedJob ==
  ASSUME Base, NEW c \in Clients, StopReturns(c)
  PROVE  \E j \in JobSets(Len(arrays), Len(inst), Len(specs)) :
           /\ job' = [job EXCEPT ![c] = j]
           /\ j = [op |-> job[c].op, arr |-> job[c].arr, i |-> job[c].i + 1,
                   n |-> job[c].n, r |-> 0, p |-> job[c].p, goal |-> job[c].goal]
  <1>1. PICK x, y, k, j : /\ x = job[c] /\ y = [x EXCEPT !.r = 0]
                          /\ k = x.i + 1 /\ j = [y EXCEPT !.i = k]
    OBVIOUS
  <1>2. job' = [job EXCEPT ![c] = j]
    BY <1>1 DEF StopReturns
  <1>3. 0 \in 0..Len(inst) /\ x \in JobSets(Len(arrays), Len(inst), Len(specs))
    BY <1>1, RunnerFields, JobFields DEF Base
  <1>4. /\ y = [op |-> x.op, arr |-> x.arr, i |-> x.i, n |-> x.n, r |-> 0,
                p |-> x.p, goal |-> x.goal]
        /\ y \in JobSets(Len(arrays), Len(inst), Len(specs))
    BY <1>1, <1>3, JobTold
  <1>5. k \in Nat \ {0}
    BY <1>1, <1>3 DEF JobSets
  <1>6. /\ j = [op |-> y.op, arr |-> y.arr, i |-> k, n |-> y.n, r |-> y.r,
                p |-> y.p, goal |-> y.goal]
        /\ j \in JobSets(Len(arrays), Len(inst), Len(specs))
    BY <1>1, <1>4, <1>5, JobAdvanced
  <1> QED
    BY <1>1, <1>2, <1>4, <1>6

(* A handler going on.                                                        *)
LEMMA ServeJobs ==
  ASSUME Base, Carried, MoreOfAll, NEW c \in Clients, Serve(c)
  PROVE  JobTypes'
  <1>0. Header(job[c].arr, job[c].n)
    BY DEF Base, JobTypes
  <1>1. CASE TellStop(c)
    <2>1. PICK j \in JobSets(Len(arrays), Len(inst), Len(specs)) :
            job' = [job EXCEPT ![c] = j] /\ j.arr = job[c].arr /\ j.n = job[c].n
      BY <1>1, ToldJob
    <2> QED
      BY <1>0, <2>1, JobKept, JobWritten DEF Good
  <1>2. CASE StopReturns(c)
    <2>1. PICK j \in JobSets(Len(arrays), Len(inst), Len(specs)) :
            job' = [job EXCEPT ![c] = j] /\ j.arr = job[c].arr /\ j.n = job[c].n
      BY <1>2, ReturnedJob
    <2> QED
      BY <1>0, <2>1, JobKept, JobWritten DEF Good
  <1>3. CASE StopDone(c) \/ RestartDone(c) \/ DeleteDone(c) \/ ScaleDownDone(c)
               \/ ShutdownDone(c)
    BY <1>3, FinishJobs DEF StopDone, RestartDone, DeleteDone, ScaleDownDone, ShutdownDone
  <1> QED
    BY <1>1, <1>2, <1>3 DEF Serve

(* Every step.                                                                *)
LEMMA StepJobs == Base /\ [Next]_vars => JobTypes'
  <1> SUFFICES ASSUME Base, [Next]_vars PROVE JobTypes'
    OBVIOUS
  <1> Carried /\ MoreOfAll
    BY StepMore
  <1>1. CASE Start \/ Resurrect \/ ScaleUp \/ Save \/ WatcherFires \/ WatcherRefused
    BY <1>1, JobsUntouched DEF Start, Resurrect, ScaleUp, Save, WatcherFires, WatcherRefused
  <1>2. ASSUME NEW c \in Clients, Request(c) PROVE JobTypes'
    BY <1>2, RequestJobs
  <1>3. ASSUME NEW c \in Clients, Serve(c) PROVE JobTypes'
    BY <1>3, ServeJobs
  <1>4. ASSUME NEW c \in Clients, WatcherReloads(c) PROVE JobTypes'
    BY <1>4, ReloadJobs DEF WatcherReloads
  <1>5. ASSUME NEW k \in DOMAIN rolls, Roll(k) PROVE JobTypes'
    BY <1>5, JobsUntouched DEF Roll, RollLaunch, RollSwap, RollAbort, RollAbortDone,
                               RollDone, DrainTell, DrainDone
  <1>6. ASSUME NEW r \in Runners, Report(r) PROVE JobTypes'
    BY <1>6, JobsUntouched DEF Report
  <1>7. CASE UNCHANGED vars
    BY <1>7, JobsUntouched DEF vars
  <1> QED
    BY <1>1, <1>2, <1>3, <1>4, <1>5, <1>6, <1>7 DEF Next

(* While nobody has the critical section no scale-down is under way.          *)
LEMMA NoScale == Base /\ mu = 0 => \A c \in Clients : job[c].op # "scale"
  BY DaemonAssumption DEF Base, ScaleAlone

(* No handler moves, and the slice stays or the section is free.              *)
LEMMA AloneSame ==
  ASSUME Base, UNCHANGED <<mu, job>>, mu = 0 \/ UNCHANGED runners
  PROVE  ScaleAlone'
  <1>1. CASE mu = 0
    BY <1>1, NoScale DEF Base, ScaleAlone
  <1>2. CASE UNCHANGED runners
    BY <1>2 DEF Base, ScaleAlone
  <1> QED
    BY <1>1, <1>2

(* A handler that is no scale-down begins or ends.                            *)
LEMMA AloneOther ==
  ASSUME Base, NEW c \in Clients, NEW j, job' = [job EXCEPT ![c] = j],
         j.op # "scale", job[c].op # "scale",
         UNCHANGED mu, mu = 0 \/ UNCHANGED runners
  PROVE  ScaleAlone'
  <1>1. \A d \in Clients : job'[d] = IF d = c THEN j ELSE job[d]
    BY DEF Base, JobTypes
  <1>2. mu # 0 => mu # c /\ mu \in Clients
    BY DEF Base, ScaleAlone
  <1>3. \A d \in Clients : job'[d].op = "scale" => job[d].op = "scale" /\ job'[d] = job[d]
    BY <1>1
  <1>4. CASE mu = 0
    BY <1>3, <1>4, NoScale DEF Base, ScaleAlone
  <1>5. CASE UNCHANGED runners
    BY <1>1, <1>2, <1>3, <1>5 DEF Base, ScaleAlone
  <1> QED
    BY <1>4, <1>5

(* A handler that begins to stop runners.                                     *)
LEMMA LoopAlone ==
  ASSUME Base, NEW c \in Clients, NEW op, op # "scale", Loop(c, op), Free, UNCHANGED mu
  PROVE  ScaleAlone'
  <1>1. PICK j : j = Job(op, 1, 0)
    OBVIOUS
  <1>2. job' = [job EXCEPT ![c] = j] /\ job[c] = NoJob
    BY <1>1 DEF Loop
  <1>3. j.op = op /\ job[c].op = "none"
    BY <1>1, <1>2 DEF Job, NoJob
  <1> QED
    BY <1>2, <1>3, AloneOther DEF Free

(* A handler that ends.                                                       *)
LEMMA FinishAlone ==
  ASSUME Base, NEW c \in Clients, NEW op, op # "scale", Finishes(c, op),
         UNCHANGED mu, mu = 0 \/ UNCHANGED runners
  PROVE  ScaleAlone'
  <1>1. job' = [job EXCEPT ![c] = NoJob] /\ job[c].op = op
    BY DEF Finishes
  <1>2. NoJob.op # "scale"
    BY DEF NoJob
  <1> QED
    BY <1>1, <1>2, AloneOther

(* A handler that goes on.                                                    *)
LEMMA AloneGoesOn ==
  ASSUME Base, NEW c \in Clients, NEW j, job' = [job EXCEPT ![c] = j],
         j.op = job[c].op, j.arr = job[c].arr, j.n = job[c].n, j.goal = job[c].goal,
         j.i \in Nat, job[c].i <= j.i, UNCHANGED <<mu, runners>>
  PROVE  ScaleAlone'
  <1>1. \A d \in Clients : job'[d] = IF d = c THEN j ELSE job[d]
    BY DEF Base, JobTypes
  <1>2. job[c].goal \in Nat /\ job[c].i \in Nat
    BY JobFields DEF Base
  <1>3. ASSUME NEW d \in Clients, job'[d].op = "scale"
        PROVE  /\ d = mu /\ job'[d].arr = runners.arr /\ job'[d].n = runners.len
               /\ job'[d].goal < job'[d].n /\ job'[d].goal < job'[d].i
    <2>1. /\ job[d].op = "scale" /\ job'[d].arr = job[d].arr /\ job'[d].n = job[d].n
          /\ job'[d].goal = job[d].goal
      BY <1>1, <1>3
    <2>2. job[d].goal < job[d].i
      BY <2>1 DEF Base, ScaleAlone
    <2>3. job'[d].goal < job'[d].i
      BY <1>1, <1>2, <2>2
    <2> QED
      BY <2>1, <2>3 DEF Base, ScaleAlone
  <1>4. mu # 0 => job'[mu].op = "scale" /\ mu \in Clients
    BY <1>1 DEF Base, ScaleAlone
  <1> QED
    BY <1>3, <1>4 DEF Base, ScaleAlone

(* A reload, whoever asks for it.                                             *)
LEMMA ReloadAlone ==
  ASSUME Base, NEW c \in Clients, Reload(c)
  PROVE  ScaleAlone'
  <1> Free /\ mu = 0 /\ UNCHANGED mu
    BY DEF Reload, Free
  <1>1. CASE ReloadPortless(c)
    BY <1>1, LoopAlone DEF ReloadPortless
  <1>2. CASE ReloadStarts \/ ReloadRolls
    BY <1>2, AloneSame DEF ReloadStarts, ReloadRolls
  <1> QED
    BY <1>1, <1>2 DEF Reload

(* A request.                                                                 *)
LEMMA RequestAlone ==
  ASSUME Base, NEW c \in Clients, Request(c)
  PROVE  ScaleAlone'
  <1>1. CASE Stop(c) \/ Restart(c) \/ Shutdown(c)
    BY <1>1, LoopAlone DEF Stop, Restart, Shutdown
  <1>2. CASE Delete(c)
    BY <1>2, LoopAlone, AloneSame DEF Delete, Free
  <1>3. CASE ScaleDown(c)
    <2>1. PICK n \in Counts : /\ n < runners.len
                              /\ job' = [job EXCEPT ![c] = Job("scale", n + 1, n)]
      BY <1>3, CarriedScaleDown
    <2>2. mu = 0 /\ mu' = c /\ c # 0 /\ UNCHANGED runners
      BY <1>3, DaemonAssumption DEF ScaleDown, Free
    <2>3. PICK j : j = Job("scale", n + 1, n)
      OBVIOUS
    <2>4. /\ j.op = "scale" /\ j.arr = runners.arr /\ j.n = runners.len
          /\ j.goal = n /\ j.i = n + 1 /\ n \in Nat
      BY <2>3, DaemonAssumption DEF Job
    <2>5. \A d \in Clients : job'[d] = IF d = c THEN j ELSE job[d]
      BY <2>1, <2>3 DEF Base, JobTypes
    <2>6. \A d \in Clients : job[d].op # "scale"
      BY <2>2, NoScale
    <2> QED
      BY <2>1, <2>2, <2>4, <2>5, <2>6 DEF ScaleAlone
  <1>4. CASE RequestReload(c)
    BY <1>4, ReloadAlone DEF RequestReload
  <1> QED
    BY <1>1, <1>2, <1>3, <1>4 DEF Request

(* A handler going on.                                                        *)
LEMMA ServeAlone ==
  ASSUME Base, NEW c \in Clients, Serve(c)
  PROVE  ScaleAlone'
  <1>0. job[c].i \in Nat
    BY JobFields DEF Base
  <1>1. CASE TellStop(c)
    <2>1. PICK r, j : /\ job' = [job EXCEPT ![c] = j]
                      /\ j = [op |-> job[c].op, arr |-> job[c].arr, i |-> job[c].i,
                              n |-> job[c].n, r |-> r, p |-> job[c].p,
                              goal |-> job[c].goal]
      BY <1>1, ToldJob
    <2>2. UNCHANGED mu /\ UNCHANGED runners
      BY <1>1 DEF TellStop
    <2>3. j.op = job[c].op /\ j.arr = job[c].arr /\ j.n = job[c].n /\ j.goal = job[c].goal
      BY <2>1
    <2>4. j.i \in Nat /\ job[c].i <= j.i
      BY <1>0, <2>1
    <2>5. job' = [job EXCEPT ![c] = j]
      BY <2>1
    <2> QED
      BY <2>2, <2>3, <2>4, <2>5, AloneGoesOn
  <1>2. CASE StopReturns(c)
    <2>1. PICK j : /\ job' = [job EXCEPT ![c] = j]
                   /\ j = [op |-> job[c].op, arr |-> job[c].arr, i |-> job[c].i + 1,
                           n |-> job[c].n, r |-> 0, p |-> job[c].p, goal |-> job[c].goal]
      BY <1>2, ReturnedJob
    <2>2. UNCHANGED mu /\ UNCHANGED runners
      BY <1>2 DEF StopReturns, runnerVars
    <2>3. j.op = job[c].op /\ j.arr = job[c].arr /\ j.n = job[c].n /\ j.goal = job[c].goal
      BY <2>1
    <2>4. j.i \in Nat /\ job[c].i <= j.i
      BY <1>0, <2>1
    <2>5. job' = [job EXCEPT ![c] = j]
      BY <2>1
    <2> QED
      BY <2>2, <2>3, <2>4, <2>5, AloneGoesOn
  <1>3. CASE ScaleDownDone(c)
    <2>1. job[c].op = "scale" /\ mu' = 0 /\ job' = [job EXCEPT ![c] = NoJob]
      BY <1>3 DEF ScaleDownDone, Finishes, Unlock
    <2>2. \A d \in Clients : d # c => job[d].op # "scale"
      BY <2>1 DEF Base, ScaleAlone
    <2>3. \A d \in Clients : job'[d].op # "scale"
      BY <2>1, <2>2 DEF Base, JobTypes, NoJob
    <2> QED
      BY <2>1, <2>3 DEF ScaleAlone
  <1>4. CASE StopDone(c) \/ DeleteDone(c) \/ ShutdownDone(c)
    BY <1>4, FinishAlone DEF StopDone, DeleteDone, ShutdownDone, runnerVars
  <1>5. CASE RestartDone(c)
    BY <1>5, FinishAlone DEF RestartDone, Free
  <1> QED
    BY <1>1, <1>2, <1>3, <1>4, <1>5 DEF Serve

(* Every step.                                                                *)
LEMMA StepAlone == Base /\ [Next]_vars => ScaleAlone'
  <1> SUFFICES ASSUME Base, [Next]_vars PROVE ScaleAlone'
    OBVIOUS
  <1>1. CASE Start \/ Resurrect \/ ScaleUp
    BY <1>1, AloneSame DEF Start, Resurrect, ScaleUp, Free
  <1>2. CASE Save \/ WatcherFires \/ WatcherRefused
    BY <1>2, AloneSame DEF Save, WatcherFires, WatcherRefused, runnerVars
  <1>3. ASSUME NEW c \in Clients, Request(c) PROVE ScaleAlone'
    BY <1>3, RequestAlone
  <1>4. ASSUME NEW c \in Clients, Serve(c) PROVE ScaleAlone'
    BY <1>4, ServeAlone
  <1>5. ASSUME NEW c \in Clients, WatcherReloads(c) PROVE ScaleAlone'
    BY <1>5, ReloadAlone DEF WatcherReloads
  <1>6. ASSUME NEW k \in DOMAIN rolls, Roll(k) PROVE ScaleAlone'
    BY <1>6, AloneSame DEF Roll, RollLaunch, RollSwap, RollAbort, RollAbortDone,
                           RollDone, DrainTell, DrainDone, Free, runnerVars
  <1>7. ASSUME NEW r \in Runners, Report(r) PROVE ScaleAlone'
    BY <1>7, AloneSame DEF Report
  <1>8. CASE UNCHANGED vars
    BY <1>8, AloneSame DEF vars, runnerVars
  <1> QED
    BY <1>1, <1>2, <1>3, <1>4, <1>5, <1>6, <1>7, <1>8 DEF Next

--------------------------------------------------------------------------------
(* What a reload's record becomes.                                            *)

RollRec(a, t, w, d, s) ==
  [at |-> a, todo |-> t, new |-> w, drains |-> d, stopping |-> s]

(* A reload stays good as runners are added.                                  *)
LEMMA RollKept ==
  ASSUME NEW m \in Nat, NEW n \in Nat, m <= n, NEW x \in RollSets(m)
  PROVE  x \in RollSets(n) /\ x.todo \in Seq(1..n)
  <1>1. PICK S, T : S = 1..m /\ T = 1..n
    OBVIOUS
  <1>2. S \subseteq T
    BY <1>1
  <1>3. /\ x.at \in {"next", "probe", "abort", "done"} /\ x.todo \in Seq(S)
        /\ x.new \in 0..m /\ x.drains \subseteq S /\ x.stopping \subseteq S
        /\ x = [at |-> x.at, todo |-> x.todo, new |-> x.new, drains |-> x.drains,
                stopping |-> x.stopping]
    BY <1>1 DEF RollSets
  <1>4. x.todo \in Seq(T)
    BY <1>2, <1>3, SeqMonotonic
  <1>5. x.new \in 0..n /\ x.drains \subseteq T /\ x.stopping \subseteq T
    BY <1>2, <1>3
  <1> QED
    BY <1>1, <1>3, <1>4, <1>5 DEF RollSets

(* No reload moves.                                                           *)
LEMMA RollsUntouched ==
  ASSUME Base, MoreOfAll, UNCHANGED rolls
  PROVE  RollTypes'
  <1>1. Len(rolls) \in Nat /\ DOMAIN rolls = 1..Len(rolls)
        /\ \A k \in DOMAIN rolls : rolls[k] \in RollSets(Len(inst)) /\ RollState(rolls[k])
    BY RollFields DEF Base
  <1>2. \A k \in 1..Len(rolls) : rolls[k] \in RollSets(Len(inst'))
    BY <1>1, RollKept DEF MoreOfAll
  <1>3. rolls \in Seq(RollSets(Len(inst')))
    <2>1. PICK S : S = RollSets(Len(inst'))
      OBVIOUS
    <2>2. rolls \in [1..Len(rolls) -> S]
      <3>1. rolls = [k \in 1..Len(rolls) |-> rolls[k]]
        BY LenProperties DEF Base, RollTypes
      <3> QED
        BY <1>2, <2>1, <3>1
    <2> QED
      BY <1>1, <2>1, <2>2, SeqDef
  <1>4. \A k \in DOMAIN rolls' : RollState(rolls'[k])
    BY <1>1
  <1> QED
    BY <1>3, <1>4 DEF RollTypes, RollState, AllDrained

(* One reload moves.                                                          *)
LEMMA RollWritten ==
  ASSUME Base, MoreOfAll, NEW k \in DOMAIN rolls, NEW y \in RollSets(Len(inst')),
         RollState(y), rolls' = [rolls EXCEPT ![k] = y]
  PROVE  /\ RollTypes' /\ DOMAIN rolls' = DOMAIN rolls
         /\ \A i \in DOMAIN rolls : rolls'[i] = IF i = k THEN y ELSE rolls[i]
  <1>1. Len(rolls) \in Nat /\ DOMAIN rolls = 1..Len(rolls)
        /\ \A i \in DOMAIN rolls : rolls[i] \in RollSets(Len(inst)) /\ RollState(rolls[i])
    BY RollFields DEF Base
  <1>2. PICK S, n : S = RollSets(Len(inst')) /\ n = Len(rolls)
    OBVIOUS
  <1>3. rolls = [i \in 1..n |-> rolls[i]]
    BY <1>2, LenProperties DEF Base, RollTypes
  <1>4. rolls' = [i \in 1..n |-> IF i = k THEN y ELSE rolls[i]]
    BY <1>3
  <1>5. \A i \in 1..n : rolls[i] \in S
    BY <1>1, <1>2, RollKept DEF MoreOfAll
  <1>6. rolls' \in [1..n -> S]
    BY <1>2, <1>4, <1>5
  <1>7. rolls' \in Seq(S) /\ DOMAIN rolls' = 1..n
    <2>1. DOMAIN rolls' = 1..n
      BY <1>4
    <2>2. n \in Nat
      BY <1>1, <1>2
    <2>3. rolls' \in Seq(S)
      BY <1>6, <2>2, SeqDef
    <2> QED
      BY <2>1, <2>3
  <1>8. \A i \in DOMAIN rolls : rolls'[i] = IF i = k THEN y ELSE rolls[i]
    BY <1>1, <1>2, <1>4
  <1>9. \A i \in DOMAIN rolls' : RollState(rolls'[i])
    BY <1>1, <1>2, <1>7, <1>8
  <1> QED
    BY <1>1, <1>2, <1>7, <1>8, <1>9 DEF RollTypes, RollState, AllDrained

(* A reload begins.                                                           *)
LEMMA RollAdded ==
  ASSUME Base, MoreOfAll, NEW y \in RollSets(Len(inst')), RollState(y),
         rolls' = Append(rolls, y)
  PROVE  /\ RollTypes' /\ DOMAIN rolls' = 1..(Len(rolls) + 1)
         /\ \A i \in DOMAIN rolls' : rolls'[i] = IF i = Len(rolls) + 1 THEN y ELSE rolls[i]
  <1>1. Len(rolls) \in Nat /\ DOMAIN rolls = 1..Len(rolls)
        /\ \A i \in DOMAIN rolls : rolls[i] \in RollSets(Len(inst)) /\ RollState(rolls[i])
    BY RollFields DEF Base
  <1>2. PICK S, n : S = RollSets(Len(inst')) /\ n = Len(rolls)
    OBVIOUS
  <1>3. rolls = [i \in 1..n |-> rolls[i]]
    BY <1>2, LenProperties DEF Base, RollTypes
  <1>4. \A i \in 1..n : rolls[i] \in S
    BY <1>1, <1>2, RollKept DEF MoreOfAll
  <1>5. rolls \in Seq(S)
    <2>1. rolls \in [1..n -> S]
      BY <1>3, <1>4
    <2> QED
      BY <1>1, <1>2, <2>1, SeqDef
  <1>6. /\ rolls' \in Seq(S) /\ Len(rolls') = n + 1
        /\ \A i \in 1..n : rolls'[i] = rolls[i]
        /\ rolls'[n + 1] = y
    BY <1>2, <1>5, AppendProperties
  <1>7. DOMAIN rolls' = 1..(n + 1)
    BY <1>6, LenProperties
  <1>8. \A i \in 1..(n + 1) : rolls'[i] = IF i = n + 1 THEN y ELSE rolls[i]
    BY <1>1, <1>2, <1>6
  <1>9. \A i \in DOMAIN rolls' : RollState(rolls'[i])
    BY <1>1, <1>2, <1>7, <1>8
  <1> QED
    BY <1>2, <1>6, <1>7, <1>8, <1>9 DEF RollTypes, RollState, AllDrained

(* Its record, one field written.                                             *)
LEMMA RollField ==
  ASSUME NEW a, NEW t, NEW w, NEW d, NEW s, NEW v, NEW x, x = RollRec(a, t, w, d, s)
  PROVE  /\ [x EXCEPT !.at = v] = RollRec(v, t, w, d, s)
         /\ [x EXCEPT !.todo = v] = RollRec(a, v, w, d, s)
         /\ [x EXCEPT !.new = v] = RollRec(a, t, v, d, s)
         /\ [x EXCEPT !.drains = v] = RollRec(a, t, w, v, s)
         /\ [x EXCEPT !.stopping = v] = RollRec(a, t, w, d, v)
         /\ x.at = a /\ x.todo = t /\ x.new = w /\ x.drains = d /\ x.stopping = s
  BY DEF RollRec

(* Its record after a launch.                                                 *)
LEMMA LaunchedRoll ==
  ASSUME Base, NEW k \in DOMAIN rolls, RollLaunch(k), NEW x, x = rolls[k]
  PROVE  \E y : /\ rolls' = [rolls EXCEPT ![k] = y]
                /\ y = RollRec("probe", x.todo, Len(inst) + 1, x.drains, x.stopping)
  <1>1. x = RollRec(x.at, x.todo, x.new, x.drains, x.stopping)
    BY RollFields DEF Base, RollSets, RollRec
  <1>2. PICK w, y, z : /\ w = Len(inst) + 1 /\ y = [x EXCEPT !.at = "probe"]
                       /\ z = [y EXCEPT !.new = w]
    OBVIOUS
  <1>3. y = RollRec("probe", x.todo, x.new, x.drains, x.stopping)
    BY <1>1, <1>2, RollField
  <1>4. z = RollRec("probe", x.todo, w, x.drains, x.stopping)
    BY <1>2, <1>3 DEF RollRec
  <1>5. rolls' = [rolls EXCEPT ![k] = z]
    BY <1>2 DEF RollLaunch
  <1> QED
    BY <1>2, <1>4, <1>5

(* Its record after a swap.                                                   *)
LEMMA SwappedRoll ==
  ASSUME Base, NEW k \in DOMAIN rolls, RollSwap(k), NEW x, x = rolls[k]
  PROVE  \E y : /\ rolls' = [rolls EXCEPT ![k] = y]
                /\ y = RollRec("next", Tail(x.todo), 0, x.drains \cup {Head(x.todo)},
                               x.stopping)
  <1>1. x = RollRec(x.at, x.todo, x.new, x.drains, x.stopping)
    BY RollFields DEF Base, RollSets, RollRec
  <1>2. PICK h, t, d, y, z, u, v :
          /\ h = Head(x.todo) /\ t = Tail(x.todo) /\ d = x.drains \cup {h}
          /\ y = [x EXCEPT !.at = "next"] /\ z = [y EXCEPT !.todo = t]
          /\ u = [z EXCEPT !.new = 0] /\ v = [u EXCEPT !.drains = d]
    OBVIOUS
  <1>3. y = RollRec("next", x.todo, x.new, x.drains, x.stopping)
    BY <1>1, <1>2, RollField
  <1>4. z = RollRec("next", t, x.new, x.drains, x.stopping)
    BY <1>2, <1>3 DEF RollRec
  <1>5. u = RollRec("next", t, 0, x.drains, x.stopping)
    BY <1>2, <1>4 DEF RollRec
  <1>6. v = RollRec("next", t, 0, d, x.stopping)
    BY <1>2, <1>5 DEF RollRec
  <1>7. rolls' = [rolls EXCEPT ![k] = v]
    BY <1>2, <1>3, <1>5, RollField DEF RollSwap
  <1> QED
    BY <1>2, <1>6, <1>7

(* Its record after each of its other steps.                                  *)
LEMMA RollBecomes ==
  ASSUME Base, NEW k \in DOMAIN rolls, NEW x, x = rolls[k]
  PROVE  /\ RollAbort(k) => \E y :
              /\ rolls' = [rolls EXCEPT ![k] = y]
              /\ y = RollRec("abort", x.todo, x.new, x.drains, x.stopping)
         /\ RollAbortDone(k) => \E y :
              /\ rolls' = [rolls EXCEPT ![k] = y]
              /\ y = RollRec("next", <<>>, 0, x.drains, x.stopping)
         /\ RollDone(k) => \E y :
              /\ rolls' = [rolls EXCEPT ![k] = y]
              /\ y = RollRec("done", x.todo, x.new, x.drains, x.stopping)
  <1>1. x = RollRec(x.at, x.todo, x.new, x.drains, x.stopping)
    BY RollFields DEF Base, RollSets, RollRec
  <1>2. ASSUME RollAbort(k)
        PROVE  \E y : /\ rolls' = [rolls EXCEPT ![k] = y]
                      /\ y = RollRec("abort", x.todo, x.new, x.drains, x.stopping)
    <2>1. PICK y : y = [x EXCEPT !.at = "abort"]
      OBVIOUS
    <2>2. y = RollRec("abort", x.todo, x.new, x.drains, x.stopping)
      BY <1>1, <2>1, RollField
    <2>3. rolls' = [rolls EXCEPT ![k] = y]
      BY <1>2, <2>1 DEF RollAbort
    <2> QED
      BY <2>2, <2>3
  <1>3. ASSUME RollDone(k)
        PROVE  \E y : /\ rolls' = [rolls EXCEPT ![k] = y]
                      /\ y = RollRec("done", x.todo, x.new, x.drains, x.stopping)
    <2>1. PICK y : y = [x EXCEPT !.at = "done"]
      OBVIOUS
    <2>2. y = RollRec("done", x.todo, x.new, x.drains, x.stopping)
      BY <1>1, <2>1, RollField
    <2>3. rolls' = [rolls EXCEPT ![k] = y]
      BY <1>3, <2>1 DEF RollDone
    <2> QED
      BY <2>2, <2>3
  <1>4. ASSUME RollAbortDone(k)
        PROVE  \E y : /\ rolls' = [rolls EXCEPT ![k] = y]
                      /\ y = RollRec("next", <<>>, 0, x.drains, x.stopping)
    <2>1. PICK y, z, u : /\ y = [x EXCEPT !.at = "next"] /\ z = [y EXCEPT !.todo = <<>>]
                         /\ u = [z EXCEPT !.new = 0]
      OBVIOUS
    <2>2. y = RollRec("next", x.todo, x.new, x.drains, x.stopping)
      BY <1>1, <2>1, RollField
    <2>3. z = RollRec("next", <<>>, x.new, x.drains, x.stopping)
      BY <2>1, <2>2 DEF RollRec
    <2>4. u = RollRec("next", <<>>, 0, x.drains, x.stopping)
      BY <2>1, <2>3 DEF RollRec
    <2>5. rolls' = [rolls EXCEPT ![k] = u]
      BY <1>4, <2>1 DEF RollAbortDone
    <2> QED
      BY <2>4, <2>5
  <1> QED
    BY <1>2, <1>3, <1>4

(* Its record as a drain begins.                                              *)
LEMMA DrainingRoll ==
  ASSUME Base, NEW k \in DOMAIN rolls, NEW x, x = rolls[k], NEW old, DrainTell(k, old)
  PROVE  \E d, s, y :
           /\ d = x.drains \ {old} /\ s = x.stopping \cup {old}
           /\ rolls' = [rolls EXCEPT ![k] = y] /\ y = RollRec(x.at, x.todo, x.new, d, s)
  <1>1. x = RollRec(x.at, x.todo, x.new, x.drains, x.stopping)
    BY RollFields DEF Base, RollSets, RollRec
  <1>2. PICK d, s, y, z : /\ d = x.drains \ {old} /\ s = x.stopping \cup {old}
                          /\ y = [x EXCEPT !.drains = d] /\ z = [y EXCEPT !.stopping = s]
    OBVIOUS
  <1>3. y = RollRec(x.at, x.todo, x.new, d, x.stopping)
    BY <1>1, <1>2 DEF RollRec
  <1>4. z = RollRec(x.at, x.todo, x.new, d, s)
    BY <1>2, <1>3 DEF RollRec
  <1>5. y.stopping = x.stopping
    BY <1>3 DEF RollRec
  <1>6. rolls' = [rolls EXCEPT ![k] = z]
    BY <1>2, <1>5 DEF DrainTell
  <1> QED
    BY <1>2, <1>4, <1>6

(* And as it ends.                                                            *)
LEMMA DrainedRoll ==
  ASSUME Base, NEW k \in DOMAIN rolls, NEW x, x = rolls[k], NEW old, DrainDone(k, old)
  PROVE  \E s, y :
           /\ s = x.stopping \ {old}
           /\ rolls' = [rolls EXCEPT ![k] = y]
           /\ y = RollRec(x.at, x.todo, x.new, x.drains, s)
  <1>1. x = RollRec(x.at, x.todo, x.new, x.drains, x.stopping)
    BY RollFields DEF Base, RollSets, RollRec
  <1>2. PICK s, y : s = x.stopping \ {old} /\ y = [x EXCEPT !.stopping = s]
    OBVIOUS
  <1>3. y = RollRec(x.at, x.todo, x.new, x.drains, s)
    BY <1>1, <1>2 DEF RollRec
  <1>4. rolls' = [rolls EXCEPT ![k] = y]
    BY <1>2 DEF DrainDone, DoneWith
  <1> QED
    BY <1>2, <1>3, <1>4

(* A reload's record that is one.                                             *)
LEMMA RollGood ==
  ASSUME NEW m \in Nat, NEW a \in {"next", "probe", "abort", "done"},
         NEW t \in Seq(1..m), NEW w \in 0..m, NEW d, d \subseteq 1..m,
         NEW s, s \subseteq 1..m, NEW y, y = RollRec(a, t, w, d, s)
  PROVE  /\ y \in RollSets(m)
         /\ y.at = a /\ y.todo = t /\ y.new = w /\ y.drains = d /\ y.stopping = s
  BY DEF RollRec, RollSets

(* A reload going on.                                                         *)
LEMMA RollRolls ==
  ASSUME Base, MoreOfAll, NEW k \in DOMAIN rolls, Roll(k)
  PROVE  RollTypes'
  <1>1. PICK x, m : x = rolls[k] /\ m = Len(inst')
    OBVIOUS
  <1>2. /\ x \in RollSets(Len(inst)) /\ RollState(x)
        /\ x.at \in {"probe", "abort"} => x.new # 0
    BY <1>1, RollFields DEF Base, RollState
  <1>3. m \in Nat /\ x \in RollSets(m) /\ x.todo \in Seq(1..m) /\ Runners \subseteq 1..m
    BY <1>1, <1>2, RollKept DEF MoreOfAll, Runners
  <1>4. /\ x.at \in {"next", "probe", "abort", "done"} /\ x.new \in 0..m
        /\ x.drains \subseteq 1..m /\ x.stopping \subseteq 1..m
    BY <1>3 DEF RollSets
  <1>5. CASE RollLaunch(k)
    <2>1. PICK y : /\ rolls' = [rolls EXCEPT ![k] = y]
                   /\ y = RollRec("probe", x.todo, Len(inst) + 1, x.drains, x.stopping)
      BY <1>1, <1>5, LaunchedRoll
    <2>2. PICK slot \in Nat : slot = inst[Head(rolls[k].todo)].slot
      BY <1>5, RollFields, RunnerFields DEF Base, RollLaunch
    <2>3. NewRunners(1, slot)
      BY <1>5, <2>2 DEF RollLaunch
    <2>4. m = Len(inst) + 1
      BY <1>1, <2>3, RunnersAdded DEF Base
    <2>5. PICK w : w = Len(inst) + 1
      OBVIOUS
    <2>6. w \in 0..m /\ w # 0
      BY <1>3, <2>4, <2>5 DEF MoreOfAll
    <2>7. y = RollRec("probe", x.todo, w, x.drains, x.stopping)
      BY <2>1, <2>5
    <2>8. y \in RollSets(m) /\ y.at = "probe" /\ y.todo = x.todo /\ y.new = w
      BY <1>3, <1>4, <2>6, <2>7, RollGood
    <2>9. RollState(y)
      BY <1>1, <1>5, <2>6, <2>8 DEF RollState, RollLaunch
    <2> QED
      BY <1>1, <2>1, <2>8, <2>9, RollWritten
  <1>6. CASE RollSwap(k)
    <2>1. PICK y : /\ rolls' = [rolls EXCEPT ![k] = y]
                   /\ y = RollRec("next", Tail(x.todo), 0, x.drains \cup {Head(x.todo)},
                                  x.stopping)
      BY <1>1, <1>6, SwappedRoll
    <2>2. PICK t, h : t = Tail(x.todo) /\ h = Head(x.todo)
      OBVIOUS
    <2>3. x.todo # <<>>
      BY <1>1, <1>2, <1>6 DEF RollState, RollSwap
    <2>4. t \in Seq(1..m) /\ h \in 1..m
      BY <1>3, <2>2, <2>3, HeadTailProperties
    <2>5. PICK d, w : d = x.drains \cup {h} /\ w = 0
      OBVIOUS
    <2>6. d \subseteq 1..m /\ w \in 0..m /\ y = RollRec("next", t, w, d, x.stopping)
      BY <1>3, <1>4, <2>1, <2>2, <2>4, <2>5
    <2>7. y \in RollSets(m) /\ y.at = "next" /\ y.new = w
      BY <1>3, <1>4, <2>4, <2>6 DEF RollRec, RollSets
    <2>8. RollState(y)
      BY <2>5, <2>7 DEF RollState
    <2> QED
      BY <1>1, <2>1, <2>7, <2>8, RollWritten
  <1>7. CASE RollAbort(k)
    <2>1. PICK y : /\ rolls' = [rolls EXCEPT ![k] = y]
                   /\ y = RollRec("abort", x.todo, x.new, x.drains, x.stopping)
      BY <1>1, <1>7, RollBecomes
    <2>2. y \in RollSets(m) /\ y.at = "abort" /\ y.new = x.new
      BY <1>3, <1>4, <2>1, RollGood
    <2>3. RollState(y)
      BY <1>1, <1>2, <1>7, <2>2 DEF RollState, RollAbort
    <2> QED
      BY <1>1, <2>1, <2>2, <2>3, RollWritten
  <1>8. CASE RollAbortDone(k)
    <2>1. PICK y : /\ rolls' = [rolls EXCEPT ![k] = y]
                   /\ y = RollRec("next", <<>>, 0, x.drains, x.stopping)
      BY <1>1, <1>8, RollBecomes
    <2>2. PICK t, w : t = <<>> /\ w = 0
      OBVIOUS
    <2>3. t \in Seq(1..m) /\ w \in 0..m /\ y = RollRec("next", t, w, x.drains, x.stopping)
      BY <1>3, <2>1, <2>2, EmptySeq
    <2>4. y \in RollSets(m) /\ y.at = "next" /\ y.new = w
      BY <1>3, <1>4, <2>3, RollGood
    <2>5. RollState(y)
      BY <2>2, <2>4 DEF RollState
    <2> QED
      BY <1>1, <2>1, <2>4, <2>5, RollWritten
  <1>9. CASE RollDone(k)
    <2>1. PICK y : /\ rolls' = [rolls EXCEPT ![k] = y]
                   /\ y = RollRec("done", x.todo, x.new, x.drains, x.stopping)
      BY <1>1, <1>9, RollBecomes
    <2>2. /\ y \in RollSets(m) /\ y.at = "done" /\ y.new = x.new /\ y.todo = x.todo
          /\ y.drains = x.drains /\ y.stopping = x.stopping
      BY <1>3, <1>4, <2>1, RollGood
    <2>3. RollState(y)
      BY <1>1, <1>2, <1>9, <2>2 DEF RollState, RollDone, AllDrained
    <2> QED
      BY <1>1, <2>1, <2>2, <2>3, RollWritten
  <1>10. ASSUME NEW old \in Runners, DrainTell(k, old) PROVE RollTypes'
    <2>1. PICK d, s, y :
            /\ d = x.drains \ {old} /\ s = x.stopping \cup {old}
            /\ rolls' = [rolls EXCEPT ![k] = y] /\ y = RollRec(x.at, x.todo, x.new, d, s)
      BY <1>1, <1>10, DrainingRoll
    <2>2. d \subseteq 1..m /\ s \subseteq 1..m
      BY <1>3, <1>4, <2>1
    <2>3. y \in RollSets(m) /\ y.at = x.at /\ y.new = x.new /\ y.todo = x.todo
      BY <1>3, <1>4, <2>1, <2>2 DEF RollRec, RollSets
    <2>4. x.at # "done"
      BY <1>1, <1>2, <1>10 DEF RollState, AllDrained, DrainTell
    <2>5. RollState(y)
      BY <1>2, <2>3, <2>4 DEF RollState
    <2> QED
      BY <1>1, <2>1, <2>3, <2>5, RollWritten
  <1>11. ASSUME NEW old \in Runners, DrainDone(k, old) PROVE RollTypes'
    <2>1. PICK s, y : /\ s = x.stopping \ {old} /\ rolls' = [rolls EXCEPT ![k] = y]
                      /\ y = RollRec(x.at, x.todo, x.new, x.drains, s)
      BY <1>1, <1>11, DrainedRoll
    <2>2. s \subseteq 1..m
      BY <1>4, <2>1
    <2>3. y \in RollSets(m) /\ y.at = x.at /\ y.new = x.new /\ y.todo = x.todo
      BY <1>3, <1>4, <2>1, <2>2, RollGood
    <2>4. x.at # "done"
      BY <1>1, <1>2, <1>11 DEF RollState, AllDrained, DrainDone
    <2>5. RollState(y)
      BY <1>2, <2>3, <2>4 DEF RollState
    <2> QED
      BY <1>1, <2>1, <2>3, <2>5, RollWritten
  <1> QED
    BY <1>5, <1>6, <1>7, <1>8, <1>9, <1>10, <1>11 DEF Roll

(* A reload begins with the runners the slice names then, sorted.             *)
LEMMA RollBegins ==
  ASSUME Base, MoreOfAll, ReloadRolls
  PROVE  \E t \in Sortings(Slice), y \in RollSets(Len(inst')) :
           /\ y = RollRec("next", t, 0, {}, {}) /\ rolls' = Append(rolls, y)
           /\ RollState(y) /\ y.at = "next" /\ y.todo = t /\ y.new = 0
           /\ y.drains = {} /\ y.stopping = {}
  <1>1. PICK t \in Sortings(Slice) :
          rolls' = Append(rolls, [at |-> "next", todo |-> t, new |-> 0, drains |-> {},
                                  stopping |-> {}])
    BY DEF ReloadRolls
  <1>2. PICK y, m : y = RollRec("next", t, 0, {}, {}) /\ m = Len(inst')
    OBVIOUS
  <1>3. rolls' = Append(rolls, y)
    BY <1>1, <1>2 DEF RollRec
  <1>4. m \in Nat /\ Runners \subseteq 1..m /\ 0 \in 0..m
    BY <1>2 DEF MoreOfAll, Runners
  <1>5. t \in Seq(1..m)
    BY <1>4, SortingArranges, SeqMonotonic DEF Base
  <1>6. /\ y \in RollSets(m) /\ y.at = "next" /\ y.todo = t /\ y.new = 0
        /\ y.drains = {} /\ y.stopping = {}
    BY <1>2, <1>4, <1>5, RollGood
  <1>7. RollState(y)
    BY <1>6 DEF RollState
  <1> QED
    BY <1>2, <1>3, <1>6, <1>7

(* A reload, whoever asks for it.                                             *)
LEMMA ReloadRolling ==
  ASSUME Base, MoreOfAll, NEW c, Reload(c)
  PROVE  RollTypes'
  <1>1. CASE ReloadRolls
    BY <1>1, RollBegins, RollAdded
  <1>2. CASE ReloadPortless(c) \/ ReloadStarts
    BY <1>2, RollsUntouched DEF ReloadPortless, ReloadStarts, reloadVars
  <1> QED
    BY <1>1, <1>2 DEF Reload

(* Every step.                                                                *)
LEMMA StepRolls == Base /\ [Next]_vars => RollTypes'
  <1> SUFFICES ASSUME Base, [Next]_vars PROVE RollTypes'
    OBVIOUS
  <1> MoreOfAll
    BY StepMore
  <1>1. CASE Start \/ Resurrect \/ ScaleUp \/ Save \/ WatcherFires \/ WatcherRefused
    BY <1>1, RollsUntouched DEF Start, Resurrect, ScaleUp, Save, WatcherFires,
                                WatcherRefused, reloadVars
  <1>2. ASSUME NEW c \in Clients, Request(c) PROVE RollTypes'
    BY <1>2, ReloadRolling, RollsUntouched
       DEF Request, Stop, Restart, Delete, ScaleDown, Shutdown, RequestReload, reloadVars
  <1>3. ASSUME NEW c \in Clients, Serve(c) PROVE RollTypes'
    BY <1>3, RollsUntouched DEF Serve, TellStop, StopReturns, StopDone, RestartDone,
                                DeleteDone, ScaleDownDone, ShutdownDone, reloadVars
  <1>4. ASSUME NEW c \in Clients, WatcherReloads(c) PROVE RollTypes'
    BY <1>4, ReloadRolling DEF WatcherReloads
  <1>5. ASSUME NEW k \in DOMAIN rolls, Roll(k) PROVE RollTypes'
    BY <1>5, RollRolls
  <1>6. ASSUME NEW r \in Runners, Report(r) PROVE RollTypes'
    BY <1>6, RollsUntouched DEF Report, reloadVars
  <1>7. CASE UNCHANGED vars
    BY <1>7, RollsUntouched DEF vars, reloadVars
  <1> QED
    BY <1>1, <1>2, <1>3, <1>4, <1>5, <1>6, <1>7 DEF Next

--------------------------------------------------------------------------------
(* All of it holds at first and at every step.                                *)

(* At first there is nothing.                                                 *)
LEMMA InitBase == Init => Base
  <1> SUFFICES ASSUME Init PROVE Base
    OBVIOUS
  <1>1. /\ Len(specs) = 0 /\ Len(inst) = 0 /\ Len(arrays) = 0 /\ rolls = <<>>
        /\ inst = <<>> /\ arrays = <<>> /\ nextIdx = 0 /\ svc = 0 /\ mu = 0
        /\ runners = [arr |-> 0, len |-> 0]
        /\ job = [c \in Clients |-> NoJob]
    BY DEF Init
  <1>2. CountsInv
    BY InitIndices
  <1>3. RunnerTypes
    BY <1>1, EmptySeq DEF RunnerTypes
  <1>4. SliceTypes
    BY <1>1, EmptySeq DEF SliceTypes
  <1>5. \A n : n = 0 => Header(0, n)
    BY <1>1 DEF Header
  <1>6. TrackedHeader
    BY <1>1, <1>5 DEF TrackedHeader
  <1>7. /\ NoJob \in JobSets(0, 0, 0) /\ NoJob.arr = 0 /\ NoJob.n = 0
        /\ NoJob.op = "none"
    BY DEF NoJob, JobSets
  <1>8. JobTypes
    BY <1>1, <1>5, <1>7 DEF JobTypes
  <1>9. ScaleAlone
    BY <1>1, <1>7, DaemonAssumption DEF ScaleAlone
  <1>10. RollTypes
    <2>1. DOMAIN rolls = {}
      BY <1>1
    <2> QED
      BY <1>1, <2>1, EmptySeq DEF RollTypes
  <1> QED
    BY <1>2, <1>3, <1>4, <1>6, <1>8, <1>9, <1>10 DEF Base

(* Every step.                                                                *)
LEMMA StepBase == Base /\ [Next]_vars => Base'
  <1> SUFFICES ASSUME Base, [Next]_vars PROVE Base'
    OBVIOUS
  <1>1. CountsInv'
    BY StepCounts DEF Base
  <1>2. RunnerTypes' /\ SliceTypes' /\ TrackedHeader'
    BY StepCarried DEF Carried
  <1> QED
    BY <1>1, <1>2, StepJobs, StepAlone, StepRolls DEF Base

--------------------------------------------------------------------------------
(* The proxy                                                                  *)

(* The runners the slice names are runners.                                   *)
LEMMA TrackedRunners == Base => Tracked \subseteq Runners
  <1> SUFFICES ASSUME Base, NEW i \in 1..runners.len PROVE At(i) \in Runners
    BY DEF Tracked
  <1> QED
    BY HeaderNames DEF Base, TrackedHeader, At

(* Nor are they anything else in the next state.                              *)
LEMMA TrackedNext == Base' => (Tracked \subseteq Runners)'
  BY TrackedRunners, PTL

(* The proxy and what it has to serve.                                        *)
ProxyInv ==
  /\ proxy \in [open : BOOLEAN, ups : SUBSET Runners]
  /\ mode # "proxy" => ~proxy.open
  /\ ProxyTracksRunners

(* It is told to serve just the tracked runners.                              *)
LEMMA ProxySynced ==
  ASSUME Base', ProxyInv, MoreOfAll, NEW R, SyncProxy(R), R = Tracked', UNCHANGED mode
  PROVE  ProxyInv'
  <1>1. Tracked' \subseteq Runners' /\ Runners \subseteq Runners'
    BY TrackedNext DEF Runners, MoreOfAll
  <1>2. CASE UNCHANGED proxy /\ ~proxy.open
    BY <1>1, <1>2 DEF ProxyInv, ProxyTracksRunners
  <1>3. CASE mode = "proxy" /\ proxy' = [open |-> TRUE, ups |-> R]
    BY <1>1, <1>3 DEF ProxyInv, ProxyTracksRunners
  <1> QED
    BY <1>2, <1>3 DEF SyncProxy, ProxyInv

(* It is closed.                                                              *)
LEMMA ProxyClosed ==
  ASSUME StopProxy PROVE ProxyInv'
  <1>1. proxy' = [open |-> FALSE, ups |-> {}]
    BY DEF StopProxy, Closed
  <1> QED
    BY <1>1 DEF ProxyInv, ProxyTracksRunners

(* It is left alone, and so is the slice unless a scale-down is under way.     *)
LEMMA ProxySame ==
  ASSUME ProxyInv, MoreOfAll, UNCHANGED <<mode, proxy>>,
         mu' # 0 \/ (UNCHANGED <<mu, arrays, runners>>)
  PROVE  ProxyInv'
  <1>1. Runners \subseteq Runners'
    BY DEF Runners, MoreOfAll
  <1>2. mu' = 0 => mu = 0 /\ Tracked' = Tracked
    BY DEF Tracked, At
  <1> QED
    BY <1>1, <1>2 DEF ProxyInv, ProxyTracksRunners


(* A fresh start.                                                             *)
LEMMA ProxyStarts ==
  ASSUME Base, Base', ProxyInv, MoreOfAll, UNCHANGED mode,
         NEW p, NEW n \in Nat, StartInstances(p, n)
  PROVE  ProxyInv'
  <1>1. /\ runners'.len = n /\ \A i \in 1..n : At(i)' = Len(inst) + i
    BY SliceStarted DEF Base
  <1>2. SyncProxy({NewIds(n)[j] : j \in 1..n})
    BY DEF StartInstances
  <1>3. \A j \in 1..n : NewIds(n)[j] = Len(inst) + j
    BY DEF NewIds
  <1>4. PICK R : R = {NewIds(n)[j] : j \in 1..n}
    OBVIOUS
  <1>5. R = {Len(inst) + j : j \in 1..n}
    BY <1>3, <1>4
  <1>6. Tracked' = {Len(inst) + j : j \in 1..n}
    BY <1>1 DEF Tracked
  <1> QED
    BY <1>2, <1>4, <1>5, <1>6, ProxySynced

(* A reload, whoever asks for it.                                             *)
LEMMA ProxyReload ==
  ASSUME Base, Base', ProxyInv, MoreOfAll, NEW c, Reload(c)
  PROVE  ProxyInv'
  <1>1. UNCHANGED mode /\ UNCHANGED mu
    BY DEF Reload
  <1>2. CASE ReloadStarts
    <2>1. specs[svc] \in Nat
      BY SpecCounts DEF Reload, Base
    <2> QED
      BY <1>1, <1>2, <2>1, ProxyStarts DEF ReloadStarts
  <1>3. CASE ReloadPortless(c) \/ ReloadRolls
    BY <1>1, <1>3, ProxySame DEF ReloadPortless, ReloadRolls, runnerVars
  <1> QED
    BY <1>2, <1>3 DEF Reload

(* A request.                                                                 *)
LEMMA ProxyRequest ==
  ASSUME Base, Base', ProxyInv, MoreOfAll, NEW c \in Clients, Request(c)
  PROVE  ProxyInv'
  <1>1. CASE Stop(c) \/ Shutdown(c) \/ Delete(c)
    BY <1>1, ProxyClosed DEF Stop, Shutdown, Delete
  <1>2. CASE Restart(c)
    BY <1>2, ProxySame DEF Restart, runnerVars
  <1>3. CASE ScaleDown(c)
    <2>1. UNCHANGED <<mode, proxy>> /\ mu' # 0
      BY <1>3, DaemonAssumption DEF ScaleDown
    <2> QED
      BY <2>1, ProxySame
  <1>4. CASE RequestReload(c)
    BY <1>4, ProxyReload DEF RequestReload
  <1> QED
    BY <1>1, <1>2, <1>3, <1>4 DEF Request

(* A handler going on.                                                        *)
LEMMA ProxyServe ==
  ASSUME Base, Base', ProxyInv, MoreOfAll, NEW c \in Clients, Serve(c)
  PROVE  ProxyInv'
  <1>1. CASE TellStop(c)
    BY <1>1, ProxySame DEF TellStop
  <1>2. CASE StopReturns(c) \/ StopDone(c) \/ DeleteDone(c) \/ ShutdownDone(c)
    BY <1>2, ProxySame DEF StopReturns, StopDone, DeleteDone, ShutdownDone, runnerVars
  <1>3. CASE RestartDone(c)
    <2>1. job[c].p \in 1..Len(specs)
      BY <1>3 DEF RestartDone, Finishes, Base, CountsInv, JobShape
    <2>2. specs[job[c].p] \in Nat
      BY <2>1, SpecCounts DEF Base
    <2> QED
      BY <1>3, <2>2, ProxyStarts DEF RestartDone
  <1>4. CASE ScaleDownDone(c)
    <2>1. PICK g : g = job[c].goal
      OBVIOUS
    <2>2. runners'.len = g /\ \A i \in 1..g : At(i)' = At(i)
      BY <1>4, <2>1, CarriedScaleDone
    <2>3. PICK R : R = {At(i) : i \in 1..g}
      OBVIOUS
    <2>4. R = Tracked'
      BY <2>2, <2>3 DEF Tracked
    <2>5. SyncProxy(R) /\ UNCHANGED mode
      BY <1>4, <2>1, <2>3 DEF ScaleDownDone
    <2> QED
      BY <2>4, <2>5, ProxySynced
  <1> QED
    BY <1>1, <1>2, <1>3, <1>4 DEF Serve

(* A reload going on.                                                         *)
LEMMA ProxyRoll ==
  ASSUME Base, Base', ProxyInv, MoreOfAll, NEW k \in DOMAIN rolls, Roll(k)
  PROVE  ProxyInv'
  <1>1. CASE RollSwap(k)
    <2>1. PICK R : R = {arrays'[runners'.arr][i] : i \in 1..runners'.len}
      OBVIOUS
    <2>2. R = Tracked'
      BY <2>1 DEF Tracked, At
    <2>3. SyncProxy(R) /\ UNCHANGED mode
      BY <1>1, <2>1 DEF RollSwap
    <2> QED
      BY <2>2, <2>3, ProxySynced
  <1>2. CASE RollLaunch(k)
    BY <1>2, ProxySame DEF RollLaunch
  <1>3. CASE RollAbort(k) \/ RollAbortDone(k) \/ RollDone(k)
    BY <1>3, ProxySame DEF RollAbort, RollAbortDone, RollDone, runnerVars
  <1>4. ASSUME NEW old \in Runners, DrainTell(k, old) \/ DrainDone(k, old)
        PROVE  ProxyInv'
    BY <1>4, ProxySame DEF DrainTell, DrainDone, runnerVars
  <1> QED
    BY <1>1, <1>2, <1>3, <1>4 DEF Roll

(* Every step.                                                                *)
LEMMA StepProxy == Base /\ ProxyInv /\ [Next]_vars => ProxyInv'
  <1> SUFFICES ASSUME Base, ProxyInv, [Next]_vars PROVE ProxyInv'
    OBVIOUS
  <1> Base' /\ MoreOfAll
    BY StepBase, StepMore
  <1>1. CASE Start
    <2>1. svc # 0 => specs[svc] \in Nat
      BY SpecCounts DEF Base
    <2>2. CASE svc # 0 /\ StartInstances(svc, specs[svc])
      BY <1>1, <2>1, <2>2, ProxyStarts DEF Start
    <2>3. ASSUME NEW n \in Counts, StartInstances(Len(specs) + 1, n) PROVE ProxyInv'
      BY <1>1, <2>3, ProxyStarts, DaemonAssumption DEF Start
    <2> QED
      BY <1>1, <2>2, <2>3 DEF Start
  <1>2. CASE Resurrect
    <2>1. saved \in Nat
      BY DaemonAssumption DEF Base, CountsInv
    <2> QED
      BY <1>2, <2>1, ProxyStarts DEF Resurrect
  <1>3. CASE ScaleUp
    <2>1. PICK k \in Nat \ {0} :
            /\ runners'.len = runners.len + k
            /\ \A i \in 1..runners.len : At(i)' = At(i)
            /\ \A j \in 1..k : arrays'[runners'.arr][runners.len + j] = Len(inst) + j
            /\ SyncProxy(Tracked \cup {Len(inst) + j : j \in 1..k})
      BY <1>3, CarriedScaleUp
    <2>2. PICK R, n : R = Tracked \cup {Len(inst) + j : j \in 1..k} /\ n = runners.len
      OBVIOUS
    <2>3. n \in Nat
      BY <2>2, SliceFields DEF Base
    <2>4. R = Tracked'
      <3>1. ASSUME NEW r \in R PROVE r \in Tracked'
        <4>1. CASE r \in Tracked
          BY <2>1, <2>2, <2>3, <4>1 DEF Tracked
        <4>2. ASSUME NEW j \in 1..k, r = Len(inst) + j PROVE r \in Tracked'
          <5>1. n + j \in 1..runners'.len /\ r = arrays'[runners'.arr][n + j]
            BY <2>1, <2>2, <2>3, <4>2
          <5> QED
            BY <5>1 DEF Tracked, At
        <4> QED
          BY <2>2, <4>1, <4>2
      <3>2. ASSUME NEW i \in 1..runners'.len PROVE arrays'[runners'.arr][i] \in R
        <4>1. CASE i \in 1..n
          BY <2>1, <2>2, <4>1 DEF Tracked, At
        <4>2. CASE i \notin 1..n
          <5>0. i \in 1..(n + k) /\ k \in Nat
            BY <2>1, <2>2
          <5>1. PICK j \in 1..k : i = n + j
            <6>1. i - n \in 1..k /\ i = n + (i - n)
              BY <2>3, <4>2, <5>0
            <6> QED
              BY <6>1
          <5> QED
            BY <2>1, <2>2, <5>1
        <4> QED
          BY <4>1, <4>2
      <3> QED
        BY <3>1, <3>2 DEF Tracked, At
    <2>5. SyncProxy(R) /\ UNCHANGED mode
      BY <1>3, <2>1, <2>2 DEF ScaleUp
    <2> QED
      BY <2>4, <2>5, ProxySynced
  <1>4. CASE Save \/ WatcherFires \/ WatcherRefused
    BY <1>4, ProxySame DEF Save, WatcherFires, WatcherRefused, runnerVars
  <1>5. ASSUME NEW c \in Clients, Request(c) PROVE ProxyInv'
    BY <1>5, ProxyRequest
  <1>6. ASSUME NEW c \in Clients, Serve(c) PROVE ProxyInv'
    BY <1>6, ProxyServe
  <1>7. ASSUME NEW c \in Clients, WatcherReloads(c) PROVE ProxyInv'
    BY <1>7, ProxyReload DEF WatcherReloads
  <1>8. ASSUME NEW k \in DOMAIN rolls, Roll(k) PROVE ProxyInv'
    BY <1>8, ProxyRoll
  <1>9. ASSUME NEW r \in Runners, Report(r) PROVE ProxyInv'
    BY <1>9, ProxySame DEF Report
  <1>10. CASE UNCHANGED vars
    BY <1>10, ProxySame DEF vars, runnerVars
  <1> QED
    BY <1>1, <1>2, <1>3, <1>4, <1>5, <1>6, <1>7, <1>8, <1>9, <1>10 DEF Next

(* The proxy's upstreams are the tracked runners whenever no scale-down is     *)
(* under way, through every start, swap and scale.                              *)
THEOREM ProxyTracks == SafeSpec => []ProxyTracksRunners
  <1>1. Init => Base /\ ProxyInv
    <2> SUFFICES ASSUME Init PROVE ProxyInv
      BY InitBase
    <2>1. proxy = [open |-> FALSE, ups |-> {}]
      BY DEF Init, Closed
    <2> QED
      BY <2>1 DEF ProxyInv, ProxyTracksRunners
  <1>2. Base /\ ProxyInv /\ [Next]_vars => (Base /\ ProxyInv)'
    BY StepBase, StepProxy
  <1>3. ProxyInv => ProxyTracksRunners
    BY DEF ProxyInv
  <1> QED
    BY <1>1, <1>2, <1>3, PTL DEF SafeSpec

--------------------------------------------------------------------------------
(* Types                                                                      *)

FlagTypes ==
  /\ mode \in Modes
  /\ reloading \in BOOLEAN /\ watcher \in BOOLEAN /\ due \in BOOLEAN
  /\ requests \in Nat
  /\ seen \subseteq AllOps
  /\ exited \in BOOLEAN

ListedTypes == listed \subseteq Nat

(* An accepted request is counted and remembered.                             *)
LEMMA AcceptTypes ==
  ASSUME FlagTypes, NEW op, Accept(op)
  PROVE  requests' \in Nat /\ seen' \subseteq AllOps
  BY DaemonAssumption DEF FlagTypes, Accept

(* A fresh start.                                                             *)
LEMMA StartTypes ==
  ASSUME RunnerTypes, NEW p, NEW n \in Nat, StartInstances(p, n)
  PROVE  watcher' \in BOOLEAN /\ ListedTypes'
  <1>1. watcher' = Watch /\ listed' = NewIdxs(n)
    BY DEF StartInstances, StartWatcher
  <1>2. NewIdxs(n) \subseteq Nat
    BY DEF NewIdxs, RunnerTypes
  <1> QED
    BY <1>1, <1>2, DaemonAssumption DEF ListedTypes

(* A reload, whoever asks for it.                                             *)
LEMMA ReloadTypes ==
  ASSUME Base, FlagTypes, ListedTypes, NEW c, Reload(c)
  PROVE  /\ watcher' \in BOOLEAN /\ reloading' \in BOOLEAN /\ ListedTypes'
         /\ UNCHANGED <<mode, exited>>
  <1>1. CASE ReloadStarts
    <2>1. specs[svc] \in Nat
      BY SpecCounts DEF Reload, Base
    <2> QED
      BY <1>1, <2>1, StartTypes DEF Base, ReloadStarts, Reload, reloadVars, FlagTypes
  <1>2. CASE ReloadPortless(c) \/ ReloadRolls
    BY <1>2 DEF ReloadPortless, ReloadRolls, Reload, reloadVars, storeVars, FlagTypes,
                ListedTypes
  <1> QED
    BY <1>1, <1>2 DEF Reload

(* A request.                                                                 *)
LEMMA RequestTypes ==
  ASSUME Base, FlagTypes, ListedTypes, NEW c \in Clients, Request(c)
  PROVE  FlagTypes' /\ ListedTypes'
  <1>1. CASE Stop(c) \/ Delete(c) \/ Shutdown(c)
    BY <1>1, AcceptTypes DEF Stop, Delete, Shutdown, StopWatcher, reloadVars, storeVars,
                             FlagTypes, ListedTypes
  <1>2. CASE Restart(c) \/ ScaleDown(c)
    BY <1>2, AcceptTypes DEF Restart, ScaleDown, watchVars, reloadVars, storeVars,
                             FlagTypes, ListedTypes
  <1>3. CASE RequestReload(c)
    BY <1>3, AcceptTypes, ReloadTypes DEF RequestReload, FlagTypes
  <1> QED
    BY <1>1, <1>2, <1>3 DEF Request

(* A handler going on.                                                        *)
LEMMA ServeTypes ==
  ASSUME Base, FlagTypes, ListedTypes, NEW c \in Clients, Serve(c)
  PROVE  FlagTypes' /\ ListedTypes'
  <1>1. CASE TellStop(c)
    BY <1>1 DEF TellStop, watchVars, reloadVars, storeVars, countVars, FlagTypes,
                ListedTypes
  <1>2. CASE StopReturns(c)
    <2>1. listed' \subseteq listed \/ listed' \subseteq listed \cup {inst[job[c].r].idx}
      BY <1>2 DEF StopReturns, Removed, Recorded
    <2>2. ListedTypes'
      <3>1. CASE job[c].r \in Runners
        BY <2>1, <3>1, RunnerFields DEF Base, ListedTypes
      <3> QED
        BY <1>2, <3>1, JobFields, RunnerFields DEF Base, StopReturns, Runners
    <2> QED
      BY <1>2, <2>2 DEF StopReturns, watchVars, reloadVars, countVars, FlagTypes
  <1>3. CASE RestartDone(c)
    <2>1. job[c].p \in 1..Len(specs)
      BY <1>3 DEF RestartDone, Finishes, Base, CountsInv, JobShape
    <2>2. specs[job[c].p] \in Nat
      BY <2>1, SpecCounts DEF Base
    <2> QED
      BY <1>3, <2>2, StartTypes DEF Base, RestartDone, reloadVars, countVars, FlagTypes
  <1>4. CASE StopDone(c) \/ DeleteDone(c) \/ ShutdownDone(c) \/ ScaleDownDone(c)
    BY <1>4 DEF StopDone, DeleteDone, ShutdownDone, ScaleDownDone, watchVars, reloadVars,
                storeVars, countVars, FlagTypes, ListedTypes
  <1> QED
    BY <1>1, <1>2, <1>3, <1>4 DEF Serve

(* A reload going on.                                                         *)
LEMMA RollFlags ==
  ASSUME Base, FlagTypes, ListedTypes, NEW k \in DOMAIN rolls, Roll(k)
  PROVE  FlagTypes' /\ ListedTypes'
  <1>1. FlagTypes'
    BY DEF Roll, RollLaunch, RollSwap, RollAbort, RollAbortDone, RollDone, DrainTell,
           DrainDone, watchVars, countVars, FlagTypes
  <1>2. CASE RollLaunch(k)
    <2>1. NewIdxs(1) \subseteq Nat
      BY DEF NewIdxs, Base, RunnerTypes
    <2> QED
      BY <1>1, <1>2, <2>1 DEF RollLaunch, Recorded, ListedTypes
  <1>3. CASE UNCHANGED storeVars
    BY <1>1, <1>3 DEF storeVars, ListedTypes
  <1>4. CASE RollAbortDone(k)
    BY <1>1, <1>4 DEF RollAbortDone, Removed, ListedTypes
  <1>5. ASSUME NEW old \in Runners, DrainDone(k, old) PROVE ListedTypes'
    BY <1>5 DEF DrainDone, Removed, ListedTypes
  <1> QED
    BY <1>1, <1>2, <1>3, <1>4, <1>5 DEF Roll, RollSwap, RollAbort, RollDone, DrainTell

(* Every step.                                                                *)
LEMMA StepTypes ==
  Base /\ FlagTypes /\ ListedTypes /\ [Next]_vars => FlagTypes' /\ ListedTypes'
  <1> SUFFICES ASSUME Base, FlagTypes, ListedTypes, [Next]_vars
               PROVE  FlagTypes' /\ ListedTypes'
    OBVIOUS
  <1>1. CASE Start
    <2>1. svc # 0 => specs[svc] \in Nat
      BY SpecCounts DEF Base
    <2>2. watcher' \in BOOLEAN /\ ListedTypes'
      BY <1>1, <2>1, StartTypes, DaemonAssumption DEF Start, Base
    <2> QED
      BY <1>1, <2>2, AcceptTypes DEF Start, FlagTypes, reloadVars
  <1>2. CASE Resurrect
    <2>1. saved \in Nat
      BY DaemonAssumption DEF Base, CountsInv
    <2>2. watcher' \in BOOLEAN /\ ListedTypes'
      BY <1>2, <2>1, StartTypes DEF Resurrect, Base
    <2> QED
      BY <1>2, <2>2, AcceptTypes DEF Resurrect, FlagTypes, reloadVars
  <1>3. CASE ScaleUp
    <2>1. PICK k \in Nat \ {0} : listed' = Recorded(NewIdxs(k))
      BY <1>3, CarriedScaleUp
    <2>2. NewIdxs(k) \subseteq Nat
      BY DEF NewIdxs, Base, RunnerTypes
    <2>3. ListedTypes'
      BY <2>1, <2>2 DEF Recorded, ListedTypes
    <2> QED
      BY <1>3, <2>3, AcceptTypes DEF ScaleUp, FlagTypes, reloadVars, watchVars
  <1>4. CASE Save
    BY <1>4, AcceptTypes DEF Save, FlagTypes, ListedTypes, reloadVars, watchVars
  <1>5. CASE WatcherFires
    BY <1>5 DEF WatcherFires, FlagTypes, ListedTypes, storeVars, reloadVars, AllOps
  <1>6. CASE WatcherRefused
    BY <1>6 DEF WatcherRefused, FlagTypes, ListedTypes, storeVars, reloadVars, countVars
  <1>7. ASSUME NEW c \in Clients, Request(c) PROVE FlagTypes' /\ ListedTypes'
    BY <1>7, RequestTypes
  <1>8. ASSUME NEW c \in Clients, Serve(c) PROVE FlagTypes' /\ ListedTypes'
    BY <1>8, ServeTypes
  <1>9. ASSUME NEW c \in Clients, WatcherReloads(c) PROVE FlagTypes' /\ ListedTypes'
    BY <1>9, ReloadTypes DEF WatcherReloads, FlagTypes, countVars
  <1>10. ASSUME NEW k \in DOMAIN rolls, Roll(k) PROVE FlagTypes' /\ ListedTypes'
    BY <1>10, RollFlags
  <1>11. ASSUME NEW r \in Runners, Report(r) PROVE FlagTypes' /\ ListedTypes'
    <2>1. inst[r].idx \in Nat
      BY RunnerFields DEF Base
    <2> QED
      BY <1>11, <2>1 DEF Report, Recorded, FlagTypes, ListedTypes, reloadVars, watchVars,
                         countVars
  <1>12. CASE UNCHANGED vars
    BY <1>12 DEF vars, storeVars, reloadVars, watchVars, countVars, FlagTypes, ListedTypes
  <1> QED
    BY <1>1, <1>2, <1>3, <1>4, <1>5, <1>6, <1>7, <1>8, <1>9, <1>10, <1>11, <1>12 DEF Next

(* No request, overlap of handlers or reload ever makes the daemon's state     *)
(* anything else than what its types say: no slice names a runner that was     *)
(* never created.                                                              *)
THEOREM TypesOK == SafeSpec => []TypeOK
  <1>1. Init => Base /\ ProxyInv /\ FlagTypes /\ ListedTypes
    <2> SUFFICES ASSUME Init PROVE ProxyInv /\ FlagTypes /\ ListedTypes
      BY InitBase
    <2>1. proxy = [open |-> FALSE, ups |-> {}]
      BY DEF Init, Closed
    <2>2. ProxyInv
      BY <2>1 DEF ProxyInv, ProxyTracksRunners
    <2>3. ListedTypes /\ FlagTypes
      BY DEF Init, FlagTypes, ListedTypes
    <2> QED
      BY <2>2, <2>3
  <1>2. Base /\ ProxyInv /\ FlagTypes /\ ListedTypes /\ [Next]_vars
          => (Base /\ ProxyInv /\ FlagTypes /\ ListedTypes)'
    BY StepBase, StepProxy, StepTypes
  <1>3. Base /\ ProxyInv /\ FlagTypes /\ ListedTypes => TypeOK
    <2> SUFFICES ASSUME Base, ProxyInv, FlagTypes, ListedTypes PROVE TypeOK
      OBVIOUS
    <2>1. svc \in 0..Len(specs) /\ specs \in Seq(Counts) /\ saved \in Counts \cup {0}
      BY DEF Base, CountsInv
    <2>2. job \in [Clients ->
                [op : {"none", "stop", "restart", "delete", "scale", "shutdown"},
                 arr : 0..Len(arrays), i : Nat, n : Nat, r : 0..Len(inst),
                 p : 0..Len(specs), goal : Nat]]
      BY DEF Base, JobTypes, JobSets
    <2>3. rolls \in Seq([at : {"next", "probe", "abort", "done"},
                    todo : Seq(Runners), new : 0..Len(inst),
                    drains : SUBSET Runners, stopping : SUBSET Runners])
      BY DEF Base, RollTypes, RollSets, Runners
    <2>4. /\ inst \in Seq([idx : Nat, slot : Nat, stopped : BOOLEAN, over : BOOLEAN])
          /\ nextIdx \in Nat
      BY DEF Base, RunnerTypes, RunnerRec
    <2>5. mu \in Clients \cup {0}
      BY DEF Base, ScaleAlone
    <2>6. arrays \in Seq(Seq(0..Len(inst))) /\ runners \in [arr : 0..Len(arrays), len : Nat]
      BY DEF Base, SliceTypes
    <2> QED
      BY <2>1, <2>2, <2>3, <2>4, <2>5, <2>6 DEF TypeOK, ProxyInv, FlagTypes, ListedTypes
  <1> QED
    BY <1>1, <1>2, <1>3, PTL DEF SafeSpec

--------------------------------------------------------------------------------
(* What was requested so far                                                  *)

(* What a handler does was asked for.                                         *)
Asked(op) ==
  /\ op = "restart" => "restart" \in seen \/ (mode = "portless" /\ "reload" \in seen)
  /\ op \in {"stop", "delete", "scale", "shutdown"} => op \in seen

JobsAsked == \A c \in Clients : Asked(job[c].op)

ReloadsAsked == (due \/ rolls # <<>>) => "reload" \in seen

(* Before the first start, and but for a delete, there is nothing at all.      *)
NothingYet ==
  (svc = 0 /\ "delete" \notin seen) =>
    runners.len = 0 /\ rolls = <<>> /\ Len(inst) = 0 /\ listed = {}

SeenInv == JobsAsked /\ ReloadsAsked /\ NothingYet

(* What was requested stays so.                                               *)
LEMMA StepSeen == [Next]_vars => mode' = mode /\ seen \subseteq seen'
  <1> SUFFICES ASSUME [Next]_vars PROVE mode' = mode /\ seen \subseteq seen'
    OBVIOUS
  <1>1. CASE Start \/ Resurrect \/ ScaleUp \/ Save
    BY <1>1 DEF Start, Resurrect, ScaleUp, Save, Accept
  <1>2. CASE WatcherFires \/ WatcherRefused
    BY <1>2 DEF WatcherFires, WatcherRefused, countVars
  <1>3. ASSUME NEW c \in Clients, Request(c) PROVE mode' = mode /\ seen \subseteq seen'
    BY <1>3 DEF Request, Stop, Restart, Delete, ScaleDown, Shutdown, RequestReload,
                Accept, Reload
  <1>4. ASSUME NEW c \in Clients, Serve(c) PROVE mode' = mode /\ seen \subseteq seen'
    BY <1>4 DEF Serve, TellStop, StopReturns, StopDone, RestartDone, DeleteDone,
                ScaleDownDone, ShutdownDone, countVars
  <1>5. ASSUME NEW c \in Clients, WatcherReloads(c) PROVE mode' = mode /\ seen \subseteq seen'
    BY <1>5 DEF WatcherReloads, Reload, countVars
  <1>6. ASSUME NEW k \in DOMAIN rolls, Roll(k) PROVE mode' = mode /\ seen \subseteq seen'
    BY <1>6 DEF Roll, RollLaunch, RollSwap, RollAbort, RollAbortDone, RollDone,
                DrainTell, DrainDone, countVars
  <1>7. ASSUME NEW r \in Runners, Report(r) PROVE mode' = mode /\ seen \subseteq seen'
    BY <1>7 DEF Report, countVars
  <1>8. CASE UNCHANGED vars
    BY <1>8 DEF vars, countVars
  <1> QED
    BY <1>1, <1>2, <1>3, <1>4, <1>5, <1>6, <1>7, <1>8 DEF Next

(* A handler begins, goes on or ends.                                         *)
LEMMA AskedWritten ==
  ASSUME JobTypes, JobsAsked, UNCHANGED mode, seen \subseteq seen', NEW c \in Clients,
         NEW j, job' = [job EXCEPT ![c] = j],
         NEW op, op = j.op, Asked(op)'
  PROVE  JobsAsked'
  <1>1. \A d \in Clients : job'[d] = IF d = c THEN j ELSE job[d]
    BY DEF JobTypes
  <1>2. ASSUME NEW d \in Clients PROVE Asked(job[d].op)'
    <2>1. CASE d = c
      BY <1>1, <2>1 DEF Asked
    <2>2. CASE d # c
      BY <1>1, <2>2 DEF JobsAsked, Asked
    <2> QED
      BY <2>1, <2>2
  <1> QED
    BY <1>2 DEF JobsAsked

(* No handler does anything.                                                  *)
LEMMA AskedSame ==
  ASSUME JobsAsked, UNCHANGED <<mode, job>>, seen \subseteq seen'
  PROVE  JobsAsked'
  BY DEF JobsAsked, Asked

(* A handler that begins to stop runners.                                     *)
LEMMA AskedLoop ==
  ASSUME JobTypes, JobsAsked, UNCHANGED mode, seen \subseteq seen', NEW c \in Clients,
         NEW op, Loop(c, op), Asked(op)'
  PROVE  JobsAsked'
  <1>1. PICK j : j = Job(op, 1, 0)
    OBVIOUS
  <1>2. job' = [job EXCEPT ![c] = j] /\ op = j.op
    BY <1>1 DEF Loop, Job
  <1> QED
    BY <1>2, AskedWritten

(* A handler that ends.                                                       *)
LEMMA AskedFinish ==
  ASSUME JobTypes, JobsAsked, UNCHANGED mode, seen \subseteq seen', NEW c \in Clients,
         NEW op, Finishes(c, op)
  PROVE  JobsAsked'
  <1>1. PICK j, o : j = NoJob /\ o = "none"
    OBVIOUS
  <1>2. job' = [job EXCEPT ![c] = j] /\ o = j.op
    BY <1>1 DEF Finishes, NoJob
  <1>3. Asked(o)'
    BY <1>1 DEF Asked
  <1> QED
    BY <1>2, <1>3, AskedWritten

(* A reload, whoever asks for it.                                             *)
LEMMA AskedReload ==
  ASSUME JobTypes, JobsAsked, seen \subseteq seen', NEW c \in Clients, Reload(c),
         "reload" \in seen'
  PROVE  JobsAsked'
  <1>0. UNCHANGED mode
    BY DEF Reload
  <1>1. CASE ReloadPortless(c)
    <2>1. PICK op : op = "restart"
      OBVIOUS
    <2>2. Loop(c, op) /\ Asked(op)'
      BY <1>0, <1>1, <2>1 DEF ReloadPortless, Asked
    <2> QED
      BY <1>0, <2>2, AskedLoop
  <1>2. CASE ReloadStarts \/ ReloadRolls
    BY <1>0, <1>2, AskedSame DEF ReloadStarts, ReloadRolls
  <1> QED
    BY <1>1, <1>2 DEF Reload

(* A request.                                                                 *)
LEMMA AskedRequest ==
  ASSUME JobTypes, JobsAsked, UNCHANGED mode, seen \subseteq seen', NEW c \in Clients,
         Request(c)
  PROVE  JobsAsked'
  <1>1. ASSUME NEW op \in {"stop", "restart", "delete", "shutdown"}, Loop(c, op),
               Accept(op)
        PROVE  JobsAsked'
    <2>1. Asked(op)'
      BY <1>1 DEF Asked, Accept
    <2> QED
      BY <1>1, <2>1, AskedLoop
  <1>2. CASE Stop(c)
    BY <1>1, <1>2 DEF Stop
  <1>3. CASE Restart(c)
    BY <1>1, <1>3 DEF Restart
  <1>4. CASE Delete(c)
    BY <1>1, <1>4, AskedSame DEF Delete
  <1>5. CASE Shutdown(c)
    BY <1>1, <1>5 DEF Shutdown
  <1>6. CASE ScaleDown(c)
    <2>1. PICK n \in Counts : job' = [job EXCEPT ![c] = Job("scale", n + 1, n)]
      BY <1>6 DEF ScaleDown
    <2>2. PICK j, op : j = Job("scale", n + 1, n) /\ op = "scale"
      OBVIOUS
    <2>3. op = j.op /\ job' = [job EXCEPT ![c] = j]
      BY <2>1, <2>2 DEF Job
    <2>4. Asked(op)'
      BY <1>6, <2>2 DEF Asked, ScaleDown, Accept
    <2> QED
      BY <2>3, <2>4, AskedWritten
  <1>7. CASE RequestReload(c)
    BY <1>7, AskedReload DEF RequestReload, Accept
  <1> QED
    BY <1>2, <1>3, <1>4, <1>5, <1>6, <1>7 DEF Request

(* A handler going on.                                                        *)
LEMMA AskedServe ==
  ASSUME Base, JobsAsked, UNCHANGED mode, seen \subseteq seen', NEW c \in Clients,
         Serve(c)
  PROVE  JobsAsked'
  <1>0. JobTypes /\ Asked(job[c].op)
    BY DEF Base, JobsAsked
  <1>1. CASE TellStop(c) \/ StopReturns(c)
    <2>1. PICK j, op : job' = [job EXCEPT ![c] = j] /\ j.op = job[c].op /\ op = j.op
      <3>1. CASE TellStop(c)
        <4>1. PICK r, j : /\ job' = [job EXCEPT ![c] = j]
                          /\ j = [op |-> job[c].op, arr |-> job[c].arr, i |-> job[c].i,
                                  n |-> job[c].n, r |-> r, p |-> job[c].p,
                                  goal |-> job[c].goal]
          BY <3>1, ToldJob
        <4> QED
          BY <4>1
      <3>2. CASE StopReturns(c)
        <4>1. PICK j : /\ job' = [job EXCEPT ![c] = j]
                       /\ j = [op |-> job[c].op, arr |-> job[c].arr, i |-> job[c].i + 1,
                               n |-> job[c].n, r |-> 0, p |-> job[c].p,
                               goal |-> job[c].goal]
          BY <3>2, ReturnedJob
        <4> QED
          BY <4>1
      <3> QED
        BY <1>1, <3>1, <3>2
    <2>2. Asked(op)'
      BY <1>0, <2>1 DEF Asked
    <2> QED
      BY <1>0, <2>1, <2>2, AskedWritten
  <1>2. CASE StopDone(c) \/ RestartDone(c) \/ DeleteDone(c) \/ ScaleDownDone(c)
               \/ ShutdownDone(c)
    BY <1>0, <1>2, AskedFinish DEF StopDone, RestartDone, DeleteDone, ScaleDownDone,
                                   ShutdownDone
  <1> QED
    BY <1>1, <1>2 DEF Serve

(* Every step.                                                                *)
LEMMA StepAsked == Base /\ SeenInv /\ [Next]_vars => JobsAsked' /\ ReloadsAsked'
  <1> SUFFICES ASSUME Base, SeenInv, [Next]_vars PROVE JobsAsked' /\ ReloadsAsked'
    OBVIOUS
  <1>0. /\ UNCHANGED mode /\ seen \subseteq seen' /\ JobsAsked /\ ReloadsAsked
        /\ JobTypes
    BY StepSeen DEF SeenInv, Base
  <1>1. CASE Start \/ Resurrect \/ ScaleUp \/ Save \/ WatcherFires \/ WatcherRefused
    <2>1. UNCHANGED <<job, rolls>> /\ (due' => due \/ "reload" \in seen')
      BY <1>1 DEF Start, Resurrect, ScaleUp, Save, WatcherFires, WatcherRefused,
                  reloadVars, watchVars
    <2> QED
      BY <1>0, <2>1, AskedSame DEF ReloadsAsked
  <1>2. ASSUME NEW c \in Clients, Request(c) PROVE JobsAsked' /\ ReloadsAsked'
    <2>1. JobsAsked'
      BY <1>0, <1>2, AskedRequest
    <2>2. CASE RequestReload(c)
      BY <2>1, <2>2 DEF RequestReload, Accept, ReloadsAsked
    <2>3. CASE Stop(c) \/ Restart(c) \/ Delete(c) \/ ScaleDown(c) \/ Shutdown(c)
      BY <1>0, <2>1, <2>3 DEF Stop, Restart, Delete, ScaleDown, Shutdown, ReloadsAsked,
                              reloadVars, watchVars
    <2> QED
      BY <1>2, <2>2, <2>3 DEF Request
  <1>3. ASSUME NEW c \in Clients, Serve(c) PROVE JobsAsked' /\ ReloadsAsked'
    <2>1. JobsAsked'
      BY <1>0, <1>3, AskedServe
    <2> QED
      BY <1>0, <1>3, <2>1 DEF Serve, TellStop, StopReturns, StopDone, RestartDone,
           DeleteDone, ScaleDownDone, ShutdownDone, ReloadsAsked, reloadVars, watchVars
  <1>4. ASSUME NEW c \in Clients, WatcherReloads(c) PROVE JobsAsked' /\ ReloadsAsked'
    <2>1. "reload" \in seen'
      BY <1>0, <1>4 DEF WatcherReloads, ReloadsAsked
    <2> QED
      BY <1>0, <1>4, <2>1, AskedReload DEF WatcherReloads, ReloadsAsked
  <1>5. ASSUME NEW k \in DOMAIN rolls, Roll(k) PROVE JobsAsked' /\ ReloadsAsked'
    <2>1. "reload" \in seen'
      <3>1. rolls # <<>>
        BY <1>5
      <3> QED
        BY <1>0, <3>1 DEF ReloadsAsked
    <2>2. UNCHANGED job
      BY <1>5 DEF Roll, RollLaunch, RollSwap, RollAbort, RollAbortDone, RollDone,
                  DrainTell, DrainDone
    <2> QED
      BY <1>0, <2>1, <2>2, AskedSame DEF ReloadsAsked
  <1>6. ASSUME NEW r \in Runners, Report(r) PROVE JobsAsked' /\ ReloadsAsked'
    BY <1>0, <1>6, AskedSame DEF Report, ReloadsAsked, reloadVars, watchVars
  <1>7. CASE UNCHANGED vars
    BY <1>0, <1>7, AskedSame DEF vars, ReloadsAsked, reloadVars, watchVars
  <1> QED
    BY <1>1, <1>2, <1>3, <1>4, <1>5, <1>6, <1>7 DEF Next

(* Until the first start nothing happens that leaves a trace.                 *)
LEMMA StepNothing == Base /\ SeenInv /\ [Next]_vars => NothingYet'
  <1> SUFFICES ASSUME Base, SeenInv, [Next]_vars, svc' = 0, "delete" \notin seen'
               PROVE  runners'.len = 0 /\ rolls' = <<>> /\ Len(inst') = 0 /\ listed' = {}
    BY DEF NothingYet
  <1> DEFINE Kept == /\ svc = 0
                     /\ UNCHANGED <<runners, rolls, inst, listed>>
  <1>0. "delete" \notin seen /\ Len(specs) \in Nat
    BY StepSeen, StepSpecs DEF Base
  <1>1. svc = 0 => runners.len = 0 /\ rolls = <<>> /\ Len(inst) = 0 /\ listed = {}
                   /\ Runners = {}
    BY <1>0 DEF SeenInv, NothingYet, Runners
  <1>2. SUFFICES Kept
    BY <1>1
  <1>3. ASSUME NEW p, NEW n, StartInstances(p, n) PROVE p = 0
    BY <1>3 DEF StartInstances
  <1>4. CASE Start
    BY <1>0, <1>3, <1>4 DEF Start
  <1>5. CASE Resurrect
    BY <1>0, <1>3, <1>5 DEF Resurrect
  <1>6. CASE ScaleUp
    BY <1>6 DEF ScaleUp
  <1>7. CASE Save \/ WatcherFires \/ WatcherRefused
    BY <1>7 DEF Save, WatcherFires, WatcherRefused, storeVars, runnerVars, reloadVars
  <1>8. ASSUME NEW c, Reload(c) PROVE Kept
    <2>1. CASE ReloadStarts
      BY <1>3, <1>8, <2>1 DEF Reload, ReloadStarts
    <2>2. CASE ReloadPortless(c) \/ ReloadRolls
      BY <1>8, <2>2 DEF Reload, ReloadPortless, ReloadRolls, storeVars
    <2> QED
      BY <1>8, <2>1, <2>2 DEF Reload
  <1>9. ASSUME NEW c \in Clients, Request(c) PROVE Kept
    <2>1. CASE Delete(c)
      BY <2>1 DEF Delete, Accept
    <2>2. CASE ScaleDown(c)
      BY <2>2 DEF ScaleDown, storeVars
    <2>3. CASE Stop(c) \/ Restart(c) \/ Shutdown(c)
      BY <2>3 DEF Stop, Restart, Shutdown, storeVars, runnerVars, reloadVars
    <2> QED
      BY <1>8, <1>9, <2>1, <2>2, <2>3 DEF Request, RequestReload
  <1>10. ASSUME NEW c \in Clients, Serve(c) PROVE Kept
    <2>1. CASE TellStop(c)
      <3>1. svc = 0
        BY <2>1 DEF TellStop, storeVars
      <3> QED
        BY <1>1, <2>1, <3>1, ToldRunner
    <2>2. CASE StopReturns(c)
      <3>1. svc = 0
        BY <2>2 DEF StopReturns
      <3>2. job[c].r \in 0..0 /\ job[c].r # 0
        BY <1>1, <2>2, <3>1, JobFields DEF Base, StopReturns
      <3> QED
        BY <3>2
    <2>3. CASE StopDone(c) \/ ShutdownDone(c)
      BY <2>3 DEF StopDone, ShutdownDone, storeVars, runnerVars, reloadVars
    <2>4. CASE DeleteDone(c)
      BY <1>0, <2>4 DEF DeleteDone, Finishes, SeenInv, JobsAsked, Asked
    <2>5. CASE RestartDone(c)
      <3>1. job[c].p \in 1..Len(specs)
        BY <2>5 DEF RestartDone, Finishes, Base, CountsInv, JobShape
      <3> QED
        BY <1>0, <1>3, <2>5, <3>1 DEF RestartDone
    <2>6. CASE ScaleDownDone(c)
      <3>1. job[c].p \in 1..Len(specs)
        BY <2>6 DEF ScaleDownDone, Finishes, Base, CountsInv, JobShape
      <3> QED
        BY <1>0, <2>6, <3>1 DEF ScaleDownDone
    <2> QED
      BY <1>10, <2>1, <2>2, <2>3, <2>4, <2>5, <2>6 DEF Serve
  <1>11. ASSUME NEW c \in Clients, WatcherReloads(c) PROVE Kept
    BY <1>8, <1>11 DEF WatcherReloads
  <1>12. ASSUME NEW k \in DOMAIN rolls, Roll(k) PROVE Kept
    <2>1. svc = 0
      BY <1>12 DEF Roll, RollLaunch, RollSwap, RollAbort, RollAbortDone, RollDone,
                   DrainTell, DrainDone, storeVars
    <2> QED
      BY <1>1, <1>12, <2>1
  <1>13. ASSUME NEW r \in Runners, Report(r) PROVE Kept
    BY <1>13 DEF Report
  <1>14. CASE UNCHANGED vars
    BY <1>14 DEF vars, storeVars, runnerVars, reloadVars
  <1> QED
    BY <1>4, <1>5, <1>6, <1>7, <1>9, <1>10, <1>11, <1>12, <1>13, <1>14 DEF Next

(* Every step.                                                                *)
LEMMA StepSeenInv == Base /\ SeenInv /\ [Next]_vars => SeenInv'
  BY StepAsked, StepNothing DEF SeenInv

(* At first nothing was.                                                      *)
LEMMA InitSeen == Init => SeenInv
  <1> SUFFICES ASSUME Init PROVE SeenInv
    OBVIOUS
  <1>1. \A c \in Clients : job[c].op = "none"
    BY DEF Init, NoJob
  <1>2. /\ rolls = <<>> /\ ~due /\ listed = {} /\ runners.len = 0
        /\ Len(inst) = 0
    BY DEF Init
  <1> QED
    BY <1>1, <1>2 DEF SeenInv, JobsAsked, Asked, ReloadsAsked, NothingYet

--------------------------------------------------------------------------------
(* What a scale-down has stopped so far                                       *)

(* Everything from its goal up to where it is, and the runner it waits for.    *)
ScaledDown(goal, i, n, r) ==
  /\ i <= n + 1
  /\ \A p \in (goal + 1)..(i - 1) : inst[At(p)].stopped
  /\ r # 0 => i <= n /\ r = At(i) /\ inst[r].stopped

ScaleInv ==
  \A c \in Clients : job[c].op = "scale" =>
    ScaledDown(job[c].goal, job[c].i, job[c].n, job[c].r)

(* The scale-down under way is not disturbed.                                 *)
LEMMA ScaleSame ==
  ASSUME Base, ScaleInv, InstGrows, mu = 0 \/ UNCHANGED <<arrays, runners>>,
         \A d \in Clients : job'[d].op = "scale" => job'[d] = job[d]
  PROVE  ScaleInv'
  <1> SUFFICES ASSUME NEW d \in Clients, job'[d].op = "scale"
               PROVE  ScaledDown(job[d].goal, job[d].i, job[d].n, job[d].r)'
    BY DEF ScaleInv
  <1>1. job'[d] = job[d] /\ job[d].op = "scale"
    OBVIOUS
  <1>2. UNCHANGED <<arrays, runners>>
    BY <1>1, NoScale
  <1>3. PICK goal, i, n, r : /\ goal = job[d].goal /\ i = job[d].i /\ n = job[d].n
                             /\ r = job[d].r
    OBVIOUS
  <1>4. /\ goal \in Nat /\ i \in Nat /\ n \in Nat /\ n = runners.len
        /\ ScaledDown(goal, i, n, r)
    BY <1>1, <1>3, JobFields DEF Base, ScaleAlone, ScaleInv
  <1>5. \A p \in 1..n : At(p) \in Runners /\ At(p)' = At(p)
    BY <1>2, <1>4, HeaderNames DEF Base, TrackedHeader, At
  <1>6. \A p \in (goal + 1)..(i - 1) : p \in 1..n
    BY <1>4 DEF ScaledDown
  <1>7. \A p \in (goal + 1)..(i - 1) : inst'[At(p)'].stopped
    BY <1>4, <1>5, <1>6 DEF ScaledDown, InstGrows
  <1>8. r # 0 => i <= n /\ r = At(i)' /\ inst'[r].stopped
    <2>1. ASSUME r # 0 PROVE i <= n /\ r = At(i)' /\ inst'[r].stopped
      <3>1. i <= n /\ r = At(i) /\ inst[r].stopped
        BY <1>4, <2>1 DEF ScaledDown
      <3>2. i \in 1..n
        BY <1>3, <1>4, <3>1, JobFields DEF Base
      <3> QED
        BY <1>5, <3>1, <3>2 DEF InstGrows
    <2> QED
      BY <2>1
  <1>9. /\ job'[d].goal = goal /\ job'[d].i = i /\ job'[d].n = n /\ job'[d].r = r
        /\ i <= n + 1
    BY <1>1, <1>3, <1>4 DEF ScaledDown
  <1> QED
    BY <1>7, <1>8, <1>9 DEF ScaledDown

(* A handler begins or ends that is no scale-down.                            *)
LEMMA ScaleOther ==
  ASSUME Base, ScaleInv, InstGrows, mu = 0 \/ UNCHANGED <<arrays, runners>>,
         NEW c \in Clients, NEW j, job' = [job EXCEPT ![c] = j], j.op # "scale"
  PROVE  ScaleInv'
  <1>1. \A d \in Clients : job'[d] = IF d = c THEN j ELSE job[d]
    BY DEF Base, JobTypes
  <1> QED
    BY <1>1, ScaleSame

(* A handler that begins to stop runners.                                     *)
LEMMA ScaleLoop ==
  ASSUME Base, ScaleInv, InstGrows, Free, NEW c \in Clients, NEW op, op # "scale",
         Loop(c, op)
  PROVE  ScaleInv'
  <1>1. PICK j : j = Job(op, 1, 0)
    OBVIOUS
  <1>2. job' = [job EXCEPT ![c] = j] /\ j.op # "scale" /\ mu = 0
    BY <1>1 DEF Loop, Job, Free
  <1> QED
    BY <1>2, ScaleOther

(* A handler that ends.                                                       *)
LEMMA ScaleFinish ==
  ASSUME Base, ScaleInv, InstGrows, mu = 0 \/ UNCHANGED <<arrays, runners>>,
         NEW c \in Clients, NEW op, Finishes(c, op)
  PROVE  ScaleInv'
  <1>1. PICK j : j = NoJob
    OBVIOUS
  <1>2. job' = [job EXCEPT ![c] = j] /\ j.op # "scale"
    BY <1>1 DEF Finishes, NoJob
  <1> QED
    BY <1>2, ScaleOther

(* A reload, whoever asks for it.                                             *)
LEMMA ScaleReload ==
  ASSUME Base, ScaleInv, InstGrows, NEW c \in Clients, Reload(c)
  PROVE  ScaleInv'
  <1>1. Free /\ mu = 0
    BY DEF Reload, Free
  <1>2. CASE ReloadPortless(c)
    BY <1>1, <1>2, ScaleLoop DEF ReloadPortless
  <1>3. CASE ReloadStarts \/ ReloadRolls
    BY <1>1, <1>3, ScaleSame DEF ReloadStarts, ReloadRolls
  <1> QED
    BY <1>2, <1>3 DEF Reload

(* A request.                                                                 *)
LEMMA ScaleRequest ==
  ASSUME Base, ScaleInv, InstGrows, NEW c \in Clients, Request(c)
  PROVE  ScaleInv'
  <1>1. CASE Stop(c) \/ Restart(c) \/ Shutdown(c)
    BY <1>1, ScaleLoop DEF Stop, Restart, Shutdown
  <1>2. CASE Delete(c)
    BY <1>2, ScaleLoop, ScaleSame DEF Delete, Free
  <1>3. CASE ScaleDown(c)
    <2>1. PICK n \in Counts : /\ n < runners.len
                              /\ job' = [job EXCEPT ![c] = Job("scale", n + 1, n)]
      BY <1>3, CarriedScaleDown
    <2>2. PICK j, m : j = Job("scale", n + 1, n) /\ m = runners.len
      OBVIOUS
    <2>3. j.goal = n /\ j.i = n + 1 /\ j.n = m /\ j.r = 0
      BY <2>2 DEF Job
    <2>4. n \in Nat /\ m \in Nat /\ n < m
      BY <2>1, <2>2, SliceFields, DaemonAssumption DEF Base
    <2>5. ScaledDown(n, n + 1, m, 0)'
      BY <2>4 DEF ScaledDown
    <2>6. \A d \in Clients : job'[d] = IF d = c THEN j ELSE job[d]
      BY <2>1, <2>2 DEF Base, JobTypes
    <2>7. \A d \in Clients : job[d].op # "scale"
      BY <1>3, NoScale DEF ScaleDown, Free
    <2>8. ASSUME NEW d \in Clients, job'[d].op = "scale"
          PROVE  ScaledDown(job[d].goal, job[d].i, job[d].n, job[d].r)'
      <3>1. /\ job'[d].goal = n /\ job'[d].i = n + 1 /\ job'[d].n = m
            /\ job'[d].r = 0
        BY <2>3, <2>6, <2>7, <2>8
      <3> QED
        BY <2>5, <3>1 DEF ScaledDown
    <2> QED
      BY <2>8 DEF ScaleInv
  <1>4. CASE RequestReload(c)
    BY <1>4, ScaleReload DEF RequestReload
  <1> QED
    BY <1>1, <1>2, <1>3, <1>4 DEF Request

(* A scale-down tells its next runner to stop, or that one has stopped.        *)
LEMMA ScaleGoesOn ==
  ASSUME Base, ScaleInv, InstGrows, UNCHANGED <<arrays, runners>>,
         NEW c \in Clients, NEW j, job' = [job EXCEPT ![c] = j],
         j.op = job[c].op, j.goal = job[c].goal, j.n = job[c].n,
         job[c].op = "scale" => ScaledDown(j.goal, j.i, j.n, j.r)'
  PROVE  ScaleInv'
  <1>1. \A d \in Clients : job'[d] = IF d = c THEN j ELSE job[d]
    BY DEF Base, JobTypes
  <1>2. CASE job[c].op # "scale"
    BY <1>1, <1>2, ScaleSame
  <1>3. CASE job[c].op = "scale"
    <2>1. \A d \in Clients : job[d].op = "scale" => d = c
      BY <1>3 DEF Base, ScaleAlone
    <2>2. PICK goal, i, n, r : goal = j.goal /\ i = j.i /\ n = j.n /\ r = j.r
      OBVIOUS
    <2>3. ScaledDown(goal, i, n, r)'
      BY <1>3, <2>2 DEF ScaledDown
    <2>4. ASSUME NEW d \in Clients, job'[d].op = "scale"
          PROVE  ScaledDown(job[d].goal, job[d].i, job[d].n, job[d].r)'
      <3>1. job'[d].goal = goal /\ job'[d].i = i /\ job'[d].n = n /\ job'[d].r = r
        BY <1>1, <2>1, <2>2, <2>4
      <3> QED
        BY <2>3, <3>1 DEF ScaledDown
    <2> QED
      BY <2>4 DEF ScaleInv
  <1> QED
    BY <1>2, <1>3

(* What was stopped stays so.                                                 *)
LEMMA ScaledKept ==
  ASSUME Base, InstGrows, UNCHANGED <<arrays, runners>>,
         NEW goal \in Nat, NEW i \in Nat, i <= runners.len + 1,
         \A p \in (goal + 1)..(i - 1) : inst[At(p)].stopped
  PROVE  \A p \in (goal + 1)..(i - 1) : inst'[At(p)'].stopped
  <1>1. runners.len \in Nat
    BY SliceFields DEF Base
  <1>2. \A p \in (goal + 1)..(i - 1) : p \in 1..runners.len
    BY <1>1
  <1>3. \A p \in 1..runners.len : At(p) \in Runners /\ At(p)' = At(p)
    BY HeaderNames DEF Base, TrackedHeader, At
  <1> QED
    BY <1>2, <1>3 DEF InstGrows

(* A handler tells its next runner to stop.                                   *)
LEMMA ScaleTell ==
  ASSUME Base, ScaleInv, InstGrows, NEW c \in Clients, TellStop(c)
  PROVE  ScaleInv'
  <1>1. PICK r, j :
           /\ r \in Runners
           /\ r = arrays[job[c].arr][job[c].i] /\ job[c].i \in 1..job[c].n
           /\ inst' = [inst EXCEPT ![r].stopped = TRUE]
           /\ job' = [job EXCEPT ![c] = j]
           /\ j = [op |-> job[c].op, arr |-> job[c].arr, i |-> job[c].i, n |-> job[c].n,
                   r |-> r, p |-> job[c].p, goal |-> job[c].goal]
    BY ToldJob
  <1>2. UNCHANGED <<arrays, runners, nextIdx>>
    BY DEF TellStop
  <1>3. inst'[r].stopped
    BY <1>1, <1>2, RunnerStopped DEF Base
  <1>4. PICK goal, i, n : goal = job[c].goal /\ i = job[c].i /\ n = job[c].n
    OBVIOUS
  <1>5. j.op = job[c].op /\ j.goal = goal /\ j.n = n /\ j.i = i /\ j.r = r
    BY <1>1, <1>4
  <1>6. ASSUME job[c].op = "scale" PROVE ScaledDown(goal, i, n, r)'
    <2>1. /\ goal \in Nat /\ i \in Nat /\ n \in Nat /\ n = runners.len /\ i <= n
          /\ job[c].arr = runners.arr
          /\ \A p \in (goal + 1)..(i - 1) : inst[At(p)].stopped
      BY <1>1, <1>4, <1>6, JobFields DEF Base, ScaleAlone, ScaleInv, ScaledDown
    <2>2. \A p \in (goal + 1)..(i - 1) : inst'[At(p)'].stopped
      <3>1. i <= runners.len + 1
        BY <2>1
      <3> QED
        BY <1>2, <2>1, <3>1, ScaledKept
    <2>3. r = At(i)'
      BY <1>1, <1>2, <1>4, <2>1 DEF At
    <2>4. i <= n + 1
      BY <2>1
    <2> QED
      BY <1>3, <2>1, <2>2, <2>3, <2>4 DEF ScaledDown
  <1>7. job[c].op = "scale" => ScaledDown(j.goal, j.i, j.n, j.r)'
    BY <1>5, <1>6 DEF ScaledDown
  <1>8. job' = [job EXCEPT ![c] = j] /\ UNCHANGED <<arrays, runners>>
    BY <1>1, <1>2
  <1> QED
    BY <1>4, <1>5, <1>7, <1>8, ScaleGoesOn

(* The runner has stopped.                                                    *)
LEMMA ScaleReturns ==
  ASSUME Base, ScaleInv, InstGrows, NEW c \in Clients, StopReturns(c)
  PROVE  ScaleInv'
  <1>1. PICK j : /\ job' = [job EXCEPT ![c] = j]
                 /\ j = [op |-> job[c].op, arr |-> job[c].arr, i |-> job[c].i + 1,
                         n |-> job[c].n, r |-> 0, p |-> job[c].p, goal |-> job[c].goal]
    BY ReturnedJob
  <1>2. UNCHANGED <<inst, arrays, runners>>
    BY DEF StopReturns, runnerVars
  <1>3. PICK goal, i, n, k : /\ goal = job[c].goal /\ i = job[c].i /\ n = job[c].n
                             /\ k = i + 1
    OBVIOUS
  <1>4. j.op = job[c].op /\ j.goal = goal /\ j.n = n /\ j.i = k /\ j.r = 0
    BY <1>1, <1>3
  <1>5. ASSUME job[c].op = "scale" PROVE ScaledDown(goal, k, n, 0)'
    <2>1. /\ goal \in Nat /\ i \in Nat /\ n \in Nat /\ n = runners.len /\ i <= n
          /\ inst[At(i)].stopped
          /\ \A p \in (goal + 1)..(i - 1) : inst[At(p)].stopped
      BY <1>3, <1>5, JobFields
         DEF Base, ScaleAlone, ScaleInv, ScaledDown, StopReturns
    <2>2. k \in Nat /\ k <= n + 1 /\ \A p \in (goal + 1)..(k - 1) : inst[At(p)].stopped
      <3>1. \A p \in (goal + 1)..(k - 1) : p = i \/ p \in (goal + 1)..(i - 1)
        BY <1>3, <2>1
      <3> QED
        BY <1>3, <2>1, <3>1
    <2>3. \A p \in (goal + 1)..(k - 1) : inst'[At(p)'].stopped
      <3>1. k <= runners.len + 1
        BY <2>1, <2>2
      <3> QED
        BY <1>2, <2>1, <2>2, <3>1, ScaledKept
    <2> QED
      BY <2>2, <2>3 DEF ScaledDown
  <1>6. job[c].op = "scale" => ScaledDown(j.goal, j.i, j.n, j.r)'
    BY <1>4, <1>5 DEF ScaledDown
  <1>7. job' = [job EXCEPT ![c] = j] /\ UNCHANGED <<arrays, runners>>
    BY <1>1, <1>2
  <1> QED
    BY <1>3, <1>4, <1>6, <1>7, ScaleGoesOn

(* A handler going on.                                                        *)
LEMMA ScaleServe ==
  ASSUME Base, ScaleInv, InstGrows, NEW c \in Clients, Serve(c)
  PROVE  ScaleInv'
  <1>1. CASE TellStop(c) \/ StopReturns(c)
    BY <1>1, ScaleTell, ScaleReturns
  <1>2. CASE StopDone(c) \/ DeleteDone(c) \/ ShutdownDone(c)
    BY <1>2, ScaleFinish DEF StopDone, DeleteDone, ShutdownDone, runnerVars
  <1>3. CASE RestartDone(c)
    BY <1>3, ScaleFinish DEF RestartDone, Free
  <1>4. CASE ScaleDownDone(c)
    <2>1. job[c].op = "scale" /\ job' = [job EXCEPT ![c] = NoJob]
      BY <1>4 DEF ScaleDownDone, Finishes
    <2>2. \A d \in Clients : d # c => job[d].op # "scale"
      BY <2>1 DEF Base, ScaleAlone
    <2>3. \A d \in Clients : job'[d].op # "scale"
      BY <2>1, <2>2 DEF Base, JobTypes, NoJob
    <2> QED
      BY <2>3 DEF ScaleInv
  <1> QED
    BY <1>1, <1>2, <1>3, <1>4 DEF Serve

(* Every step.                                                                *)
LEMMA StepScale == Base /\ ScaleInv /\ [Next]_vars => ScaleInv'
  <1> SUFFICES ASSUME Base, ScaleInv, [Next]_vars PROVE ScaleInv'
    OBVIOUS
  <1> InstGrows
    BY StepCarried DEF Carried
  <1>1. CASE Start \/ Resurrect \/ ScaleUp
    BY <1>1, ScaleSame DEF Start, Resurrect, ScaleUp, Free
  <1>2. CASE Save \/ WatcherFires \/ WatcherRefused
    BY <1>2, ScaleSame DEF Save, WatcherFires, WatcherRefused, runnerVars
  <1>3. ASSUME NEW c \in Clients, Request(c) PROVE ScaleInv'
    BY <1>3, ScaleRequest
  <1>4. ASSUME NEW c \in Clients, Serve(c) PROVE ScaleInv'
    BY <1>4, ScaleServe
  <1>5. ASSUME NEW c \in Clients, WatcherReloads(c) PROVE ScaleInv'
    BY <1>5, ScaleReload DEF WatcherReloads
  <1>6. ASSUME NEW k \in DOMAIN rolls, Roll(k) PROVE ScaleInv'
    BY <1>6, ScaleSame DEF Roll, RollLaunch, RollSwap, RollAbort, RollAbortDone,
                           RollDone, DrainTell, DrainDone, Free, runnerVars
  <1>7. ASSUME NEW r \in Runners, Report(r) PROVE ScaleInv'
    BY <1>7, ScaleSame DEF Report
  <1>8. CASE UNCHANGED vars
    BY <1>8, ScaleSame DEF vars, runnerVars
  <1> QED
    BY <1>1, <1>2, <1>3, <1>4, <1>5, <1>6, <1>7, <1>8 DEF Next

--------------------------------------------------------------------------------
(* What the reloads have in hand                                              *)

(* What a reload waits for has been told to stop.                             *)
ToldToStop(roll) ==
  /\ roll.at = "abort" => inst[roll.new].stopped
  /\ \A r \in roll.stopping : inst[r].stopped

RollsTold == \A k \in DOMAIN rolls : ToldToStop(rolls[k])

Held(roll) ==
  roll.drains \cup roll.stopping \cup (IF roll.new = 0 THEN {} ELSE {roll.new})

(* Rolling, reload by reload.                                                 *)
LEMMA RollingHeld == \A r : r \in Rolling <=> \E k \in DOMAIN rolls : r \in Held(rolls[k])
  BY DEF Rolling, Held

(* A reload that does nothing still waits for the same.                       *)
LEMMA ToldKept ==
  ASSUME Base, InstGrows, RollsTold, NEW k \in DOMAIN rolls, NEW x, x = rolls[k]
  PROVE  ToldToStop(x)'
  <1>1. /\ x.at = "abort" => x.new \in Runners /\ inst[x.new].stopped
        /\ \A r \in x.stopping : r \in Runners /\ inst[r].stopped
    BY RollFields DEF Base, RollsTold, ToldToStop
  <1> QED
    BY <1>1 DEF ToldToStop, InstGrows

(* No reload moves.                                                           *)
LEMMA ToldSame ==
  ASSUME Base, InstGrows, RollsTold, UNCHANGED rolls
  PROVE  RollsTold'
  <1> SUFFICES ASSUME NEW k \in DOMAIN rolls PROVE ToldToStop(rolls[k])'
    BY DEF RollsTold
  <1>1. PICK x : x = rolls[k]
    OBVIOUS
  <1>2. ToldToStop(x)'
    BY <1>1, ToldKept
  <1> QED
    BY <1>1, <1>2 DEF ToldToStop

(* One moves, or begins.                                                      *)
LEMMA ToldWritten ==
  ASSUME Base, InstGrows, RollsTold, NEW y, ToldToStop(y)',
         \A i \in DOMAIN rolls' : rolls'[i] = y \/ (i \in DOMAIN rolls /\ rolls'[i] = rolls[i])
  PROVE  RollsTold'
  <1> SUFFICES ASSUME NEW k \in DOMAIN rolls' PROVE ToldToStop(rolls[k])'
    BY DEF RollsTold
  <1>1. PICK x : x = rolls'[k]
    OBVIOUS
  <1>2. ToldToStop(x)'
    BY <1>1, ToldKept
  <1> QED
    BY <1>1, <1>2 DEF ToldToStop

(* A step of a reload writes its record alone.                                *)
LEMMA RollShape ==
  ASSUME Base, NEW k \in DOMAIN rolls, NEW y, rolls' = [rolls EXCEPT ![k] = y]
  PROVE  /\ DOMAIN rolls' = DOMAIN rolls
         /\ \A i \in DOMAIN rolls : rolls'[i] = IF i = k THEN y ELSE rolls[i]
  <1>1. PICK n : rolls = [i \in 1..n |-> rolls[i]] /\ DOMAIN rolls = 1..n
    BY LenProperties DEF Base, RollTypes
  <1> QED
    BY <1>1

(* A reload that begins writes none of the others.                            *)
LEMMA RollNew ==
  ASSUME Base, NEW y, rolls' = Append(rolls, y)
  PROVE  /\ DOMAIN rolls' = DOMAIN rolls \cup {Len(rolls) + 1}
         /\ Len(rolls) + 1 \notin DOMAIN rolls
         /\ rolls'[Len(rolls) + 1] = y
         /\ \A i \in DOMAIN rolls : rolls'[i] = rolls[i]
  <1>1. PICK S : S = RollSets(Len(inst)) \cup {y}
    OBVIOUS
  <1>2. rolls \in Seq(S) /\ y \in S /\ Len(rolls) \in Nat /\ DOMAIN rolls = 1..Len(rolls)
    <2>1. RollSets(Len(inst)) \subseteq S
      BY <1>1
    <2> QED
      BY <1>1, <2>1, SeqMonotonic, LenProperties DEF Base, RollTypes
  <1>3. /\ rolls' \in Seq(S) /\ Len(rolls') = Len(rolls) + 1
        /\ \A i \in 1..Len(rolls) : rolls'[i] = rolls[i]
        /\ rolls'[Len(rolls) + 1] = y
    BY <1>2, AppendProperties
  <1>4. DOMAIN rolls' = 1..(Len(rolls) + 1)
    BY <1>3, LenProperties
  <1> QED
    BY <1>2, <1>3, <1>4

(* A reload going on.                                                         *)
LEMMA RollTold ==
  ASSUME Base, InstGrows, RollsTold, NEW k \in DOMAIN rolls, Roll(k)
  PROVE  RollsTold'
  <1>1. PICK x : x = rolls[k]
    OBVIOUS
  <1>2. ToldToStop(x)'
    BY <1>1, ToldKept
  <1>3. x.stopping \subseteq Runners /\ (x.at \in {"probe", "abort"} => x.new \in Runners)
    BY <1>1, RollFields DEF Base
  <1>4. ASSUME NEW y, rolls' = [rolls EXCEPT ![k] = y], ToldToStop(y)'
        PROVE  RollsTold'
    BY <1>4, RollShape, ToldWritten
  <1>5. ASSUME NEW y, y.stopping = x.stopping, y.at # "abort", rolls' = [rolls EXCEPT ![k] = y]
        PROVE  RollsTold'
    <2>1. ToldToStop(y)'
      BY <1>2, <1>5 DEF ToldToStop
    <2> QED
      BY <1>4, <1>5, <2>1
  <1>6. CASE RollLaunch(k)
    <2>1. PICK y : /\ rolls' = [rolls EXCEPT ![k] = y]
                   /\ y = RollRec("probe", x.todo, Len(inst) + 1, x.drains, x.stopping)
      BY <1>1, <1>6, LaunchedRoll
    <2>2. y.stopping = x.stopping /\ y.at # "abort"
      BY <2>1 DEF RollRec
    <2> QED
      BY <1>5, <2>1, <2>2
  <1>7. CASE RollSwap(k)
    <2>1. PICK y : /\ rolls' = [rolls EXCEPT ![k] = y]
                   /\ y = RollRec("next", Tail(x.todo), 0, x.drains \cup {Head(x.todo)},
                                  x.stopping)
      BY <1>1, <1>7, SwappedRoll
    <2>2. y.stopping = x.stopping /\ y.at # "abort"
      BY <2>1 DEF RollRec
    <2> QED
      BY <1>5, <2>1, <2>2
  <1>8. CASE RollAbort(k)
    <2>1. PICK y : /\ rolls' = [rolls EXCEPT ![k] = y]
                   /\ y = RollRec("abort", x.todo, x.new, x.drains, x.stopping)
      BY <1>1, <1>8, RollBecomes
    <2>2. y.stopping = x.stopping /\ y.new = x.new
      BY <2>1 DEF RollRec
    <2>3. PICK r : r = x.new
      OBVIOUS
    <2>4. r \in Runners /\ inst' = [inst EXCEPT ![r].stopped = TRUE] /\ UNCHANGED nextIdx
      BY <1>1, <1>3, <1>8, <2>3 DEF RollAbort, GivenUp
    <2>5. inst'[r].stopped
      BY <2>4, RunnerStopped DEF Base
    <2>6. ToldToStop(y)'
      BY <1>2, <2>2, <2>3, <2>5 DEF ToldToStop
    <2> QED
      BY <1>4, <2>1, <2>6
  <1>9. CASE RollAbortDone(k)
    <2>1. PICK y : /\ rolls' = [rolls EXCEPT ![k] = y]
                   /\ y = RollRec("next", <<>>, 0, x.drains, x.stopping)
      BY <1>1, <1>9, RollBecomes
    <2>2. y.stopping = x.stopping /\ y.at # "abort"
      BY <2>1 DEF RollRec
    <2> QED
      BY <1>5, <2>1, <2>2
  <1>10. CASE RollDone(k)
    <2>1. PICK y : /\ rolls' = [rolls EXCEPT ![k] = y]
                   /\ y = RollRec("done", x.todo, x.new, x.drains, x.stopping)
      BY <1>1, <1>10, RollBecomes
    <2>2. y.stopping = x.stopping /\ y.at # "abort"
      BY <2>1 DEF RollRec
    <2> QED
      BY <1>5, <2>1, <2>2
  <1>11. ASSUME NEW old \in Runners, DrainTell(k, old) PROVE RollsTold'
    <2>1. PICK d, s, y :
            /\ d = x.drains \ {old} /\ s = x.stopping \cup {old}
            /\ rolls' = [rolls EXCEPT ![k] = y] /\ y = RollRec(x.at, x.todo, x.new, d, s)
      BY <1>1, <1>11, DrainingRoll
    <2>2. y.stopping = s /\ y.at = x.at /\ y.new = x.new
      BY <2>1 DEF RollRec
    <2>3. inst' = [inst EXCEPT ![old].stopped = TRUE] /\ UNCHANGED nextIdx
      BY <1>11 DEF DrainTell
    <2>4. inst'[old].stopped
      BY <2>3, RunnerStopped DEF Base
    <2>5. ToldToStop(y)'
      BY <1>2, <2>1, <2>2, <2>4 DEF ToldToStop
    <2> QED
      BY <1>4, <2>1, <2>5
  <1>12. ASSUME NEW old \in Runners, DrainDone(k, old) PROVE RollsTold'
    <2>1. PICK s, y : /\ s = x.stopping \ {old} /\ rolls' = [rolls EXCEPT ![k] = y]
                      /\ y = RollRec(x.at, x.todo, x.new, x.drains, s)
      BY <1>1, <1>12, DrainedRoll
    <2>2. y.stopping = s /\ y.at = x.at /\ y.new = x.new
      BY <2>1 DEF RollRec
    <2>3. ToldToStop(y)'
      BY <1>2, <2>1, <2>2 DEF ToldToStop
    <2> QED
      BY <1>4, <2>1, <2>3
  <1> QED
    BY <1>6, <1>7, <1>8, <1>9, <1>10, <1>11, <1>12 DEF Roll

(* A reload, whoever asks for it.                                             *)
LEMMA ReloadTold ==
  ASSUME Base, InstGrows, MoreOfAll, RollsTold, NEW c, Reload(c)
  PROVE  RollsTold'
  <1>1. CASE ReloadRolls
    <2>1. PICK y : rolls' = Append(rolls, y) /\ y.at = "next" /\ y.stopping = {}
      BY <1>1, RollBegins
    <2>2. ToldToStop(y)'
      BY <2>1 DEF ToldToStop
    <2>3. \A i \in DOMAIN rolls' : rolls'[i] = y \/ (i \in DOMAIN rolls /\ rolls'[i] = rolls[i])
      BY <2>1, RollNew
    <2> QED
      BY <2>2, <2>3, ToldWritten
  <1>2. CASE ReloadPortless(c) \/ ReloadStarts
    BY <1>2, ToldSame DEF ReloadPortless, ReloadStarts, reloadVars
  <1> QED
    BY <1>1, <1>2 DEF Reload

(* Every step.                                                                *)
LEMMA StepTold == Base /\ RollsTold /\ [Next]_vars => RollsTold'
  <1> SUFFICES ASSUME Base, RollsTold, [Next]_vars PROVE RollsTold'
    OBVIOUS
  <1> MoreOfAll /\ InstGrows
    BY StepMore DEF Carried
  <1>1. CASE Start \/ Resurrect \/ ScaleUp \/ Save \/ WatcherFires \/ WatcherRefused
    BY <1>1, ToldSame DEF Start, Resurrect, ScaleUp, Save, WatcherFires,
                          WatcherRefused, reloadVars
  <1>2. ASSUME NEW c \in Clients, Request(c) PROVE RollsTold'
    BY <1>2, ReloadTold, ToldSame
       DEF Request, Stop, Restart, Delete, ScaleDown, Shutdown, RequestReload, reloadVars
  <1>3. ASSUME NEW c \in Clients, Serve(c) PROVE RollsTold'
    BY <1>3, ToldSame DEF Serve, TellStop, StopReturns, StopDone, RestartDone,
                          DeleteDone, ScaleDownDone, ShutdownDone, reloadVars
  <1>4. ASSUME NEW c \in Clients, WatcherReloads(c) PROVE RollsTold'
    BY <1>4, ReloadTold DEF WatcherReloads
  <1>5. ASSUME NEW k \in DOMAIN rolls, Roll(k) PROVE RollsTold'
    BY <1>5, RollTold
  <1>6. ASSUME NEW r \in Runners, Report(r) PROVE RollsTold'
    BY <1>6, ToldSame DEF Report, reloadVars
  <1>7. CASE UNCHANGED vars
    BY <1>7, ToldSame DEF vars, reloadVars
  <1> QED
    BY <1>1, <1>2, <1>3, <1>4, <1>5, <1>6, <1>7 DEF Next

--------------------------------------------------------------------------------
(* No running instance is lost                                                *)

LostInv == SliceKept => Live \subseteq Tracked \cup Rolling

(* Everything the other parts say of a state.                                 *)
Whole == Base /\ SeenInv /\ ScaleInv /\ RollsTold

(* What is dropped was told to stop, and what is launched is in hand.          *)
LEMMA LostStep ==
  ASSUME Base, InstGrows, LostInv, SliceKept,
         \A r \in Runners : r \in Tracked \cup Rolling =>
           inst'[r].stopped \/ r \in (Tracked \cup Rolling)',
         \A r \in Runners' : r \in Runners \/ r \in (Tracked \cup Rolling)'
  PROVE  LostInv'
  <1> SUFFICES ASSUME NEW r \in Runners', ~inst'[r].stopped
               PROVE  r \in (Tracked \cup Rolling)'
    BY DEF LostInv, Live
  <1>1. CASE r \in Runners
    <2>1. r \in Live
      BY <1>1 DEF Live, InstGrows
    <2>2. r \in Tracked \cup Rolling
      BY <2>1 DEF LostInv
    <2> QED
      BY <1>1, <2>2
  <1> QED
    BY <1>1

(* A step that neither launches a runner nor touches the slice or a reload.    *)
LEMMA LostSame ==
  ASSUME Base, InstGrows, LostInv, SliceKept, UNCHANGED <<arrays, runners, rolls>>,
         Len(inst') = Len(inst)
  PROVE  LostInv'
  <1>1. Tracked' = Tracked /\ Rolling' = Rolling /\ Runners' = Runners
    BY DEF Tracked, At, Rolling, Runners
  <1> QED
    BY <1>1, LostStep

(* A fresh start where there is no runner.                                    *)
LEMMA LostStart ==
  ASSUME Base, InstGrows, LostInv, SliceKept, NEW p, NEW n \in Nat, StartInstances(p, n),
         runners.len = 0, UNCHANGED rolls
  PROVE  LostInv'
  <1>1. /\ Len(inst') = Len(inst) + n /\ runners'.len = n
        /\ \A i \in 1..n : At(i)' = Len(inst) + i
    BY SliceStarted DEF Base
  <1>2. Len(inst) \in Nat
    BY RunnerFields DEF Base
  <1>3. Tracked = {} /\ Rolling' = Rolling
    BY DEF Tracked, Rolling
  <1>4. ASSUME NEW r \in Runners' PROVE r \in Runners \/ r \in Tracked'
    <2>1. r \in 1..(Len(inst) + n)
      BY <1>1 DEF Runners
    <2>2. CASE r > Len(inst)
      <3>1. r - Len(inst) \in 1..n /\ r = Len(inst) + (r - Len(inst))
        BY <1>2, <2>1, <2>2
      <3>2. PICK i \in 1..n : r = Len(inst) + i
        BY <3>1
      <3> QED
        BY <1>1, <3>2 DEF Tracked
    <2>3. CASE ~(r > Len(inst))
      BY <1>2, <2>1, <2>3 DEF Runners
    <2> QED
      BY <2>2, <2>3
  <1> QED
    BY <1>3, <1>4, LostStep

(* A scale-up.                                                                *)
LEMMA LostScaleUp ==
  ASSUME Base, InstGrows, LostInv, SliceKept, ScaleUp
  PROVE  LostInv'
  <1>1. PICK k \in Nat \ {0} :
          /\ Len(inst') = Len(inst) + k /\ runners'.len = runners.len + k
          /\ \A i \in 1..runners.len : At(i)' = At(i)
          /\ \A j \in 1..k : arrays'[runners'.arr][runners.len + j] = Len(inst) + j
    BY CarriedScaleUp
  <1>2. Len(inst) \in Nat /\ runners.len \in Nat
    BY RunnerFields, SliceFields DEF Base
  <1>3. Rolling' = Rolling
    BY DEF ScaleUp, Rolling, reloadVars
  <1>4. \A i \in 1..runners.len : i \in 1..runners'.len
    BY <1>1, <1>2
  <1>5. Tracked \subseteq Tracked'
    BY <1>1, <1>4 DEF Tracked
  <1>6. ASSUME NEW r \in Runners' PROVE r \in Runners \/ r \in Tracked'
    <2>1. r \in 1..(Len(inst) + k)
      BY <1>1 DEF Runners
    <2>2. CASE r > Len(inst)
      <3>1. r - Len(inst) \in 1..k /\ r = Len(inst) + (r - Len(inst))
        BY <1>2, <2>1, <2>2
      <3>2. PICK j \in 1..k : r = Len(inst) + j
        BY <3>1
      <3>3. runners.len + j \in 1..runners'.len
        BY <1>1, <1>2
      <3> QED
        BY <1>1, <3>2, <3>3 DEF Tracked, At
    <2>3. CASE ~(r > Len(inst))
      BY <1>2, <2>1, <2>3 DEF Runners
    <2> QED
      BY <2>2, <2>3
  <1> QED
    BY <1>3, <1>5, <1>6, LostStep

(* The beginning of a scale-down.                                             *)
LEMMA LostScaleDown ==
  ASSUME Base, InstGrows, LostInv, SliceKept, NEW c \in Clients, ScaleDown(c)
  PROVE  LostInv'
  <1>1. PICK t \in Sortings(Slice) : \A i \in 1..runners.len : At(i)' = t[i]
    BY CarriedScaleDown
  <1>2. PICK n : n = runners.len
    OBVIOUS
  <1>3. PICK f \in [1..n -> 1..n] : /\ \A j \in 1..n : \E i \in 1..n : f[i] = j
                                    /\ \A i \in 1..n : t[i] = At(f[i])
    BY <1>2, SortingArranges DEF Base
  <1>4. UNCHANGED <<inst, runners, rolls>>
    BY DEF ScaleDown, reloadVars
  <1>5. Rolling' = Rolling /\ Runners' = Runners
    BY <1>4 DEF Rolling, Runners
  <1>6. Tracked \subseteq Tracked'
    <2>1. ASSUME NEW j \in 1..n PROVE At(j) \in Tracked'
      <3>1. PICK i \in 1..n : f[i] = j
        BY <1>3
      <3>2. At(j) = At(i)'
        BY <1>1, <1>2, <1>3, <3>1
      <3>3. i \in 1..runners'.len
        BY <1>2, <1>4
      <3> QED
        BY <3>2, <3>3 DEF Tracked
    <2> QED
      BY <1>2, <2>1 DEF Tracked
  <1> QED
    BY <1>5, <1>6, LostStep

(* The end of a scale-down: what it drops has stopped.                        *)
LEMMA LostScaleDone ==
  ASSUME Base, ScaleInv, InstGrows, LostInv, SliceKept, NEW c \in Clients, ScaleDownDone(c)
  PROVE  LostInv'
  <1>1. PICK g, n : g = job[c].goal /\ n = runners.len
    OBVIOUS
  <1>2. /\ c = mu /\ g \in 1..n /\ runners'.len = g
        /\ \A i \in 1..g : At(i)' = At(i)
    BY <1>1, CarriedScaleDone
  <1>3. UNCHANGED <<inst, rolls>>
    BY DEF ScaleDownDone, reloadVars
  <1>4. Rolling' = Rolling /\ Runners' = Runners
    BY <1>3 DEF Rolling, Runners
  <1>5. /\ job[c].i \in Nat /\ job[c].i > n /\ n \in Nat
        /\ \A p \in (g + 1)..(job[c].i - 1) : inst[At(p)].stopped
    BY <1>1, JobFields, SliceFields
       DEF ScaleDownDone, Finishes, Base, ScaleAlone, ScaleInv, ScaledDown
  <1>6. ASSUME NEW p \in 1..n PROVE inst[At(p)].stopped \/ At(p) \in Tracked'
    <2>1. CASE p <= g
      BY <1>2, <2>1 DEF Tracked
    <2>2. CASE p > g
      <3>1. p \in (g + 1)..(job[c].i - 1)
        BY <1>2, <1>5, <2>2
      <3> QED
        BY <1>5, <3>1
    <2> QED
      BY <1>2, <2>1, <2>2
  <1> QED
    BY <1>1, <1>3, <1>4, <1>6, LostStep DEF Tracked

(* A reload, whoever asks for it.                                             *)
LEMMA LostReload ==
  ASSUME Base, InstGrows, MoreOfAll, LostInv, SliceKept, NEW c \in Clients, Reload(c)
  PROVE  LostInv'
  <1>1. CASE ReloadRolls
    <2>1. PICK y : rolls' = Append(rolls, y)
      BY <1>1, RollBegins
    <2>2. \A k \in DOMAIN rolls : k \in DOMAIN rolls' /\ rolls'[k] = rolls[k]
      BY <2>1, RollNew
    <2>3. Rolling \subseteq Rolling'
      BY <2>2 DEF Rolling
    <2>4. UNCHANGED <<inst, arrays, runners>>
      BY <1>1 DEF ReloadRolls, runnerVars
    <2>5. Tracked' = Tracked /\ Runners' = Runners
      BY <2>4 DEF Tracked, At, Runners
    <2> QED
      BY <2>3, <2>5, LostStep
  <1>2. CASE ReloadPortless(c)
    BY <1>2, LostSame DEF ReloadPortless, runnerVars, reloadVars
  <1>3. CASE ReloadStarts
    <2>1. specs[svc] \in Nat
      BY SpecCounts DEF Reload, Base
    <2> QED
      BY <1>3, <2>1, LostStart DEF ReloadStarts, reloadVars
  <1> QED
    BY <1>1, <1>2, <1>3 DEF Reload

(* What one step of a reload leaves in hand.                                  *)
LEMMA HeldMoves ==
  ASSUME Base, NEW k \in DOMAIN rolls, NEW x, x = rolls[k], NEW y,
         rolls' = [rolls EXCEPT ![k] = y]
  PROVE  /\ \A r : r \in Held(y) => r \in Rolling'
         /\ \A r : r \in Rolling => r \in Rolling' \/ r \in Held(x) \ Held(y)
  <1>1. /\ DOMAIN rolls' = DOMAIN rolls
        /\ \A i \in DOMAIN rolls : rolls'[i] = IF i = k THEN y ELSE rolls[i]
    BY RollShape
  <1>2. Rolling' = UNION {Held(rolls'[i]) : i \in DOMAIN rolls'}
    BY DEF Rolling, Held
  <1>3. \A r : r \in Held(y) => r \in Rolling'
    BY <1>1, <1>2
  <1>4. ASSUME NEW r \in Rolling PROVE r \in Rolling' \/ r \in Held(x) \ Held(y)
    <2>1. PICK i \in DOMAIN rolls : r \in Held(rolls[i])
      BY <1>4, RollingHeld
    <2>2. CASE i = k
      BY <1>3, <2>1, <2>2
    <2>3. CASE i # k
      BY <1>1, <1>2, <2>1, <2>3
    <2> QED
      BY <2>2, <2>3
  <1> QED
    BY <1>3, <1>4

(* A reload going on.                                                         *)
LEMMA LostRoll ==
  ASSUME Base, InstGrows, RollsTold, LostInv, SliceKept, NEW k \in DOMAIN rolls, Roll(k)
  PROVE  LostInv'
  <1>1. PICK x : x = rolls[k]
    OBVIOUS
  <1>2. /\ Held(x) \subseteq Runners /\ ToldToStop(x) /\ RollState(x)
        /\ x.stopping \subseteq Runners /\ (x.at \in {"probe", "abort"} => x.new \in Runners)
    BY <1>1, RollFields DEF Base, Held, RollsTold
  <1>3. CASE RollLaunch(k)
    <2>1. PICK y, w : /\ rolls' = [rolls EXCEPT ![k] = y] /\ w = Len(inst) + 1
                      /\ y = RollRec("probe", x.todo, w, x.drains, x.stopping)
      BY <1>1, <1>3, LaunchedRoll
    <2>2. PICK slot \in Nat : slot = inst[Head(rolls[k].todo)].slot
      BY <1>3, RollFields, RunnerFields DEF Base, RollLaunch
    <2>3. NewRunners(1, slot) /\ UNCHANGED <<arrays, runners>>
      BY <1>3, <2>2 DEF RollLaunch
    <2>4. Len(inst') = w /\ Len(inst) \in Nat
      BY <2>1, <2>3, RunnersAdded, RunnerFields DEF Base
    <2>5. x.new = 0 /\ w # 0
      BY <1>1, <1>2, <1>3, <2>1, <2>4 DEF RollState, RollLaunch
    <2>6. Held(y) = Held(x) \cup {w}
      BY <2>1, <2>5 DEF RollRec, Held
    <2>7. w \in Rolling' /\ \A r : r \in Rolling => r \in Rolling'
      <3>1. /\ \A r : r \in Held(y) => r \in Rolling'
            /\ \A r : r \in Rolling => r \in Rolling' \/ r \in Held(x) \ Held(y)
        BY <1>1, <2>1, HeldMoves
      <3> QED
        BY <2>6, <3>1
    <2>8. Tracked' = Tracked
      BY <2>3 DEF Tracked, At
    <2>9. \A r \in Runners' : r \in Runners \/ r = w
      BY <2>1, <2>4 DEF Runners
    <2> QED
      BY <2>7, <2>8, <2>9, LostStep
  <1>4. CASE RollSwap(k)
    <2>1. PICK y, h : /\ rolls' = [rolls EXCEPT ![k] = y] /\ h = Head(x.todo)
                      /\ y = RollRec("next", Tail(x.todo), 0, x.drains \cup {h}, x.stopping)
      BY <1>1, <1>4, SwappedRoll
    <2>2. PICK nw : nw = x.new
      OBVIOUS
    <2>3. Held(y) = x.drains \cup {h} \cup x.stopping
      BY <2>1 DEF RollRec, Held
    <2>4. \A r : r \in Held(x) => r \in Held(y) \/ r = nw
      BY <2>2, <2>3 DEF Held
    <2>5. h \in Rolling' /\ \A r : r \in Rolling => r \in Rolling' \/ r = nw
      <3>1. h \in Held(y)
        BY <2>3
      <3> QED
        BY <1>1, <2>1, <2>4, <3>1, HeldMoves
    <2>6. \/ \E p \in 1..runners.len :
               /\ At(p) = h /\ runners'.len = runners.len
               /\ \A i \in 1..runners.len : At(i)' = IF i = p THEN nw ELSE At(i)
          \/ /\ h \notin Tracked /\ runners'.len = runners.len + 1
             /\ \A i \in 1..runners.len : At(i)' = At(i)
             /\ arrays'[runners'.arr][runners.len + 1] = nw
      BY <1>1, <1>4, <2>1, <2>2, CarriedSwap
    <2>7. nw \in Tracked' /\ \A r : r \in Tracked => r \in Tracked' \/ r = h
      <3>1. ASSUME NEW p \in 1..runners.len, At(p) = h, runners'.len = runners.len,
                   \A i \in 1..runners.len : At(i)' = IF i = p THEN nw ELSE At(i)
            PROVE  nw \in Tracked' /\ \A r : r \in Tracked => r \in Tracked' \/ r = h
        <4>1. nw \in Tracked'
          BY <3>1 DEF Tracked
        <4>2. ASSUME NEW i \in 1..runners.len PROVE At(i) \in Tracked' \/ At(i) = h
          <5>1. i # p => At(i)' = At(i)
            BY <3>1
          <5>2. i # p => At(i)' \in Tracked'
            BY <3>1 DEF Tracked
          <5> QED
            BY <3>1, <5>1, <5>2
        <4> QED
          BY <4>1, <4>2 DEF Tracked
      <3>2. ASSUME runners'.len = runners.len + 1,
                   \A i \in 1..runners.len : At(i)' = At(i),
                   arrays'[runners'.arr][runners.len + 1] = nw
            PROVE  nw \in Tracked' /\ \A r : r \in Tracked => r \in Tracked' \/ r = h
        <4>1. runners.len \in Nat
          BY SliceFields DEF Base
        <4>2. runners.len + 1 \in 1..runners'.len
              /\ \A i \in 1..runners.len : i \in 1..runners'.len
          BY <3>2, <4>1
        <4>3. nw \in Tracked'
          BY <3>2, <4>2 DEF Tracked, At
        <4>4. \A i \in 1..runners.len : At(i) \in Tracked'
          BY <3>2, <4>2 DEF Tracked
        <4> QED
          BY <4>3, <4>4 DEF Tracked
      <3> QED
        BY <2>6, <3>1, <3>2
    <2>8. Runners' = Runners
      BY <1>4 DEF RollSwap, Runners
    <2> QED
      BY <2>5, <2>7, <2>8, LostStep
  <1>5. ASSUME NEW y, rolls' = [rolls EXCEPT ![k] = y], UNCHANGED <<arrays, runners>>,
               Len(inst') = Len(inst),
               \A r \in Held(x) : inst'[r].stopped \/ r \in Held(y)
        PROVE  LostInv'
    <2>1. Tracked' = Tracked /\ Runners' = Runners
      BY <1>5 DEF Tracked, At, Runners
    <2>2. \A r : r \in Rolling => r \in Rolling' \/ r \in Held(x) \ Held(y)
      BY <1>1, <1>5, HeldMoves
    <2> QED
      BY <1>5, <2>1, <2>2, LostStep
  <1>6. CASE RollAbort(k)
    <2>1. PICK y : /\ rolls' = [rolls EXCEPT ![k] = y]
                   /\ y = RollRec("abort", x.todo, x.new, x.drains, x.stopping)
      BY <1>1, <1>6, RollBecomes
    <2>2. PICK r : r = x.new
      OBVIOUS
    <2>3. r \in Runners /\ inst' = [inst EXCEPT ![r].stopped = TRUE] /\ UNCHANGED nextIdx
      BY <1>1, <1>2, <1>6, <2>2 DEF RollAbort, GivenUp
    <2>4. Len(inst') = Len(inst)
      BY <2>3, RunnerStopped DEF Base
    <2>5. Held(y) = Held(x)
      BY <2>1 DEF RollRec, Held
    <2> QED
      BY <1>5, <1>6, <2>1, <2>4, <2>5 DEF RollAbort
  <1>7. CASE RollAbortDone(k)
    <2>1. PICK y : /\ rolls' = [rolls EXCEPT ![k] = y]
                   /\ y = RollRec("next", <<>>, 0, x.drains, x.stopping)
      BY <1>1, <1>7, RollBecomes
    <2>2. UNCHANGED <<inst, arrays, runners>>
      BY <1>7 DEF RollAbortDone, runnerVars
    <2>3. \A r \in Held(x) : r \in Held(y) \/ r = x.new
      BY <2>1 DEF RollRec, Held
    <2>4. inst[x.new].stopped
      BY <1>1, <1>2, <1>7 DEF ToldToStop, RollAbortDone
    <2> QED
      BY <1>5, <2>1, <2>2, <2>3, <2>4
  <1>8. CASE RollDone(k)
    <2>1. PICK y : /\ rolls' = [rolls EXCEPT ![k] = y]
                   /\ y = RollRec("done", x.todo, x.new, x.drains, x.stopping)
      BY <1>1, <1>8, RollBecomes
    <2>2. UNCHANGED <<inst, arrays, runners>>
      BY <1>8 DEF RollDone, runnerVars
    <2>3. Held(y) = Held(x)
      BY <2>1 DEF RollRec, Held
    <2> QED
      BY <1>5, <2>1, <2>2, <2>3
  <1>9. ASSUME NEW old \in Runners, DrainTell(k, old) PROVE LostInv'
    <2>1. PICK d, s, y :
            /\ d = x.drains \ {old} /\ s = x.stopping \cup {old}
            /\ rolls' = [rolls EXCEPT ![k] = y] /\ y = RollRec(x.at, x.todo, x.new, d, s)
      BY <1>1, <1>9, DrainingRoll
    <2>2. inst' = [inst EXCEPT ![old].stopped = TRUE] /\ UNCHANGED <<nextIdx, arrays, runners>>
      BY <1>9 DEF DrainTell
    <2>3. Len(inst') = Len(inst)
      BY <2>2, RunnerStopped DEF Base
    <2>4. \A r \in Held(x) : r \in Held(y)
      BY <2>1 DEF RollRec, Held
    <2> QED
      BY <1>5, <2>1, <2>2, <2>3, <2>4
  <1>10. ASSUME NEW old \in Runners, DrainDone(k, old) PROVE LostInv'
    <2>1. PICK s, y : /\ s = x.stopping \ {old} /\ rolls' = [rolls EXCEPT ![k] = y]
                      /\ y = RollRec(x.at, x.todo, x.new, x.drains, s)
      BY <1>1, <1>10, DrainedRoll
    <2>2. UNCHANGED <<inst, arrays, runners>>
      BY <1>10 DEF DrainDone, runnerVars
    <2>3. \A r \in Held(x) : r \in Held(y) \/ r = old
      BY <2>1 DEF RollRec, Held
    <2>4. inst[old].stopped
      BY <1>1, <1>2, <1>10 DEF ToldToStop, DrainDone
    <2> QED
      BY <1>5, <2>1, <2>2, <2>3, <2>4
  <1> QED
    BY <1>3, <1>4, <1>6, <1>7, <1>8, <1>9, <1>10 DEF Roll

(* A handler going on.                                                        *)
LEMMA LostServe ==
  ASSUME Whole, InstGrows, LostInv, SliceKept, NEW c \in Clients, Serve(c)
  PROVE  LostInv'
  <1> Base /\ SeenInv /\ ScaleInv
    BY DEF Whole
  <1>1. CASE TellStop(c)
    <2>1. PICK r \in Runners : inst' = [inst EXCEPT ![r].stopped = TRUE]
      BY <1>1, ToldJob
    <2>2. UNCHANGED <<nextIdx, arrays, runners, rolls>>
      BY <1>1 DEF TellStop, reloadVars
    <2>3. Len(inst') = Len(inst)
      BY <2>1, <2>2, RunnerStopped DEF Base
    <2> QED
      BY <2>2, <2>3, LostSame
  <1>2. CASE StopReturns(c) \/ StopDone(c) \/ DeleteDone(c) \/ ShutdownDone(c)
    BY <1>2, LostSame DEF StopReturns, StopDone, DeleteDone, ShutdownDone, runnerVars,
                          reloadVars
  <1>3. CASE RestartDone(c)
    BY <1>3 DEF RestartDone, Finishes, SeenInv, JobsAsked, Asked, SliceKept
  <1>4. CASE ScaleDownDone(c)
    BY <1>4, LostScaleDone
  <1> QED
    BY <1>1, <1>2, <1>3, <1>4 DEF Serve

(* Every step.                                                                *)
LEMMA StepLost == Whole /\ LostInv /\ [Next]_vars => LostInv'
  <1> SUFFICES ASSUME Whole, LostInv, [Next]_vars, SliceKept' PROVE LostInv'
    BY DEF LostInv
  <1>0. Base /\ SeenInv /\ RollsTold /\ InstGrows /\ MoreOfAll
    BY StepMore DEF Whole, Carried
  <1>1. SliceKept
    BY StepSeen DEF SliceKept
  <1>2. CASE Start
    <2>1. svc # 0 => specs[svc] \in Nat
      BY <1>0, SpecCounts DEF Base
    <2>2. UNCHANGED rolls
      BY <1>2 DEF Start, reloadVars
    <2>3. CASE svc # 0 /\ ~AnyRunning /\ StartInstances(svc, specs[svc])
      <3>1. runners.len = 0
        BY <1>0, <2>3, SliceFields DEF Base, AnyRunning
      <3> QED
        BY <1>0, <1>1, <2>1, <2>2, <2>3, <3>1, LostStart
    <2>4. ASSUME svc = 0, NEW n \in Counts, StartInstances(Len(specs) + 1, n)
          PROVE  LostInv'
      <3>1. runners.len = 0
        BY <1>0, <1>1, <2>4 DEF SeenInv, NothingYet, SliceKept
      <3>2. n \in Nat
        BY DaemonAssumption
      <3> QED
        BY <1>0, <1>1, <2>2, <2>4, <3>1, <3>2, LostStart
    <2> QED
      BY <1>2, <2>3, <2>4 DEF Start
  <1>3. CASE Resurrect
    BY <1>3 DEF Resurrect, Accept, SliceKept
  <1>4. CASE ScaleUp
    BY <1>0, <1>1, <1>4, LostScaleUp
  <1>5. CASE Save \/ WatcherFires \/ WatcherRefused
    BY <1>0, <1>1, <1>5, LostSame DEF Save, WatcherFires, WatcherRefused, runnerVars,
                                      reloadVars
  <1>6. ASSUME NEW c \in Clients, Request(c) PROVE LostInv'
    <2>1. CASE Delete(c)
      BY <2>1 DEF Delete, Accept, SliceKept
    <2>2. CASE ScaleDown(c)
      BY <1>0, <1>1, <2>2, LostScaleDown
    <2>3. CASE RequestReload(c)
      BY <1>0, <1>1, <2>3, LostReload DEF RequestReload
    <2>4. CASE Stop(c) \/ Restart(c) \/ Shutdown(c)
      BY <1>0, <1>1, <2>4, LostSame DEF Stop, Restart, Shutdown, runnerVars, reloadVars
    <2> QED
      BY <1>6, <2>1, <2>2, <2>3, <2>4 DEF Request
  <1>7. ASSUME NEW c \in Clients, Serve(c) PROVE LostInv'
    BY <1>0, <1>1, <1>7, LostServe
  <1>8. ASSUME NEW c \in Clients, WatcherReloads(c) PROVE LostInv'
    BY <1>0, <1>1, <1>8, LostReload DEF WatcherReloads
  <1>9. ASSUME NEW k \in DOMAIN rolls, Roll(k) PROVE LostInv'
    BY <1>0, <1>1, <1>9, LostRoll
  <1>10. ASSUME NEW r \in Runners, Report(r) PROVE LostInv'
    <2>1. inst' = [inst EXCEPT ![r].over = inst[r].stopped] /\ ~inst[r].over
          /\ UNCHANGED <<nextIdx, arrays, runners, rolls>>
      BY <1>10 DEF Report, reloadVars
    <2>2. Len(inst') = Len(inst)
      BY <1>0, <2>1, RunnerReported DEF Base
    <2> QED
      BY <1>0, <1>1, <2>1, <2>2, LostSame
  <1>11. CASE UNCHANGED vars
    BY <1>0, <1>1, <1>11, LostSame DEF vars, runnerVars, reloadVars
  <1> QED
    BY <1>2, <1>3, <1>4, <1>5, <1>6, <1>7, <1>8, <1>9, <1>10, <1>11 DEF Next

(* The parts hold at first, and at every step.                                *)
LEMMA InitWhole == Init => Whole
  <1> SUFFICES ASSUME Init PROVE ScaleInv /\ RollsTold
    BY InitBase, InitSeen DEF Whole
  <1>1. \A c \in Clients : job[c].op = "none"
    BY DEF Init, NoJob
  <1>2. DOMAIN rolls = {}
    BY DEF Init
  <1> QED
    BY <1>1, <1>2 DEF ScaleInv, RollsTold

(* Every step.                                                                *)
LEMMA StepWhole == Whole /\ [Next]_vars => Whole'
  BY StepBase, StepSeenInv, StepScale, StepTold DEF Whole

(* A running instance nobody has told to stop is tracked, or a reload has it   *)
(* in hand, through every overlap of stops, scales and reloads.                *)
THEOREM NoneLost == SafeSpec => []NoLostRunner
  <1>1. Init => Whole /\ LostInv
    <2> SUFFICES ASSUME Init PROVE LostInv
      BY InitWhole
    <2>1. Live = {}
      BY DEF Init, Live, Runners
    <2> QED
      BY <2>1 DEF LostInv
  <1>2. Whole /\ LostInv /\ [Next]_vars => (Whole /\ LostInv)'
    BY StepWhole, StepLost
  <1>3. LostInv => NoLostRunner
    BY DEF LostInv, NoLostRunner
  <1> QED
    BY <1>1, <1>2, <1>3, PTL DEF SafeSpec

--------------------------------------------------------------------------------
(* Slots                                                                      *)

(* A monotone injection of 1..n into itself moves nothing.                    *)
LEMMA MonotoneFixes ==
  ASSUME NEW n \in Nat, NEW f \in [1..n -> 1..n],
         \A i, j \in 1..n : i < j => f[i] < f[j],
         NEW i \in 1..n
  PROVE  f[i] = i
  <1>1. f[i] \in 1..n
    OBVIOUS
  <1>2. CASE f[i] < i
    <2>1. PICK S, T : S = 1..i /\ T = 1..f[i]
      OBVIOUS
    <2>2. IsFiniteSet(S) /\ Cardinality(S) = i
      BY <2>1, FS_Interval
    <2>3. IsFiniteSet(T) /\ Cardinality(T) = f[i]
      BY <1>1, <2>1, FS_Interval
    <2>4. PICK g : g = [j \in S |-> f[j]]
      OBVIOUS
    <2>5. \A j \in S : f[j] \in T
      BY <1>1, <2>1
    <2>6. g \in [S -> T]
      BY <2>4, <2>5
    <2>7. \E x, y \in S : x # y /\ g[x] = g[y]
      BY <1>2, <2>2, <2>3, <2>6, FS_PigeonHole
    <2>8. PICK x \in 1..n, y \in 1..n : x # y /\ f[x] = f[y]
      BY <2>1, <2>4, <2>7
    <2> QED
      BY <2>8
  <1>3. CASE f[i] > i
    <2>1. PICK S, T : S = i..n /\ T = f[i]..n
      OBVIOUS
    <2>2. IsFiniteSet(S) /\ Cardinality(S) = n - i + 1
      BY <2>1, FS_Interval
    <2>3. IsFiniteSet(T) /\ Cardinality(T) = n - f[i] + 1
      BY <1>1, <2>1, FS_Interval
    <2>4. PICK g : g = [j \in S |-> f[j]]
      OBVIOUS
    <2>5. \A j \in S : f[j] \in T
      BY <1>1, <2>1
    <2>6. g \in [S -> T]
      BY <2>4, <2>5
    <2>7. \E x, y \in S : x # y /\ g[x] = g[y]
      <3>1. Cardinality(T) < Cardinality(S)
        BY <1>1, <1>3, <2>2, <2>3
      <3> QED
        BY <2>2, <2>3, <2>6, <3>1, FS_PigeonHole
    <2>8. PICK x \in 1..n, y \in 1..n : x # y /\ f[x] = f[y]
      BY <2>1, <2>4, <2>7
    <2> QED
      BY <2>8
  <1> QED
    BY <1>1, <1>2, <1>3

InOrder == \A i \in 1..runners.len : inst[At(i)].slot = i - 1

(* Sorting a slice that is in order leaves it as it is.                       *)
LEMMA SortingKeeps ==
  ASSUME Base, InOrder, NEW t \in Sortings(Slice)
  PROVE  \A i \in 1..runners.len : t[i] = At(i)
  <1>1. PICK n \in Nat : n = runners.len
    BY SliceFields DEF Base
  <1>2. PICK f \in [1..n -> 1..n] : /\ \A i, j \in 1..n : f[i] = f[j] => i = j
                                    /\ \A i \in 1..n : t[i] = At(f[i])
    BY <1>1, SortingArranges DEF Base
  <1>3. \A i, j \in 1..n : i < j => inst[t[i]].slot <= inst[t[j]].slot
    BY <1>1, SortingArranges DEF Base
  <1>4. \A i \in 1..n : f[i] \in 1..n /\ inst[t[i]].slot = f[i] - 1
    BY <1>1, <1>2 DEF InOrder
  <1>5. \A i, j \in 1..n : i < j => f[i] < f[j]
    <2> SUFFICES ASSUME NEW i \in 1..n, NEW j \in 1..n, i < j PROVE f[i] < f[j]
      OBVIOUS
    <2>1. f[i] - 1 <= f[j] - 1
      BY <1>3, <1>4
    <2>2. f[i] # f[j] /\ f[i] \in 1..n /\ f[j] \in 1..n
      BY <1>2
    <2> QED
      BY <2>1, <2>2
  <1>6. \A i \in 1..n : f[i] = i
    BY <1>5, MonotoneFixes
  <1> QED
    BY <1>1, <1>2, <1>6

(* Without a reload the slice is in order, and as long as the spec says unless *)
(* a scale-down is under way.                                                 *)
SlotsInv ==
  "reload" \notin seen =>
    /\ InOrder
    /\ (mu = 0 /\ svc # 0 /\ runners.len > 0) => runners.len = specs[svc]

(* What positions keep.                                                       *)
LEMMA OrderKept ==
  ASSUME Base, InstGrows, InOrder, NEW n \in Nat, n <= runners.len, runners'.len = n,
         \A i \in 1..n : At(i)' = At(i)
  PROVE  InOrder'
  <1>1. runners.len \in Nat /\ \A i \in 1..n : i \in 1..runners.len
    BY SliceFields DEF Base
  <1>2. \A i \in 1..runners.len : At(i) \in Runners
    BY HeaderNames DEF Base, TrackedHeader, At
  <1>3. \A i \in 1..n : inst'[At(i)'].slot = i - 1
    BY <1>1, <1>2 DEF InOrder, InstGrows
  <1> QED
    BY <1>3 DEF InOrder

(* A step that leaves the slice alone.                                        *)
LEMMA SlotsSame ==
  ASSUME Base, InstGrows, SlotsInv, "reload" \notin seen, UNCHANGED <<arrays, runners>>,
         mu' # 0 \/ svc' = 0 \/ UNCHANGED <<mu, svc, specs>>
  PROVE  SlotsInv'
  <1>1. runners.len \in Nat /\ \A i \in 1..runners.len : At(i)' = At(i)
    BY SliceFields DEF Base, At
  <1>2. InOrder'
    BY <1>1, OrderKept DEF SlotsInv
  <1> QED
    BY <1>2 DEF SlotsInv

(* A fresh start.                                                             *)
LEMMA SlotsStart ==
  ASSUME Base, NEW p, NEW n \in Nat, StartInstances(p, n), specs'[p] = n
  PROVE  SlotsInv'
  <1>1. /\ runners'.len = n /\ \A i \in 1..n : At(i)' = Len(inst) + i
        /\ \A j \in 1..n : inst'[Len(inst) + j] = [idx |-> nextIdx + j - 1, slot |-> j - 1,
                                                   stopped |-> FALSE, over |-> FALSE]
    BY SliceStarted DEF Base
  <1>2. \A i \in 1..n : inst'[At(i)'].slot = i - 1
    <2> TAKE i \in 1..n
    <2>1. inst'[Len(inst) + i] = [idx |-> nextIdx + i - 1, slot |-> i - 1,
                                  stopped |-> FALSE, over |-> FALSE]
      BY <1>1
    <2>2. inst'[Len(inst) + i].slot = i - 1
      BY <2>1
    <2> QED
      BY <1>1, <2>2
  <1>3. svc' = p
    BY DEF StartInstances
  <1> QED
    BY <1>1, <1>2, <1>3 DEF SlotsInv, InOrder

(* What a Process object is set to.                                           *)
LEMMA SpecWritten ==
  ASSUME CountsInv, NEW p \in 1..Len(specs), NEW n, specs' = [specs EXCEPT ![p] = n]
  PROVE  specs'[p] = n
  <1>1. DOMAIN specs = 1..Len(specs)
    BY LenProperties DEF CountsInv
  <1> QED
    BY <1>1

(* A new Process object.                                                      *)
LEMMA SpecNew ==
  ASSUME CountsInv, NEW n, specs' = Append(specs, n)
  PROVE  specs'[Len(specs) + 1] = n
  <1>1. PICK S : S = Counts \cup {n}
    OBVIOUS
  <1>2. specs \in Seq(S) /\ n \in S
    <2>1. Counts \subseteq S
      BY <1>1
    <2> QED
      BY <1>1, <2>1, SeqMonotonic DEF CountsInv
  <1> QED
    BY <1>2, AppendProperties

(* A scale-up.                                                                *)
LEMMA SlotsScaleUp ==
  ASSUME Base, InstGrows, SlotsInv, "reload" \notin seen, ScaleUp
  PROVE  SlotsInv'
  <1>1. PICK k \in Nat \ {0} :
          /\ NewRunners(k, runners.len) /\ Len(inst') = Len(inst) + k
          /\ runners'.len = runners.len + k
          /\ \A i \in 1..runners.len : At(i)' = At(i)
          /\ \A j \in 1..k : arrays'[runners'.arr][runners.len + j] = Len(inst) + j
          /\ specs' = [specs EXCEPT ![svc] = runners.len + k]
    BY CarriedScaleUp
  <1>2. PICK n \in Nat : n = runners.len
    BY SliceFields DEF Base
  <1>3. \A j \in 1..k : inst'[Len(inst) + j] = [idx |-> nextIdx + j - 1, slot |-> n + j - 1,
                                                 stopped |-> FALSE, over |-> FALSE]
    BY <1>1, <1>2, RunnersAdded DEF Base
  <1>4. ASSUME NEW i \in 1..n PROVE inst'[At(i)'].slot = i - 1
    <2>1. At(i) \in Runners /\ inst[At(i)].slot = i - 1
      BY <1>2, HeaderNames DEF Base, TrackedHeader, At, SlotsInv, InOrder
    <2> QED
      BY <1>1, <1>2, <2>1 DEF InstGrows
  <1>5. ASSUME NEW j \in 1..k PROVE inst'[arrays'[runners'.arr][n + j]].slot = n + j - 1
    <2>1. inst'[Len(inst) + j].slot = n + j - 1
      <3>1. inst'[Len(inst) + j] = [idx |-> nextIdx + j - 1, slot |-> n + j - 1,
                                    stopped |-> FALSE, over |-> FALSE]
        BY <1>3
      <3> QED
        BY <3>1
    <2> QED
      BY <1>1, <1>2, <2>1
  <1>6. ASSUME NEW i \in 1..runners'.len PROVE inst'[At(i)'].slot = i - 1
    <2>1. i \in 1..(n + k)
      BY <1>1, <1>2
    <2>2. CASE i <= n
      BY <1>4, <2>1, <2>2
    <2>3. CASE i > n
      <3>1. PICK j \in 1..k : i = n + j
        <4>1. i - n \in 1..k /\ i = n + (i - n)
          BY <2>1, <2>3
        <4> QED
          BY <4>1
      <3> QED
        BY <1>5, <3>1 DEF At
    <2> QED
      BY <2>1, <2>2, <2>3
  <1>7. runners'.len = n + k /\ specs'[svc] = n + k /\ UNCHANGED svc
    <2>1. svc \in 1..Len(specs) /\ UNCHANGED svc
      BY DEF ScaleUp, Base, CountsInv
    <2> QED
      BY <1>1, <1>2, <2>1, SpecWritten DEF Base
  <1> QED
    BY <1>6, <1>7 DEF SlotsInv, InOrder

(* The beginning of a scale-down.                                             *)
LEMMA SlotsScaleDown ==
  ASSUME Base, InstGrows, SlotsInv, "reload" \notin seen, NEW c \in Clients, ScaleDown(c)
  PROVE  SlotsInv'
  <1>1. PICK t \in Sortings(Slice) : \A i \in 1..runners.len : At(i)' = t[i]
    BY CarriedScaleDown
  <1>2. \A i \in 1..runners.len : At(i)' = At(i)
    BY <1>1, SortingKeeps DEF SlotsInv
  <1>3. UNCHANGED runners /\ mu' # 0 /\ runners.len \in Nat
    BY SliceFields, DaemonAssumption DEF ScaleDown, Base
  <1>4. InOrder'
    BY <1>2, <1>3, OrderKept DEF SlotsInv
  <1> QED
    BY <1>3, <1>4 DEF SlotsInv

(* The end of a scale-down.                                                   *)
LEMMA SlotsScaleDone ==
  ASSUME Base, InstGrows, SlotsInv, "reload" \notin seen, NEW c \in Clients,
         ScaleDownDone(c)
  PROVE  SlotsInv'
  <1>1. PICK g : g = job[c].goal
    OBVIOUS
  <1>2. /\ g \in 1..runners.len /\ runners'.len = g
        /\ \A i \in 1..g : At(i)' = At(i)
    BY <1>1, CarriedScaleDone
  <1>3. g \in Nat /\ g <= runners.len
    BY <1>2, SliceFields DEF Base
  <1>4. InOrder'
    BY <1>2, <1>3, OrderKept DEF SlotsInv
  <1>5. job[c].p \in 1..Len(specs)
    BY DEF ScaleDownDone, Finishes, Base, CountsInv, JobShape
  <1>6. PICK p : p = job[c].p
    OBVIOUS
  <1>7. specs' = [specs EXCEPT ![p] = g] /\ svc' = p
    BY <1>1, <1>6 DEF ScaleDownDone
  <1>8. specs'[svc'] = g
    BY <1>5, <1>6, <1>7, SpecWritten DEF Base
  <1> QED
    BY <1>2, <1>4, <1>8 DEF SlotsInv

(* A handler going on.                                                        *)
LEMMA SlotsServe ==
  ASSUME Base, InstGrows, SlotsInv, "reload" \notin seen, NEW c \in Clients, Serve(c)
  PROVE  SlotsInv'
  <1>1. CASE TellStop(c)
    BY <1>1, SlotsSame DEF TellStop, storeVars
  <1>2. CASE StopReturns(c) \/ StopDone(c) \/ DeleteDone(c) \/ ShutdownDone(c)
    BY <1>2, SlotsSame DEF StopReturns, StopDone, DeleteDone, ShutdownDone, runnerVars,
                           storeVars
  <1>3. CASE RestartDone(c)
    <2>1. PICK p, n : p = job[c].p /\ n = specs[p]
      OBVIOUS
    <2>2. p \in 1..Len(specs)
      BY <1>3, <2>1 DEF RestartDone, Finishes, Base, CountsInv, JobShape
    <2>3. n \in Nat
      BY <2>1, <2>2, SpecCounts DEF Base
    <2>4. StartInstances(p, n) /\ specs'[p] = n
      BY <1>3, <2>1 DEF RestartDone
    <2> QED
      BY <2>3, <2>4, SlotsStart
  <1>4. CASE ScaleDownDone(c)
    BY <1>4, SlotsScaleDone
  <1> QED
    BY <1>1, <1>2, <1>3, <1>4 DEF Serve

(* A request.                                                                 *)
LEMMA SlotsRequest ==
  ASSUME Base, InstGrows, SlotsInv, "reload" \notin seen', "reload" \notin seen,
         NEW c \in Clients, Request(c)
  PROVE  SlotsInv'
  <1>1. CASE Delete(c)
    <2>1. runners'.len = 0
      BY <1>1 DEF Delete, NoRunners
    <2> QED
      BY <2>1 DEF SlotsInv, InOrder
  <1>2. CASE ScaleDown(c)
    BY <1>2, SlotsScaleDown
  <1>3. CASE RequestReload(c)
    BY <1>3 DEF RequestReload, Accept
  <1>4. CASE Stop(c) \/ Restart(c) \/ Shutdown(c)
    BY <1>4, SlotsSame DEF Stop, Restart, Shutdown, runnerVars, storeVars
  <1> QED
    BY <1>1, <1>2, <1>3, <1>4 DEF Request

(* Every step.                                                                *)
LEMMA StepSlots == Whole /\ SlotsInv /\ [Next]_vars => SlotsInv'
  <1> SUFFICES ASSUME Whole, SlotsInv, [Next]_vars, "reload" \notin seen' PROVE SlotsInv'
    BY DEF SlotsInv
  <1>0. Base /\ SeenInv /\ InstGrows /\ "reload" \notin seen
    BY StepMore, StepSeen DEF Whole, Carried
  <1>1. ~due /\ rolls = <<>>
    BY <1>0 DEF SeenInv, ReloadsAsked
  <1>2. CASE Start
    <2>1. CASE svc # 0 /\ StartInstances(svc, specs[svc]) /\ UNCHANGED specs
      <3>1. PICK n : n = specs[svc]
        OBVIOUS
      <3>2. n \in Nat
        BY <1>0, <2>1, <3>1, SpecCounts DEF Base
      <3> QED
        BY <1>0, <2>1, <3>1, <3>2, SlotsStart
    <2>2. ASSUME NEW n \in Counts, StartInstances(Len(specs) + 1, n),
                 specs' = Append(specs, n)
          PROVE  SlotsInv'
      <3>1. n \in Nat /\ specs'[Len(specs) + 1] = n
        BY <1>0, <2>2, SpecNew, DaemonAssumption DEF Base
      <3> QED
        BY <1>0, <2>2, <3>1, SlotsStart
    <2> QED
      BY <1>2, <2>1, <2>2 DEF Start
  <1>3. CASE Resurrect
    <2>1. saved \in Nat
      BY <1>0, DaemonAssumption DEF Base, CountsInv
    <2>2. StartInstances(Len(specs) + 1, saved) /\ specs' = Append(specs, saved)
      BY <1>3 DEF Resurrect
    <2>3. specs'[Len(specs) + 1] = saved
      BY <1>0, <2>2, SpecNew DEF Base
    <2> QED
      BY <1>0, <2>1, <2>2, <2>3, SlotsStart
  <1>4. CASE ScaleUp
    BY <1>0, <1>4, SlotsScaleUp
  <1>5. CASE Save \/ WatcherFires \/ WatcherRefused
    BY <1>0, <1>5, SlotsSame DEF Save, WatcherFires, WatcherRefused, runnerVars, storeVars
  <1>6. ASSUME NEW c \in Clients, Request(c) PROVE SlotsInv'
    BY <1>0, <1>6, SlotsRequest
  <1>7. ASSUME NEW c \in Clients, Serve(c) PROVE SlotsInv'
    BY <1>0, <1>7, SlotsServe
  <1>8. ASSUME NEW c \in Clients, WatcherReloads(c) PROVE SlotsInv'
    BY <1>1, <1>8 DEF WatcherReloads
  <1>9. ASSUME NEW k \in DOMAIN rolls, Roll(k) PROVE SlotsInv'
    BY <1>1, <1>9
  <1>10. ASSUME NEW r \in Runners, Report(r) PROVE SlotsInv'
    BY <1>0, <1>10, SlotsSame DEF Report
  <1>11. CASE UNCHANGED vars
    BY <1>0, <1>11, SlotsSame DEF vars, runnerVars, storeVars
  <1> QED
    BY <1>2, <1>3, <1>4, <1>5, <1>6, <1>7, <1>8, <1>9, <1>10, <1>11 DEF Next

(* Once nobody is at work the tracked runners are one for each slot.          *)
LEMMA ExactWhenQuiet == Whole /\ SlotsInv => SlotsExact
  <1> SUFFICES ASSUME Whole, SlotsInv, Quiet, runners.len > 0, svc # 0, "reload" \notin seen
               PROVE  /\ runners.len = specs[svc]
                      /\ {inst[r].slot : r \in Tracked} = 0..(specs[svc] - 1)
    BY DEF SlotsExact
  <1>1. mu = 0
    <2>1. \A c \in Clients : job[c].op # "scale"
      BY DEF Quiet, NoJob
    <2> QED
      BY <2>1, DaemonAssumption DEF Whole, Base, ScaleAlone
  <1>2. PICK n \in Nat : n = runners.len
    BY SliceFields DEF Whole, Base
  <1>3. specs[svc] = n /\ \A i \in 1..n : inst[At(i)].slot = i - 1
    BY <1>1, <1>2 DEF SlotsInv, InOrder
  <1>4. ASSUME NEW s \in 0..(n - 1) PROVE \E i \in 1..n : inst[At(i)].slot = s
    <2>1. s + 1 \in 1..n /\ s = (s + 1) - 1
      OBVIOUS
    <2> QED
      BY <1>3, <2>1
  <1>5. \A i \in 1..n : i - 1 \in 0..(n - 1)
    OBVIOUS
  <1>6. {inst[r].slot : r \in Tracked} = {inst[At(i)].slot : i \in 1..n}
    BY <1>2 DEF Tracked
  <1>7. {inst[At(i)].slot : i \in 1..n} = 0..(n - 1)
    BY <1>3, <1>4, <1>5
  <1> QED
    BY <1>2, <1>3, <1>6, <1>7

--------------------------------------------------------------------------------
(* What the reloads hold is theirs alone                                      *)

(* Nothing but starts, saves, reloads and scalings of a service with a port.   *)
Plain == seen \subseteq {"start", "reload", "scale", "save"} /\ mode # "portless"

Elems(s) == {s[i] : i \in DOMAIN s}

(* No runner is tracked twice.                                                *)
Apart == \A i, j \in 1..runners.len : At(i) = At(j) => i = j

(* A reload, T being the tracked runners, has each of its runners in one role. *)
Disjoint(roll, T) ==
  /\ \A i, j \in DOMAIN roll.todo : roll.todo[i] = roll.todo[j] => i = j
  /\ Elems(roll.todo) \cap Held(roll) = {}
  /\ T \cap Held(roll) = {}
  /\ roll.new \notin roll.drains \cup roll.stopping

HoldInv ==
  Plain => /\ svc # 0 => runners.len > 0
           /\ Apart
           /\ \A k \in DOMAIN rolls : Disjoint(rolls[k], Tracked)

(* A reload stays apart from what is tracked but its runners.                 *)
LEMMA DisjointStays ==
  ASSUME NEW x, NEW T, NEW U, Disjoint(x, T), \A r \in U : r \in T \/ r \notin Held(x)
  PROVE  Disjoint(x, U)
  BY DEF Disjoint

(* So is one that holds nothing.                                              *)
LEMMA DisjointIdle ==
  ASSUME NEW x, NEW T, x.todo = <<>>, x.new = 0, AllDrained(x)
  PROVE  Disjoint(x, T) /\ Held(x) = {}
  <1>1. Held(x) = {} /\ DOMAIN x.todo = {}
    BY DEF Held, AllDrained
  <1> QED
    BY <1>1 DEF Disjoint, AllDrained

(* While one reload is under way the others hold nothing.                     *)
LEMMA OthersIdle ==
  ASSUME Base, RInv, NEW k \in DOMAIN rolls, rolls[k].at # "done",
         NEW i \in DOMAIN rolls, i # k, NEW x, x = rolls[i]
  PROVE  x.at = "done" /\ x.todo = <<>> /\ x.new = 0 /\ AllDrained(x)
  <1>1. x.at = "done"
    BY DEF RInv, OneRolling, Active
  <1> QED
    BY <1>1, RollFields DEF Base, RollState

(* A step that moves no reload and tracks only what was tracked or is new.    *)
LEMMA HoldSlice ==
  ASSUME Base, HoldInv, Plain, UNCHANGED rolls, svc' # 0 => runners'.len > 0, Apart',
         \A r \in Tracked' : r \in Tracked \/ r \notin Runners
  PROVE  HoldInv'
  <1> SUFFICES ASSUME NEW k \in DOMAIN rolls PROVE Disjoint(rolls'[k], Tracked')
    BY DEF HoldInv
  <1>1. PICK x, T, U : x = rolls[k] /\ T = Tracked /\ U = Tracked'
    OBVIOUS
  <1>2. Disjoint(x, T)
    BY <1>1 DEF HoldInv
  <1>3. Held(x) \subseteq Runners
    BY <1>1, RollFields DEF Base, Held
  <1>4. Disjoint(x, U)
    BY <1>1, <1>2, <1>3, DisjointStays
  <1> QED
    BY <1>1, <1>4

(* A step that moves neither.                                                 *)
LEMMA HoldSame ==
  ASSUME Base, HoldInv, Plain, UNCHANGED <<arrays, runners, rolls>>, svc' # 0 => svc # 0
  PROVE  HoldInv'
  <1>1. Tracked' = Tracked /\ (Apart => Apart')
    BY DEF Tracked, Apart, At
  <1> QED
    BY <1>1, HoldSlice DEF HoldInv

(* A step of the one reload under way.                                        *)
LEMMA HoldRolled ==
  ASSUME Base, RInv, NEW k \in DOMAIN rolls, rolls[k].at # "done",
         NEW y, rolls' = [rolls EXCEPT ![k] = y], Disjoint(y, Tracked'),
         svc' # 0 => runners'.len > 0, Apart'
  PROVE  HoldInv'
  <1>1. /\ DOMAIN rolls' = DOMAIN rolls
        /\ \A i \in DOMAIN rolls : rolls'[i] = IF i = k THEN y ELSE rolls[i]
    BY RollShape
  <1> SUFFICES ASSUME NEW i \in DOMAIN rolls, i # k PROVE Disjoint(rolls'[i], Tracked')
    BY <1>1 DEF HoldInv
  <1>2. PICK x, U : x = rolls[i] /\ U = Tracked'
    OBVIOUS
  <1>3. x.todo = <<>> /\ x.new = 0 /\ AllDrained(x)
    BY <1>2, OthersIdle
  <1>4. Disjoint(x, U)
    BY <1>3, DisjointIdle
  <1> QED
    BY <1>1, <1>2, <1>4

(* The first of a sequence, and the others.                                   *)
LEMMA HeadApart ==
  ASSUME NEW S, NEW s \in Seq(S), s # <<>>, \A i, j \in DOMAIN s : s[i] = s[j] => i = j
  PROVE  /\ Head(s) \in Elems(s) /\ Elems(Tail(s)) \subseteq Elems(s)
         /\ Head(s) \notin Elems(Tail(s))
         /\ \A i, j \in DOMAIN Tail(s) : Tail(s)[i] = Tail(s)[j] => i = j
  <1>1. PICK h, t : h = Head(s) /\ t = Tail(s)
    OBVIOUS
  <1>2. /\ DOMAIN s = 1..Len(s) /\ Len(s) \in Nat /\ 1 \in DOMAIN s /\ h = s[1]
        /\ DOMAIN t = 1..(Len(s) - 1)
        /\ \A i \in DOMAIN t : t[i] = s[i + 1]
    BY <1>1, HeadTailProperties, LenProperties, EmptySeq
  <1>3. \A i \in DOMAIN t : i + 1 \in DOMAIN s /\ t[i] = s[i + 1] /\ i + 1 # 1
    BY <1>2
  <1>4. h \in Elems(s) /\ Elems(t) \subseteq Elems(s)
    BY <1>2, <1>3 DEF Elems
  <1>5. h \notin Elems(t)
    BY <1>2, <1>3 DEF Elems
  <1>6. \A i, j \in DOMAIN t : t[i] = t[j] => i = j
    <2> SUFFICES ASSUME NEW i \in DOMAIN t, NEW j \in DOMAIN t, t[i] = t[j] PROVE i = j
      OBVIOUS
    <2>1. i + 1 = j + 1
      BY <1>3
    <2> QED
      BY <1>2, <2>1
  <1> QED
    BY <1>1, <1>4, <1>5, <1>6

(* What a swap makes of the tracked runners.                                  *)
LEMMA SwapTracks ==
  ASSUME Base, Apart, NEW k \in DOMAIN rolls, RollSwap(k), NEW h, NEW nw,
         h = Head(rolls[k].todo), nw = rolls[k].new, nw \notin Tracked, nw # h
  PROVE  /\ Apart' /\ nw \in Tracked' /\ h \notin Tracked'
         /\ runners'.len >= runners.len
         /\ \A r : r \in Tracked' => r = nw \/ r \in Tracked
         /\ \A r : r \in Tracked => r = h \/ r \in Tracked'
  <1>1. PICK n \in Nat : n = runners.len
    BY SliceFields DEF Base
  <1>2. \A i \in 1..n : At(i) # nw
    BY <1>1 DEF Tracked
  <1>3. \/ \E p \in 1..n :
             /\ At(p) = h /\ runners'.len = n
             /\ \A i \in 1..n : At(i)' = IF i = p THEN nw ELSE At(i)
        \/ /\ h \notin Tracked /\ runners'.len = n + 1
           /\ \A i \in 1..n : At(i)' = At(i)
           /\ arrays'[runners'.arr][n + 1] = nw
    BY <1>1, CarriedSwap
  <1>4. ASSUME NEW p \in 1..n, At(p) = h, runners'.len = n,
               \A i \in 1..n : At(i)' = IF i = p THEN nw ELSE At(i)
        PROVE  /\ Apart' /\ nw \in Tracked' /\ h \notin Tracked'
               /\ \A r : r \in Tracked' => r = nw \/ r \in Tracked
               /\ \A r : r \in Tracked => r = h \/ r \in Tracked'
    <2>1. \A i, j \in 1..n : At(i)' = At(j)' => i = j
      BY <1>1, <1>2, <1>4 DEF Apart
    <2>2. \A i \in 1..n : i # p => At(i)' = At(i) /\ At(i) # h
      BY <1>1, <1>4 DEF Apart
    <2>3. Apart'
      BY <1>4, <2>1 DEF Apart
    <2>4. nw \in Tracked'
      BY <1>4 DEF Tracked
    <2>5. h \notin Tracked'
      BY <1>4, <2>2 DEF Tracked
    <2>6. \A r : r \in Tracked' => r = nw \/ r \in Tracked
      BY <1>1, <1>4, <2>2 DEF Tracked
    <2>7. \A r : r \in Tracked => r = h \/ r \in Tracked'
      BY <1>1, <1>4, <2>2 DEF Tracked
    <2> QED
      BY <2>3, <2>4, <2>5, <2>6, <2>7
  <1>5. ASSUME h \notin Tracked, runners'.len = n + 1, \A i \in 1..n : At(i)' = At(i),
               arrays'[runners'.arr][n + 1] = nw
        PROVE  /\ Apart' /\ nw \in Tracked' /\ h \notin Tracked'
               /\ \A r : r \in Tracked' => r = nw \/ r \in Tracked
               /\ \A r : r \in Tracked => r = h \/ r \in Tracked'
    <2>1. \A i \in 1..runners'.len : i \in 1..n \/ i = n + 1
      BY <1>5
    <2>2. n + 1 \in 1..runners'.len /\ At(n + 1)' = nw /\ \A i \in 1..n : i \in 1..runners'.len
      BY <1>5 DEF At
    <2>3. \A i, j \in 1..runners'.len : At(i)' = At(j)' => i = j
      <3> SUFFICES ASSUME NEW i \in 1..runners'.len, NEW j \in 1..runners'.len,
                          At(i)' = At(j)'
                   PROVE  i = j
        OBVIOUS
      <3>1. CASE i \in 1..n /\ j \in 1..n
        BY <1>1, <1>5, <3>1 DEF Apart
      <3>2. CASE i = n + 1 /\ j \in 1..n
        BY <1>2, <1>5, <2>2, <3>2
      <3>3. CASE i \in 1..n /\ j = n + 1
        BY <1>2, <1>5, <2>2, <3>3
      <3> QED
        BY <2>1, <3>1, <3>2, <3>3
    <2>4. Apart'
      BY <2>3 DEF Apart
    <2>5. nw \in Tracked'
      BY <2>2 DEF Tracked
    <2>6. \A i \in 1..runners'.len : At(i)' = nw \/ At(i)' \in Tracked
      BY <1>1, <1>5, <2>1, <2>2 DEF Tracked
    <2>7. \A r : r \in Tracked' => r = nw \/ r \in Tracked
      BY <2>6 DEF Tracked
    <2>8. \A i \in 1..n : At(i) \in Tracked'
      BY <1>5, <2>2 DEF Tracked
    <2>9. \A r : r \in Tracked => r \in Tracked'
      BY <1>1, <2>8 DEF Tracked
    <2> QED
      BY <1>5, <2>4, <2>5, <2>7, <2>9
  <1> QED
    BY <1>1, <1>3, <1>4, <1>5

(* A reload going on.                                                         *)
LEMMA HoldRoll ==
  ASSUME Base, RInv, HoldInv, Plain, NEW k \in DOMAIN rolls, Roll(k)
  PROVE  HoldInv'
  <1>1. PICK x, T : x = rolls[k] /\ T = Tracked
    OBVIOUS
  <1>2. /\ Held(x) \subseteq Runners /\ RollState(x) /\ x.todo \in Seq(Runners)
        /\ Elems(x.todo) \subseteq Runners /\ T \subseteq Runners /\ 0 \notin Runners
    <2>1. Held(x) \subseteq Runners /\ RollState(x) /\ x.todo \in Seq(Runners)
      BY <1>1, RollFields DEF Base, Held
    <2>2. Elems(x.todo) \subseteq Runners
      BY <2>1, LenProperties, ElementOfSeq DEF Elems
    <2> QED
      BY <1>1, <2>1, <2>2, TrackedRunners, RunnerFields DEF Base, Runners
  <1>3. Disjoint(x, T) /\ Apart /\ (svc # 0 => runners.len > 0)
    BY <1>1 DEF HoldInv
  <1>4. ASSUME NEW y, rolls' = [rolls EXCEPT ![k] = y], x.at # "done",
               UNCHANGED <<arrays, runners, svc>>, Disjoint(y, T)
        PROVE  HoldInv'
    <2>1. PICK U : U = Tracked'
      OBVIOUS
    <2>2. U = T /\ Apart'
      BY <1>1, <1>3, <1>4, <2>1 DEF Tracked, Apart, At
    <2> QED
      BY <1>1, <1>3, <1>4, <2>1, <2>2, HoldRolled
  <1>5. x.at = "done" => x.drains = {} /\ x.stopping = {}
    BY <1>2 DEF RollState, AllDrained
  <1>6. CASE RollLaunch(k)
    <2>1. PICK y, w : /\ rolls' = [rolls EXCEPT ![k] = y] /\ w = Len(inst) + 1
                      /\ y = RollRec("probe", x.todo, w, x.drains, x.stopping)
      BY <1>1, <1>6, LaunchedRoll
    <2>2. w \notin Runners
      BY <2>1, RunnerFields DEF Base, Runners
    <2>3. x.at = "next" /\ UNCHANGED <<arrays, runners, svc>>
      BY <1>1, <1>6 DEF RollLaunch
    <2>4. y.todo = x.todo /\ y.new = w /\ y.drains = x.drains /\ y.stopping = x.stopping
      BY <2>1 DEF RollRec
    <2>5. x.new = 0
      BY <1>2, <2>3 DEF RollState
    <2>6. Held(y) \subseteq Held(x) \cup {w} /\ x.drains \cup x.stopping \subseteq Held(x)
      BY <2>4 DEF Held
    <2>7. Disjoint(y, T)
      BY <1>2, <1>3, <2>2, <2>4, <2>6 DEF Disjoint
    <2> QED
      BY <1>4, <2>1, <2>3, <2>7
  <1>7. CASE RollSwap(k)
    <2>1. PICK y, h, t, nw :
            /\ rolls' = [rolls EXCEPT ![k] = y] /\ h = Head(x.todo) /\ t = Tail(x.todo)
            /\ nw = x.new /\ y = RollRec("next", t, 0, x.drains \cup {h}, x.stopping)
      BY <1>1, <1>7, SwappedRoll
    <2>2. x.at = "probe" /\ nw # 0 /\ x.todo # <<>> /\ nw \in Held(x)
      BY <1>1, <1>2, <1>7, <2>1 DEF RollSwap, RollState, Held
    <2>3. /\ h \in Elems(x.todo) /\ Elems(t) \subseteq Elems(x.todo) /\ h \notin Elems(t)
          /\ \A i, j \in DOMAIN t : t[i] = t[j] => i = j
      BY <1>2, <1>3, <2>1, <2>2, HeadApart DEF Disjoint
    <2>4. nw \notin T /\ nw # h
      BY <1>3, <2>2, <2>3 DEF Disjoint
    <2>5. PICK U : U = Tracked'
      OBVIOUS
    <2>6. /\ Apart' /\ h \notin U /\ runners'.len >= runners.len
          /\ \A r : r \in U => r = nw \/ r \in T
      BY <1>1, <1>3, <1>7, <2>1, <2>4, <2>5, SwapTracks
    <2>7. y.todo = t /\ y.new = 0 /\ y.drains = x.drains \cup {h} /\ y.stopping = x.stopping
      BY <2>1 DEF RollRec
    <2>8. Held(y) = x.drains \cup {h} \cup x.stopping
      BY <2>7 DEF Held
    <2>9. nw \notin Held(y)
      BY <1>3, <2>1, <2>4, <2>8 DEF Disjoint
    <2>10. x.drains \cup x.stopping \subseteq Held(x)
      BY DEF Held
    <2>11. Elems(t) \cap Held(y) = {} /\ U \cap Held(y) = {}
      BY <1>3, <2>3, <2>6, <2>8, <2>9, <2>10 DEF Disjoint
    <2>12. 0 \notin y.drains \cup y.stopping
      BY <1>2, <2>3, <2>7, <2>10
    <2>13. Disjoint(y, U)
      BY <2>3, <2>7, <2>11, <2>12 DEF Disjoint
    <2>14. svc' # 0 => runners'.len > 0
      <3>1. runners.len \in Nat /\ runners'.len \in Nat /\ UNCHANGED svc
        <4>1. Carried
          BY <1>7, CarriedSwap
        <4> QED
          BY <1>7, <4>1, SliceFields DEF Base, Carried, RollSwap, storeVars, TrackedHeader,
                                         Header
      <3> QED
        BY <1>3, <2>6, <3>1
    <2> QED
      BY <1>1, <2>1, <2>2, <2>5, <2>6, <2>13, <2>14, HoldRolled
  <1>8. CASE RollAbort(k)
    <2>1. PICK y : /\ rolls' = [rolls EXCEPT ![k] = y]
                   /\ y = RollRec("abort", x.todo, x.new, x.drains, x.stopping)
      BY <1>1, <1>8, RollBecomes
    <2>2. Disjoint(y, T)
      BY <1>3, <2>1 DEF RollRec, Held, Disjoint
    <2>3. x.at # "done" /\ UNCHANGED <<arrays, runners, svc>>
      BY <1>1, <1>8 DEF RollAbort, storeVars
    <2> QED
      BY <1>4, <2>1, <2>2, <2>3
  <1>9. CASE RollAbortDone(k)
    <2>1. PICK y, t : /\ rolls' = [rolls EXCEPT ![k] = y] /\ t = <<>>
                      /\ y = RollRec("next", t, 0, x.drains, x.stopping)
      BY <1>1, <1>9, RollBecomes
    <2>2. y.todo = t /\ y.new = 0 /\ y.drains = x.drains /\ y.stopping = x.stopping
          /\ DOMAIN t = {} /\ Held(y) \subseteq Held(x)
      BY <2>1 DEF RollRec, Held
    <2>3. 0 \notin y.drains \cup y.stopping
      BY <1>2, <2>2 DEF Held
    <2>4. Disjoint(y, T)
      BY <1>3, <2>2, <2>3 DEF Disjoint, Elems
    <2>5. x.at # "done" /\ UNCHANGED <<arrays, runners, svc>>
      BY <1>1, <1>9 DEF RollAbortDone, runnerVars
    <2> QED
      BY <1>4, <2>1, <2>4, <2>5
  <1>10. CASE RollDone(k)
    <2>1. PICK y : /\ rolls' = [rolls EXCEPT ![k] = y]
                   /\ y = RollRec("done", x.todo, x.new, x.drains, x.stopping)
      BY <1>1, <1>10, RollBecomes
    <2>2. Disjoint(y, T)
      BY <1>3, <2>1 DEF RollRec, Held, Disjoint
    <2>3. x.at # "done" /\ UNCHANGED <<arrays, runners, svc>>
      BY <1>1, <1>10 DEF RollDone, storeVars, runnerVars
    <2> QED
      BY <1>4, <2>1, <2>2, <2>3
  <1>11. ASSUME NEW old \in Runners, DrainTell(k, old) PROVE HoldInv'
    <2>1. PICK d, s, y :
            /\ d = x.drains \ {old} /\ s = x.stopping \cup {old}
            /\ rolls' = [rolls EXCEPT ![k] = y] /\ y = RollRec(x.at, x.todo, x.new, d, s)
      BY <1>1, <1>11, DrainingRoll
    <2>2. old \in x.drains /\ UNCHANGED <<arrays, runners, svc>>
      BY <1>1, <1>11 DEF DrainTell, storeVars
    <2>3. y.todo = x.todo /\ y.new = x.new /\ y.drains = d /\ y.stopping = s
      BY <2>1 DEF RollRec
    <2>4. Held(y) \subseteq Held(x) /\ d \cup s \subseteq x.drains \cup x.stopping
      BY <2>1, <2>2, <2>3 DEF Held
    <2>5. Disjoint(y, T)
      BY <1>3, <2>3, <2>4 DEF Disjoint
    <2> QED
      BY <1>4, <1>5, <2>1, <2>2, <2>5
  <1>12. ASSUME NEW old \in Runners, DrainDone(k, old) PROVE HoldInv'
    <2>1. PICK s, y : /\ s = x.stopping \ {old} /\ rolls' = [rolls EXCEPT ![k] = y]
                      /\ y = RollRec(x.at, x.todo, x.new, x.drains, s)
      BY <1>1, <1>12, DrainedRoll
    <2>2. old \in x.stopping /\ UNCHANGED <<arrays, runners, svc>>
      BY <1>1, <1>12 DEF DrainDone, runnerVars
    <2>3. y.todo = x.todo /\ y.new = x.new /\ y.drains = x.drains /\ y.stopping = s
      BY <2>1 DEF RollRec
    <2>4. Held(y) \subseteq Held(x) /\ x.drains \cup s \subseteq x.drains \cup x.stopping
      BY <2>1, <2>2, <2>3 DEF Held
    <2>5. Disjoint(y, T)
      BY <1>3, <2>3, <2>4 DEF Disjoint
    <2> QED
      BY <1>4, <1>5, <2>1, <2>2, <2>5
  <1> QED
    BY <1>6, <1>7, <1>8, <1>9, <1>10, <1>11, <1>12 DEF Roll

(* A fresh start of what has nothing yet.                                     *)
LEMMA HoldStart ==
  ASSUME Base, rolls' = <<>>, NEW p, NEW n \in Nat \ {0}, StartInstances(p, n)
  PROVE  HoldInv'
  <1>1. runners'.len = n /\ Len(inst) \in Nat /\ \A i \in 1..n : At(i)' = Len(inst) + i
    BY SliceStarted, RunnerFields DEF Base
  <1>2. Apart'
    BY <1>1 DEF Apart
  <1>3. DOMAIN rolls' = {}
    OBVIOUS
  <1> QED
    BY <1>1, <1>2, <1>3 DEF HoldInv

(* A scale-up.                                                                *)
LEMMA HoldScaleUp ==
  ASSUME Base, HoldInv, Plain, ScaleUp
  PROVE  HoldInv'
  <1>1. PICK k \in Nat \ {0} :
          /\ Len(inst') = Len(inst) + k /\ runners'.len = runners.len + k
          /\ \A i \in 1..runners.len : At(i)' = At(i)
          /\ \A j \in 1..k : arrays'[runners'.arr][runners.len + j] = Len(inst) + j
    BY CarriedScaleUp
  <1>2. PICK n \in Nat, m \in Nat : n = runners.len /\ m = Len(inst) /\ Runners = 1..m
    BY SliceFields, RunnerFields DEF Base, Runners
  <1>3. \A i \in 1..n : At(i)' = At(i) /\ At(i) \in Runners
    BY <1>1, <1>2, HeaderNames DEF Base, TrackedHeader, At
  <1>4. \A i \in 1..(n + k) : i \in 1..n \/ (i - n \in 1..k /\ i = n + (i - n))
    OBVIOUS
  <1>5. \A j \in 1..k : At(n + j)' = m + j
    BY <1>1, <1>2 DEF At
  <1>6. \A i \in 1..(n + k) : i \in 1..n \/ At(i)' = m + (i - n)
    <2> SUFFICES ASSUME NEW i \in 1..(n + k), i \notin 1..n PROVE At(i)' = m + (i - n)
      OBVIOUS
    <2>1. PICK j \in 1..k : i = n + j /\ j = i - n
      BY <1>4
    <2> QED
      BY <1>5, <2>1
  <1>7. \A i \in 1..(n + k) : i \in 1..n \/ (At(i)' = m + (i - n) /\ At(i)' \notin Runners)
    <2> SUFFICES ASSUME NEW i \in 1..(n + k), i \notin 1..n PROVE m + (i - n) \notin Runners
      BY <1>6
    <2>1. i - n > 0
      OBVIOUS
    <2> QED
      BY <1>2, <2>1
  <1>8. Apart'
    <2> SUFFICES ASSUME NEW i \in 1..(n + k), NEW j \in 1..(n + k), At(i)' = At(j)'
                 PROVE  i = j
      BY <1>1, <1>2 DEF Apart
    <2>1. CASE i \in 1..n /\ j \in 1..n
      BY <1>2, <1>3, <2>1 DEF HoldInv, Apart
    <2>2. CASE i \notin 1..n /\ j \notin 1..n
      BY <1>6, <2>2
    <2>3. CASE (i \in 1..n /\ j \notin 1..n) \/ (i \notin 1..n /\ j \in 1..n)
      BY <1>3, <1>7, <2>3
    <2> QED
      BY <2>1, <2>2, <2>3
  <1>9. \A r \in Tracked' : r \in Tracked \/ r \notin Runners
    <2>1. \A i \in 1..(n + k) : At(i)' \in Tracked \/ At(i)' \notin Runners
      BY <1>2, <1>3, <1>7 DEF Tracked
    <2> QED
      BY <1>1, <1>2, <2>1 DEF Tracked
  <1>10. UNCHANGED rolls /\ runners'.len > 0
    BY <1>1, <1>2 DEF ScaleUp, reloadVars
  <1> QED
    BY <1>8, <1>9, <1>10, HoldSlice

(* A sorting of a slice that tracks no runner twice names none twice.         *)
LEMMA SortingApart ==
  ASSUME Base, Apart, NEW t \in Sortings(Slice)
  PROVE  /\ \A i, j \in 1..runners.len : t[i] = t[j] => i = j
         /\ \A i \in 1..runners.len : t[i] \in Tracked
         /\ \A r \in Tracked : \E i \in 1..runners.len : t[i] = r
         /\ DOMAIN t = 1..runners.len
  <1>1. PICK n \in Nat : n = runners.len
    BY SliceFields DEF Base
  <1>2. PICK f \in [1..n -> 1..n] : /\ \A i, j \in 1..n : f[i] = f[j] => i = j
                                    /\ \A j \in 1..n : \E i \in 1..n : f[i] = j
                                    /\ \A i \in 1..n : t[i] = At(f[i])
    BY <1>1, SortingArranges DEF Base
  <1>3. \A i \in 1..n : f[i] \in 1..n
    OBVIOUS
  <1>4. \A i, j \in 1..n : t[i] = t[j] => i = j
    BY <1>1, <1>2, <1>3 DEF Apart
  <1>5. \A i \in 1..n : t[i] \in Tracked
    BY <1>1, <1>2, <1>3 DEF Tracked
  <1>6. \A j \in 1..n : \E i \in 1..n : t[i] = At(j)
    BY <1>2
  <1>7. \A r \in Tracked : \E i \in 1..n : t[i] = r
    BY <1>1, <1>6 DEF Tracked
  <1>8. DOMAIN t = 1..n
    BY <1>1, SortingArranges, LenProperties DEF Base
  <1> QED
    BY <1>1, <1>4, <1>5, <1>7, <1>8

(* The beginning of a scale-down.                                             *)
LEMMA HoldScaleDown ==
  ASSUME Base, HoldInv, Plain, NEW c \in Clients, ScaleDown(c)
  PROVE  HoldInv' /\ Tracked' = Tracked
  <1>1. PICK t \in Sortings(Slice) : \A i \in 1..runners.len : At(i)' = t[i]
    BY CarriedScaleDown
  <1>2. UNCHANGED <<runners, rolls, svc>>
    BY DEF ScaleDown, storeVars, reloadVars
  <1>3. Apart /\ (svc # 0 => runners.len > 0)
    BY DEF HoldInv
  <1>4. Apart'
    BY <1>1, <1>2, <1>3, SortingApart DEF Apart
  <1>5. Tracked' = {t[i] : i \in 1..runners.len}
    BY <1>1, <1>2 DEF Tracked
  <1>6. Tracked' = Tracked
    BY <1>3, <1>5, SortingApart
  <1> QED
    BY <1>2, <1>3, <1>4, <1>6, HoldSlice

(* The end of a scale-down.                                                   *)
LEMMA HoldScaleDone ==
  ASSUME Base, HoldInv, Plain, NEW c \in Clients, ScaleDownDone(c)
  PROVE  HoldInv'
  <1>1. PICK g, n : g = job[c].goal /\ n = runners.len /\ n \in Nat
    BY SliceFields DEF Base
  <1>2. /\ g \in 1..n /\ runners'.len = g /\ \A i \in 1..g : At(i)' = At(i) /\ i \in 1..n
    BY <1>1, CarriedScaleDone
  <1>3. Apart'
    BY <1>1, <1>2 DEF HoldInv, Apart
  <1>4. \A r \in Tracked' : r \in Tracked
    BY <1>1, <1>2 DEF Tracked
  <1>5. UNCHANGED rolls /\ runners'.len > 0
    BY <1>2 DEF ScaleDownDone, reloadVars
  <1> QED
    BY <1>3, <1>4, <1>5, HoldSlice

(* A reload, whoever asks for it.                                             *)
LEMMA HoldReload ==
  ASSUME Base, MoreOfAll, RInv, HoldInv, Plain, NEW c \in Clients, Reload(c)
  PROVE  HoldInv'
  <1>1. svc # 0 /\ runners.len > 0 /\ mode # "portless" /\ Apart
    BY DEF Reload, HoldInv, Plain
  <1>2. PICK n \in Nat : n = runners.len /\ n # 0
    BY <1>1, SliceFields DEF Base
  <1>3. CASE ReloadRolls
    <2>1. PICK t, y :
            /\ t \in Sortings(Slice)
            /\ rolls' = Append(rolls, y) /\ y.todo = t /\ y.new = 0
            /\ y.drains = {} /\ y.stopping = {}
      BY <1>3, RollBegins
    <2>2. Held(y) = {} /\ \A i, j \in DOMAIN t : t[i] = t[j] => i = j
      <3>1. /\ \A i, j \in 1..runners.len : t[i] = t[j] => i = j
            /\ DOMAIN t = 1..runners.len
        BY <1>1, <2>1, SortingApart
      <3> QED
        BY <2>1, <3>1 DEF Held
    <2>3. PICK U : U = Tracked'
      OBVIOUS
    <2>4. Disjoint(y, U)
      BY <2>1, <2>2 DEF Disjoint
    <2>5. /\ DOMAIN rolls' = DOMAIN rolls \cup {Len(rolls) + 1}
          /\ rolls'[Len(rolls) + 1] = y
          /\ \A i \in DOMAIN rolls : rolls'[i] = rolls[i]
      BY <2>1, RollNew
    <2>6. ASSUME NEW i \in DOMAIN rolls PROVE Disjoint(rolls'[i], U)
      <3>1. PICK x : x = rolls[i]
        OBVIOUS
      <3>2. x.at = "done"
        BY <1>3, <3>1 DEF ReloadRolls, MayReload, RInv, OneRolling, Active
      <3>3. x.todo = <<>> /\ x.new = 0 /\ AllDrained(x)
        BY <3>1, <3>2, RollFields DEF Base, RollState
      <3>4. Disjoint(x, U)
        BY <3>3, DisjointIdle
      <3> QED
        BY <2>5, <3>1, <3>4
    <2>7. UNCHANGED <<runners, arrays, svc>>
      BY <1>3 DEF ReloadRolls, storeVars, runnerVars
    <2>8. Apart'
      BY <1>1, <2>7 DEF Apart, At
    <2> QED
      BY <1>1, <2>3, <2>4, <2>5, <2>6, <2>7, <2>8 DEF HoldInv
  <1>4. CASE ReloadPortless(c) \/ ReloadStarts
    BY <1>1, <1>2, <1>4 DEF ReloadPortless, ReloadStarts
  <1> QED
    BY <1>3, <1>4 DEF Reload

(* Before a delete there is no start but from nothing.                        *)
LEMMA PlainJobs ==
  ASSUME SeenInv, Plain, NEW c \in Clients
  PROVE  job[c].op \notin {"stop", "restart", "delete", "shutdown"}
  BY DEF SeenInv, JobsAsked, Asked, Plain

(* Every step.                                                                *)
LEMMA StepHold == Whole /\ RInv /\ HoldInv /\ [Next]_vars => HoldInv'
  <1> SUFFICES ASSUME Whole, RInv, HoldInv, [Next]_vars, Plain' PROVE HoldInv'
    BY DEF HoldInv
  <1>0. Base /\ SeenInv /\ MoreOfAll /\ Plain
    BY StepMore, StepSeen DEF Whole, Plain
  <1>1. (svc # 0 => runners.len > 0) /\ (svc = 0 => rolls = <<>>)
    BY <1>0 DEF HoldInv, SeenInv, NothingYet, Plain
  <1>2. CASE Start
    <2>1. svc = 0
      BY <1>1, <1>2 DEF Start, AnyRunning
    <2>2. PICK n \in Counts : StartInstances(Len(specs) + 1, n)
      BY <1>2, <2>1 DEF Start
    <2>3. n \in Nat \ {0} /\ rolls' = <<>>
      BY <1>1, <1>2, <2>1, DaemonAssumption DEF Start, reloadVars
    <2> QED
      BY <1>0, <2>2, <2>3, HoldStart
  <1>3. CASE Resurrect
    BY <1>3 DEF Resurrect, Accept, Plain
  <1>4. CASE ScaleUp
    BY <1>0, <1>4, HoldScaleUp
  <1>5. CASE Save \/ WatcherFires \/ WatcherRefused
    BY <1>0, <1>5, HoldSame DEF Save, WatcherFires, WatcherRefused, runnerVars,
                                storeVars, reloadVars
  <1>6. ASSUME NEW c \in Clients, Request(c) PROVE HoldInv'
    <2>1. CASE Stop(c) \/ Restart(c) \/ Delete(c) \/ Shutdown(c)
      BY <2>1 DEF Stop, Restart, Delete, Shutdown, Accept, Plain
    <2>2. CASE ScaleDown(c)
      BY <1>0, <2>2, HoldScaleDown
    <2>3. CASE RequestReload(c)
      BY <1>0, <2>3, HoldReload DEF RequestReload
    <2> QED
      BY <1>6, <2>1, <2>2, <2>3 DEF Request
  <1>7. ASSUME NEW c \in Clients, Serve(c) PROVE HoldInv'
    <2>1. CASE TellStop(c) \/ StopReturns(c)
      BY <1>0, <2>1, HoldSame DEF TellStop, StopReturns, runnerVars, storeVars, reloadVars
    <2>2. CASE StopDone(c) \/ RestartDone(c) \/ DeleteDone(c) \/ ShutdownDone(c)
      BY <1>0, <2>2, PlainJobs DEF StopDone, RestartDone, DeleteDone, ShutdownDone, Finishes
    <2>3. CASE ScaleDownDone(c)
      BY <1>0, <2>3, HoldScaleDone
    <2> QED
      BY <1>7, <2>1, <2>2, <2>3 DEF Serve
  <1>8. ASSUME NEW c \in Clients, WatcherReloads(c) PROVE HoldInv'
    BY <1>0, <1>8, HoldReload DEF WatcherReloads
  <1>9. ASSUME NEW k \in DOMAIN rolls, Roll(k) PROVE HoldInv'
    BY <1>0, <1>9, HoldRoll
  <1>10. ASSUME NEW r \in Runners, Report(r) PROVE HoldInv'
    BY <1>0, <1>10, HoldSame DEF Report, reloadVars
  <1>11. CASE UNCHANGED vars
    BY <1>0, <1>11, HoldSame DEF vars, runnerVars, storeVars, reloadVars
  <1> QED
    BY <1>2, <1>3, <1>4, <1>5, <1>6, <1>7, <1>8, <1>9, <1>10, <1>11 DEF Next

--------------------------------------------------------------------------------
(* Reloads alone keep every slot served                                       *)

Serving == seen \subseteq {"start", "reload", "save"} /\ mode # "portless"

(* There is a running instance for each slot, in order.                       *)
InService ==
  /\ svc # 0 => runners.len = specs[svc]
  /\ InOrder
  /\ \A r \in Tracked : ~inst[r].stopped

(* A reload goes through tracked runners, and its replacement is up and has    *)
(* the slot of the one that it is for.                                        *)
Follows(roll) ==
  /\ Elems(roll.todo) \subseteq Tracked
  /\ roll.at = "probe" =>
       ~inst[roll.new].stopped /\ inst[roll.new].slot = inst[Head(roll.todo)].slot

ServedInv == Serving => InService /\ \A k \in DOMAIN rolls : Follows(rolls[k])

(* A step that leaves the slice alone and stops no tracked runner.            *)
LEMMA ServiceSame ==
  ASSUME Base, InstGrows, InService, UNCHANGED <<arrays, runners, svc, specs>>,
         \A r \in Tracked : inst'[r].stopped = inst[r].stopped
  PROVE  InService' /\ Tracked' = Tracked
  <1>1. runners.len \in Nat /\ \A i \in 1..runners.len : At(i)' = At(i)
    BY SliceFields DEF Base, At
  <1>2. InOrder'
    BY <1>1, OrderKept DEF InService
  <1>3. Tracked' = Tracked
    BY DEF Tracked, At
  <1> QED
    BY <1>2, <1>3 DEF InService

(* A reload that does nothing goes on following.                              *)
LEMMA FollowsStays ==
  ASSUME Base, InstGrows, NEW k \in DOMAIN rolls, NEW x, x = rolls[k], Follows(x),
         Tracked \subseteq Tracked',
         x.at = "probe" => inst'[x.new].stopped = inst[x.new].stopped
  PROVE  Follows(x)'
  <1>1. x.at = "probe" => x.new \in Runners /\ Head(x.todo) \in Runners
    BY RollFields DEF Base, RollState
  <1>2. Elems(x.todo) \subseteq Tracked'
    BY DEF Follows
  <1>3. x.at = "probe" => /\ ~inst'[x.new].stopped
                          /\ inst'[x.new].slot = inst'[Head(x.todo)].slot
    BY <1>1 DEF Follows, InstGrows
  <1> QED
    BY <1>2, <1>3 DEF Follows

(* A step that neither moves a reload nor stops a runner.                     *)
LEMMA ServedSame ==
  ASSUME Base, InstGrows, ServedInv, Serving, UNCHANGED <<arrays, runners, svc, specs, rolls>>,
         \A r \in Runners : inst'[r].stopped = inst[r].stopped
  PROVE  ServedInv'
  <1>1. InService' /\ Tracked' = Tracked
    BY TrackedRunners, ServiceSame DEF ServedInv
  <1>2. ASSUME NEW k \in DOMAIN rolls PROVE Follows(rolls[k])'
    <2>1. PICK x : x = rolls[k]
      OBVIOUS
    <2>2. x.at = "probe" => x.new \in Runners
      BY <2>1, RollFields DEF Base
    <2>3. Follows(x)
      BY <2>1 DEF ServedInv
    <2>4. Follows(x)'
      BY <1>1, <2>1, <2>2, <2>3, FollowsStays
    <2> QED
      BY <2>1, <2>4 DEF Follows
  <1> QED
    BY <1>1, <1>2 DEF ServedInv

(* A step of the one reload under way.                                        *)
LEMMA ServedRolled ==
  ASSUME Base, RInv, NEW k \in DOMAIN rolls, rolls[k].at # "done",
         NEW y, rolls' = [rolls EXCEPT ![k] = y], Follows(y)', InService'
  PROVE  ServedInv'
  <1>1. /\ DOMAIN rolls' = DOMAIN rolls
        /\ \A i \in DOMAIN rolls : rolls'[i] = IF i = k THEN y ELSE rolls[i]
    BY RollShape
  <1>2. ASSUME NEW i \in DOMAIN rolls PROVE Follows(rolls[i])'
    <2>1. PICK x : x = rolls'[i]
      OBVIOUS
    <2>2. CASE i = k
      BY <1>1, <2>1, <2>2 DEF Follows
    <2>3. CASE i # k
      <3>1. x = rolls[i]
        BY <1>1, <2>1, <2>3
      <3>2. x.at = "done" /\ x.todo = <<>>
        BY <2>3, <3>1, OthersIdle
      <3>3. Elems(x.todo) = {}
        BY <3>2 DEF Elems
      <3>4. Follows(x)'
        BY <3>2, <3>3 DEF Follows
      <3> QED
        BY <2>1, <3>4 DEF Follows
    <2> QED
      BY <2>2, <2>3
  <1> QED
    BY <1>1, <1>2 DEF ServedInv

(* A reload going on.                                                         *)
LEMMA ServedRoll ==
  ASSUME Base, InstGrows, RInv, HoldInv, ServedInv, Serving, NEW k \in DOMAIN rolls, Roll(k)
  PROVE  ServedInv'
  <1>1. PICK x : x = rolls[k]
    OBVIOUS
  <1>2. /\ RollState(x) /\ x.todo \in Seq(Runners) /\ Tracked \subseteq Runners
        /\ x.drains \subseteq Runners /\ x.stopping \subseteq Runners
        /\ (x.at \in {"probe", "abort"} => x.new \in Runners)
    BY <1>1, RollFields, TrackedRunners DEF Base
  <1>3. InService /\ Follows(x) /\ Disjoint(x, Tracked) /\ Apart
    BY <1>1 DEF ServedInv, HoldInv, Serving, Plain
  <1>4. ASSUME NEW y, rolls' = [rolls EXCEPT ![k] = y], x.at # "done",
               UNCHANGED <<arrays, runners, svc, specs>>,
               \A r \in Tracked : inst'[r].stopped = inst[r].stopped,
               y.todo = x.todo \/ Elems(y.todo) = {}, y.at # "probe"
        PROVE  ServedInv'
    <2>1. InService' /\ Tracked' = Tracked
      BY <1>3, <1>4, ServiceSame
    <2>2. Elems(y.todo) \subseteq Tracked'
      BY <1>3, <1>4, <2>1 DEF Follows
    <2>3. Follows(y)'
      BY <1>4, <2>2 DEF Follows
    <2> QED
      BY <1>1, <1>4, <2>1, <2>3, ServedRolled
  <1>5. ASSUME NEW y, rolls' = [rolls EXCEPT ![k] = y], x.at # "done",
               UNCHANGED <<arrays, runners, svc, specs>>,
               \A r \in Tracked : inst'[r].stopped = inst[r].stopped,
               y.at = x.at, y.todo = x.todo, y.new = x.new,
               x.at = "probe" => inst'[x.new].stopped = inst[x.new].stopped
        PROVE  ServedInv'
    <2>1. InService' /\ Tracked' = Tracked
      BY <1>3, <1>5, ServiceSame
    <2>2. Follows(x)'
      BY <1>1, <1>3, <1>5, <2>1, FollowsStays
    <2>3. Follows(y)'
      BY <1>5, <2>2 DEF Follows
    <2> QED
      BY <1>1, <1>5, <2>1, <2>3, ServedRolled
  <1>6. CASE RollLaunch(k)
    <2>1. PICK y, w : /\ rolls' = [rolls EXCEPT ![k] = y] /\ w = Len(inst) + 1
                      /\ y = RollRec("probe", x.todo, w, x.drains, x.stopping)
      BY <1>1, <1>6, LaunchedRoll
    <2>2. PICK h, slot \in Nat : h = Head(x.todo) /\ h \in Runners /\ slot = inst[h].slot
      BY <1>1, <1>6, RollFields, RunnerFields DEF Base, RollLaunch
    <2>3. NewRunners(1, slot) /\ UNCHANGED <<arrays, runners, svc, specs>> /\ x.at = "next"
      BY <1>1, <1>6, <2>2 DEF RollLaunch
    <2>4. /\ \A r \in Runners : inst'[r] = inst[r]
          /\ \A j \in 1..1 : inst'[Len(inst) + j] =
                               [idx |-> nextIdx + j - 1, slot |-> slot + j - 1,
                                stopped |-> FALSE, over |-> FALSE]
      BY <2>3, RunnersAdded DEF Base
    <2>5. inst'[w] = [idx |-> nextIdx + 1 - 1, slot |-> slot + 1 - 1,
                      stopped |-> FALSE, over |-> FALSE]
      BY <2>1, <2>4
    <2>6. inst'[w].slot = slot /\ ~inst'[w].stopped /\ inst'[h].slot = slot
      BY <2>2, <2>4, <2>5
    <2>7. InService' /\ Tracked' = Tracked
      BY <1>2, <1>3, <2>3, <2>4, ServiceSame
    <2>8. y.at = "probe" /\ y.todo = x.todo /\ y.new = w
      BY <2>1 DEF RollRec
    <2>9. Elems(y.todo) \subseteq Tracked'
      BY <1>3, <2>7, <2>8 DEF Follows
    <2>10. Follows(y)'
      BY <2>2, <2>6, <2>8, <2>9 DEF Follows
    <2> QED
      BY <1>1, <2>1, <2>3, <2>7, <2>10, ServedRolled
  <1>7. CASE RollSwap(k)
    <2>1. PICK y, h, t, nw :
            /\ rolls' = [rolls EXCEPT ![k] = y] /\ h = Head(x.todo) /\ t = Tail(x.todo)
            /\ nw = x.new /\ y = RollRec("next", t, 0, x.drains \cup {h}, x.stopping)
      BY <1>1, <1>7, SwappedRoll
    <2>2. x.at = "probe" /\ x.todo # <<>> /\ nw \in Held(x) /\ UNCHANGED <<inst, svc, specs>>
      BY <1>1, <1>2, <1>7, <2>1 DEF RollSwap, RollState, Held, storeVars
    <2>3. h \in Elems(x.todo) /\ Elems(t) \subseteq Elems(x.todo) /\ h \notin Elems(t)
      BY <1>2, <1>3, <2>1, <2>2, HeadApart DEF Disjoint
    <2>4. /\ h \in Tracked /\ nw \notin Tracked /\ nw # h
          /\ inst[nw].slot = inst[h].slot /\ ~inst[nw].stopped
      BY <1>3, <2>1, <2>2, <2>3 DEF Disjoint, Follows
    <2>5. /\ \A r : r \in Tracked' => r = nw \/ r \in Tracked
          /\ \A r : r \in Tracked => r = h \/ r \in Tracked'
      BY <1>1, <1>3, <1>7, <2>1, <2>4, SwapTracks
    <2>6. PICK n : n = runners.len
      OBVIOUS
    <2>7. PICK p \in 1..n : /\ At(p) = h /\ runners'.len = n
                            /\ \A i \in 1..n : At(i)' = IF i = p THEN nw ELSE At(i)
      BY <1>1, <1>7, <2>1, <2>4, <2>6, CarriedSwap
    <2>8. \A i \in 1..n : inst[At(i)].slot = i - 1
      BY <1>3, <2>6 DEF InService, InOrder
    <2>9. \A i \in 1..n : inst[At(i)'].slot = i - 1
      BY <2>4, <2>7, <2>8
    <2>10. InOrder'
      BY <2>2, <2>7, <2>9 DEF InOrder
    <2>11. InService'
      BY <1>3, <2>2, <2>4, <2>5, <2>6, <2>7, <2>10 DEF InService
    <2>12. y.at = "next" /\ y.todo = t
      BY <2>1 DEF RollRec
    <2>13. Elems(t) \subseteq Tracked'
      BY <1>3, <2>3, <2>5 DEF Follows
    <2>14. Follows(y)'
      BY <2>12, <2>13 DEF Follows
    <2> QED
      BY <1>1, <2>1, <2>2, <2>11, <2>14, ServedRolled
  <1>8. CASE RollAbort(k)
    <2>1. PICK y : /\ rolls' = [rolls EXCEPT ![k] = y]
                   /\ y = RollRec("abort", x.todo, x.new, x.drains, x.stopping)
      BY <1>1, <1>8, RollBecomes
    <2>2. PICK r : r = x.new
      OBVIOUS
    <2>3. /\ r \in Runners /\ inst' = [inst EXCEPT ![r].stopped = TRUE] /\ x.at = "probe"
          /\ UNCHANGED <<nextIdx, arrays, runners, svc, specs>>
      BY <1>1, <1>2, <1>8, <2>2 DEF RollAbort, GivenUp, storeVars
    <2>4. r \notin Tracked
      BY <1>2, <1>3, <2>2, <2>3 DEF Disjoint, Held, RollState
    <2>5. \A q \in Tracked : inst'[q].stopped = inst[q].stopped
      BY <1>2, <2>3, <2>4, RunnerStopped DEF Base
    <2>6. y.todo = x.todo /\ y.at = "abort"
      BY <2>1 DEF RollRec
    <2> QED
      BY <1>4, <2>1, <2>3, <2>5, <2>6
  <1>9. CASE RollAbortDone(k)
    <2>1. PICK y, t : /\ rolls' = [rolls EXCEPT ![k] = y] /\ t = <<>>
                      /\ y = RollRec("next", t, 0, x.drains, x.stopping)
      BY <1>1, <1>9, RollBecomes
    <2>2. y.todo = t /\ y.at = "next" /\ Elems(t) = {}
      BY <2>1 DEF RollRec, Elems
    <2>3. x.at # "done" /\ UNCHANGED <<inst, arrays, runners, svc, specs>>
      BY <1>1, <1>9 DEF RollAbortDone, runnerVars
    <2> QED
      BY <1>4, <2>1, <2>2, <2>3
  <1>10. CASE RollDone(k)
    <2>1. PICK y : /\ rolls' = [rolls EXCEPT ![k] = y]
                   /\ y = RollRec("done", x.todo, x.new, x.drains, x.stopping)
      BY <1>1, <1>10, RollBecomes
    <2>2. y.todo = x.todo /\ y.at = "done"
      BY <2>1 DEF RollRec
    <2>3. x.at # "done" /\ UNCHANGED <<inst, arrays, runners, svc, specs>>
      BY <1>1, <1>10 DEF RollDone, storeVars, runnerVars
    <2> QED
      BY <1>4, <2>1, <2>2, <2>3
  <1>11. ASSUME NEW old \in Runners, DrainTell(k, old) PROVE ServedInv'
    <2>1. PICK d, s, y :
            /\ d = x.drains \ {old} /\ s = x.stopping \cup {old}
            /\ rolls' = [rolls EXCEPT ![k] = y] /\ y = RollRec(x.at, x.todo, x.new, d, s)
      BY <1>1, <1>11, DrainingRoll
    <2>2. /\ old \in x.drains /\ inst' = [inst EXCEPT ![old].stopped = TRUE]
          /\ UNCHANGED <<nextIdx, arrays, runners, svc, specs>>
      BY <1>1, <1>11 DEF DrainTell, storeVars
    <2>3. old \notin Tracked /\ old # x.new /\ x.at # "done"
      BY <1>2, <1>3, <2>2 DEF Disjoint, Held, RollState, AllDrained
    <2>4. \A q \in Runners : q # old => inst'[q] = inst[q]
      BY <2>2, RunnerStopped DEF Base
    <2>5. y.at = x.at /\ y.todo = x.todo /\ y.new = x.new
      BY <2>1 DEF RollRec
    <2> QED
      BY <1>2, <1>5, <2>1, <2>2, <2>3, <2>4, <2>5
  <1>12. ASSUME NEW old \in Runners, DrainDone(k, old) PROVE ServedInv'
    <2>1. PICK s, y : /\ s = x.stopping \ {old} /\ rolls' = [rolls EXCEPT ![k] = y]
                      /\ y = RollRec(x.at, x.todo, x.new, x.drains, s)
      BY <1>1, <1>12, DrainedRoll
    <2>2. old \in x.stopping /\ UNCHANGED <<inst, arrays, runners, svc, specs>>
      BY <1>1, <1>12 DEF DrainDone, runnerVars
    <2>3. y.at = x.at /\ y.todo = x.todo /\ y.new = x.new /\ x.at # "done"
      BY <1>2, <2>1, <2>2 DEF RollRec, RollState, AllDrained
    <2> QED
      BY <1>5, <2>1, <2>2, <2>3
  <1> QED
    BY <1>6, <1>7, <1>8, <1>9, <1>10, <1>11, <1>12 DEF Roll

(* A fresh start of what has nothing yet.                                     *)
LEMMA ServedStart ==
  ASSUME Base, rolls' = <<>>, NEW p, NEW n \in Nat, StartInstances(p, n), specs'[p] = n
  PROVE  ServedInv'
  <1>1. /\ runners'.len = n /\ \A i \in 1..n : At(i)' = Len(inst) + i
        /\ \A j \in 1..n : inst'[Len(inst) + j] = [idx |-> nextIdx + j - 1, slot |-> j - 1,
                                                   stopped |-> FALSE, over |-> FALSE]
    BY SliceStarted DEF Base
  <1>2. \A i \in 1..n : inst'[At(i)'].slot = i - 1 /\ ~inst'[At(i)'].stopped
    <2> TAKE i \in 1..n
    <2>1. inst'[Len(inst) + i] = [idx |-> nextIdx + i - 1, slot |-> i - 1,
                                  stopped |-> FALSE, over |-> FALSE]
      BY <1>1
    <2>2. inst'[Len(inst) + i].slot = i - 1 /\ ~inst'[Len(inst) + i].stopped
      BY <2>1
    <2> QED
      BY <1>1, <2>2
  <1>3. svc' = p /\ DOMAIN rolls' = {}
    BY DEF StartInstances
  <1>4. InService'
    BY <1>1, <1>2, <1>3 DEF InService, InOrder, Tracked
  <1> QED
    BY <1>3, <1>4 DEF ServedInv

(* A reload, whoever asks for it.                                             *)
LEMMA ServedReload ==
  ASSUME Base, InstGrows, MoreOfAll, RInv, HoldInv, ServedInv, Serving,
         NEW c \in Clients, Reload(c)
  PROVE  ServedInv'
  <1>1. svc # 0 /\ runners.len > 0 /\ mode # "portless" /\ Apart /\ InService
    BY DEF Reload, HoldInv, ServedInv, Serving, Plain
  <1>2. PICK n \in Nat : n = runners.len /\ n # 0
    BY <1>1, SliceFields DEF Base
  <1>3. CASE ReloadRolls
    <2>1. PICK t, y :
            t \in Sortings(Slice) /\ rolls' = Append(rolls, y) /\ y.todo = t /\ y.at = "next"
      BY <1>3, RollBegins
    <2>2. UNCHANGED <<inst, runners, arrays, svc, specs>>
      BY <1>3 DEF ReloadRolls, storeVars, runnerVars
    <2>3. InService' /\ Tracked' = Tracked
      BY <1>1, <2>2, ServiceSame
    <2>4. Elems(t) \subseteq Tracked
      <3>1. /\ \A i \in 1..runners.len : t[i] \in Tracked
            /\ DOMAIN t = 1..runners.len
        BY <1>1, <2>1, SortingApart
      <3> QED
        BY <3>1 DEF Elems
    <2>5. Follows(y)'
      BY <2>1, <2>3, <2>4 DEF Follows
    <2>6. /\ DOMAIN rolls' = DOMAIN rolls \cup {Len(rolls) + 1}
          /\ rolls'[Len(rolls) + 1] = y
          /\ \A i \in DOMAIN rolls : rolls'[i] = rolls[i]
      BY <2>1, RollNew
    <2>7. ASSUME NEW i \in DOMAIN rolls' PROVE Follows(rolls[i])'
      <3>1. PICK x : x = rolls'[i]
        OBVIOUS
      <3>2. CASE i \in DOMAIN rolls
        <4>1. x = rolls[i] /\ x.at = "done"
          BY <1>3, <2>6, <3>1, <3>2 DEF ReloadRolls, MayReload, RInv, OneRolling, Active
        <4>2. Follows(x)
          BY <3>2, <4>1 DEF ServedInv
        <4>3. Follows(x)'
          BY <2>3, <3>2, <4>1, <4>2, FollowsStays
        <4> QED
          BY <3>1, <4>3 DEF Follows
      <3>3. CASE i = Len(rolls) + 1
        BY <2>5, <2>6, <3>1, <3>3 DEF Follows
      <3> QED
        BY <2>6, <2>7, <3>2, <3>3
    <2> QED
      BY <2>3, <2>7 DEF ServedInv
  <1>4. CASE ReloadPortless(c) \/ ReloadStarts
    BY <1>1, <1>2, <1>4 DEF ReloadPortless, ReloadStarts
  <1> QED
    BY <1>3, <1>4 DEF Reload

(* Every step.                                                                *)
LEMMA StepServed == Whole /\ RInv /\ HoldInv /\ ServedInv /\ [Next]_vars => ServedInv'
  <1> SUFFICES ASSUME Whole, RInv, HoldInv, ServedInv, [Next]_vars, Serving' PROVE ServedInv'
    BY DEF ServedInv
  <1>0. Base /\ SeenInv /\ MoreOfAll /\ InstGrows /\ Serving
    BY StepMore, StepSeen DEF Whole, Serving, Carried
  <1>1. (svc # 0 => runners.len > 0) /\ (svc = 0 => rolls = <<>>) /\ Plain
    BY <1>0 DEF HoldInv, SeenInv, NothingYet, Plain, Serving
  <1>2. CASE Start
    <2>1. svc = 0
      BY <1>1, <1>2 DEF Start, AnyRunning
    <2>2. PICK n \in Counts : StartInstances(Len(specs) + 1, n) /\ specs' = Append(specs, n)
      BY <1>2, <2>1 DEF Start
    <2>3. n \in Nat /\ rolls' = <<>> /\ specs'[Len(specs) + 1] = n
      BY <1>0, <1>1, <1>2, <2>1, <2>2, SpecNew, DaemonAssumption DEF Base, Start, reloadVars
    <2> QED
      BY <1>0, <2>2, <2>3, ServedStart
  <1>3. CASE Resurrect \/ ScaleUp
    BY <1>3 DEF Resurrect, ScaleUp, Accept, Serving
  <1>4. CASE Save \/ WatcherFires \/ WatcherRefused
    BY <1>0, <1>4, ServedSame DEF Save, WatcherFires, WatcherRefused, runnerVars,
                                  storeVars, reloadVars
  <1>5. ASSUME NEW c \in Clients, Request(c) PROVE ServedInv'
    <2>1. CASE Stop(c) \/ Restart(c) \/ Delete(c) \/ Shutdown(c) \/ ScaleDown(c)
      BY <2>1 DEF Stop, Restart, Delete, Shutdown, ScaleDown, Accept, Serving
    <2>2. CASE RequestReload(c)
      BY <1>0, <2>2, ServedReload DEF RequestReload
    <2> QED
      BY <1>5, <2>1, <2>2 DEF Request
  <1>6. ASSUME NEW c \in Clients, Serve(c) PROVE ServedInv'
    <2>1. job[c].op = "none"
      <3>1. job[c].op # "scale"
        BY <1>0 DEF SeenInv, JobsAsked, Asked, Serving
      <3> QED
        BY <1>0, <1>1, <3>1, PlainJobs, JobFields DEF Base
    <2>2. CASE TellStop(c)
      BY <2>1, <2>2 DEF TellStop
    <2>3. CASE StopReturns(c)
      <3>1. job[c].r # 0
        BY <2>3 DEF StopReturns
      <3> QED
        BY <1>6, <2>1, <2>3, <1>0, <1>1, <3>1, ServedSame
           DEF StopReturns, runnerVars, storeVars, reloadVars
    <2>4. CASE StopDone(c) \/ RestartDone(c) \/ DeleteDone(c) \/ ShutdownDone(c)
               \/ ScaleDownDone(c)
      BY <2>1, <2>4 DEF StopDone, RestartDone, DeleteDone, ShutdownDone, ScaleDownDone,
                        Finishes
    <2> QED
      BY <1>6, <2>2, <2>3, <2>4 DEF Serve
  <1>7. ASSUME NEW c \in Clients, WatcherReloads(c) PROVE ServedInv'
    BY <1>0, <1>7, ServedReload DEF WatcherReloads
  <1>8. ASSUME NEW k \in DOMAIN rolls, Roll(k) PROVE ServedInv'
    BY <1>0, <1>8, ServedRoll
  <1>9. ASSUME NEW r \in Runners, Report(r) PROVE ServedInv'
    <2>1. inst' = [inst EXCEPT ![r].over = inst[r].stopped] /\ ~inst[r].over
          /\ UNCHANGED <<nextIdx, arrays, runners, rolls, svc, specs>>
      BY <1>9 DEF Report, reloadVars
    <2>2. \A q \in Runners : inst'[q].stopped = inst[q].stopped
      BY <1>0, <2>1, RunnerReported DEF Base
    <2> QED
      BY <1>0, <2>1, <2>2, ServedSame
  <1>10. CASE UNCHANGED vars
    BY <1>0, <1>10, ServedSame DEF vars, runnerVars, storeVars, reloadVars
  <1> QED
    BY <1>2, <1>3, <1>4, <1>5, <1>6, <1>7, <1>8, <1>9, <1>10 DEF Next

(* So a slot is always served.                                                *)
LEMMA ServedAlways == Whole /\ ServedInv => EverySlotServed
  <1> SUFFICES ASSUME Whole, ServedInv, svc # 0, Serving, NEW s \in 0..(specs[svc] - 1)
               PROVE  \E r \in Tracked : ~inst[r].stopped /\ inst[r].slot = s
    BY DEF EverySlotServed, Serving
  <1>1. PICK n \in Nat : n = runners.len
    BY SliceFields DEF Whole, Base
  <1>2. specs[svc] = n /\ \A i \in 1..n : /\ inst[At(i)].slot = i - 1
                                          /\ At(i) \in Tracked /\ ~inst[At(i)].stopped
    BY <1>1 DEF ServedInv, InService, InOrder, Tracked
  <1>3. s + 1 \in 1..n /\ s = (s + 1) - 1
    BY <1>2
  <1> QED
    BY <1>2, <1>3

(* All of it.                                                                 *)
ServiceInv == Whole /\ RInv /\ HoldInv /\ ServedInv /\ SlotsInv

(* It holds at first.                                                         *)
LEMMA InitService == Init => ServiceInv
  <1> SUFFICES ASSUME Init PROVE RInv /\ HoldInv /\ ServedInv /\ SlotsInv
    BY InitWhole DEF ServiceInv
  <1>1. svc = 0 /\ rolls = <<>> /\ runners.len = 0 /\ reloading = FALSE
    BY DEF Init
  <1>2. RInv
    BY InitReloads
  <1>3. InOrder /\ Apart /\ Tracked = {}
    BY <1>1 DEF InOrder, Apart, Tracked
  <1> QED
    BY <1>1, <1>2, <1>3 DEF HoldInv, ServedInv, InService, SlotsInv

(* Slots 0..N-1 are served at every moment of a service that is only reloaded, *)
(* and by exactly the tracked runners of any other once nobody is at work.     *)
THEOREM SlotsAreKept == SafeSpec => []SlotsKept
  <1>1. ServiceInv /\ [Next]_vars => ServiceInv'
    BY StepWhole, StepInv, StepHold, StepServed, StepSlots DEF ServiceInv
  <1>2. ServiceInv => SlotsKept
    BY ServedAlways, ExactWhenQuiet DEF ServiceInv, SlotsKept
  <1> QED
    BY InitService, <1>1, <1>2, PTL DEF SafeSpec

--------------------------------------------------------------------------------
(* The list                                                                   *)

(* The tracked runners, but for those a scale-down under way has stopped.      *)
Kept == {At(i) : i \in {j \in 1..runners.len :
                          mu # 0 => j <= job[mu].goal \/ j >= job[mu].i}}

(* There is a reason for the entry x.                                         *)
Explained(x) ==
  \E r \in Runners : inst[r].idx = x /\ (inst[r].over \/ r \in Kept \cup Rolling)

ListedInv ==
  Plain => /\ \A r \in Kept : inst[r].idx \in listed
           /\ \A k \in DOMAIN rolls :
                rolls[k].at = "probe" => inst[rolls[k].new].idx \in listed
           /\ \A x \in listed : Explained(x)

(* Kept runners are tracked, and all are if there is no scale-down.           *)
LEMMA KeptTracked == Kept \subseteq Tracked /\ (mu = 0 => Kept = Tracked)
  BY DEF Kept, Tracked

(* In the next state too.                                                     *)
LEMMA KeptNext == (Kept \subseteq Tracked /\ (mu = 0 => Kept = Tracked))'
  BY KeptTracked, PTL

(* A step that leaves the slice and the handlers alone.                       *)
LEMMA KeptSame ==
  ASSUME UNCHANGED <<arrays, runners, mu>>,
         mu # 0 => job'[mu].goal = job[mu].goal /\ job'[mu].i = job[mu].i
  PROVE  Kept' = Kept
  BY DEF Kept, At

(* What is kept or in hand is a runner.                                       *)
LEMMA KeptRunners ==
  ASSUME Base
  PROVE  /\ Kept \subseteq Runners /\ Rolling \subseteq Runners
         /\ \A k \in DOMAIN rolls : rolls[k].at = "probe" => rolls[k].new \in Runners
  <1>1. \A k \in DOMAIN rolls : Held(rolls[k]) \subseteq Runners
    BY RollFields DEF Base, Held
  <1>2. Rolling \subseteq Runners
    BY <1>1, RollingHeld
  <1> QED
    BY <1>2, KeptTracked, TrackedRunners, RollFields DEF Base

(* A step that leaves the list alone.                                         *)
LEMMA ListedMoves ==
  ASSUME Base, InstGrows, ListedInv, Plain, listed' = listed,
         Runners \subseteq Runners',
         \A r \in Kept' : r \in Runners /\ inst[r].idx \in listed,
         \A r \in Kept \cup Rolling : r \in Kept' \cup Rolling',
         \A k \in DOMAIN rolls' : rolls'[k].at = "probe" =>
           rolls'[k].new \in Runners /\ inst[rolls'[k].new].idx \in listed
  PROVE  ListedInv'
  <1>1. \A r \in Runners : inst'[r].idx = inst[r].idx /\ (inst[r].over => inst'[r].over)
    BY DEF InstGrows
  <1>2. \A r \in Kept' : inst'[r].idx \in listed'
    BY <1>1
  <1>3. \A k \in DOMAIN rolls' :
          rolls'[k].at = "probe" => inst'[rolls'[k].new].idx \in listed'
    BY <1>1
  <1>4. ASSUME NEW x \in listed PROVE Explained(x)'
    <2>1. PICK r \in Runners : inst[r].idx = x /\ (inst[r].over \/ r \in Kept \cup Rolling)
      BY <1>4 DEF ListedInv, Explained
    <2> QED
      BY <1>1, <2>1 DEF Explained
  <1> QED
    BY <1>2, <1>3, <1>4 DEF ListedInv

(* A step that adds entries.                                                  *)
LEMMA ListedAdds ==
  ASSUME Base, InstGrows, ListedInv, Plain, NEW I, listed' = listed \cup I,
         Runners \subseteq Runners',
         \A r \in Kept' : r \in Kept \/ inst'[r].idx \in I,
         \A r \in Kept \cup Rolling : r \in Kept' \cup Rolling',
         \A k \in DOMAIN rolls' : rolls'[k].at = "probe" =>
           \/ k \in DOMAIN rolls /\ rolls'[k] = rolls[k]
           \/ inst'[rolls'[k].new].idx \in I,
         \A x \in I : Explained(x)'
  PROVE  ListedInv'
  <1>1. \A r \in Runners : inst'[r].idx = inst[r].idx /\ (inst[r].over => inst'[r].over)
    BY DEF InstGrows
  <1>2. \A r \in Kept' : inst'[r].idx \in listed'
    BY <1>1, KeptRunners DEF ListedInv
  <1>3. \A k \in DOMAIN rolls' :
          rolls'[k].at = "probe" => inst'[rolls'[k].new].idx \in listed'
    BY <1>1, KeptRunners DEF ListedInv
  <1>4. ASSUME NEW x \in listed PROVE Explained(x)'
    <2>1. PICK r \in Runners : inst[r].idx = x /\ (inst[r].over \/ r \in Kept \cup Rolling)
      BY <1>4 DEF ListedInv, Explained
    <2> QED
      BY <1>1, <2>1 DEF Explained
  <1> QED
    BY <1>2, <1>3, <1>4 DEF ListedInv

(* A step that removes the entry of a runner that goes.                       *)
LEMMA ListedDrops ==
  ASSUME Base, IndexInv, ListedInv, Plain, svc # 0, UNCHANGED inst,
         NEW old \in Runners, listed' = Removed(inst[old].idx),
         \A r \in Kept' : r \in Kept /\ r # old,
         \A r \in Kept \cup Rolling : r = old \/ r \in Kept' \cup Rolling',
         \A k \in DOMAIN rolls' : rolls'[k].at = "probe" =>
           k \in DOMAIN rolls /\ rolls[k].at = "probe"
             /\ rolls'[k].new = rolls[k].new /\ rolls[k].new # old
  PROVE  ListedInv'
  <1>1. \A r \in Runners : r # old => inst[r].idx # inst[old].idx
    BY DEF IndexInv, UniqueIndex, Plain
  <1>2. listed' = listed \ {inst[old].idx}
    BY DEF Removed
  <1>3. \A r \in Kept' : inst'[r].idx \in listed'
    BY <1>1, <1>2, KeptRunners DEF ListedInv
  <1>4. ASSUME NEW k \in DOMAIN rolls', rolls'[k].at = "probe"
        PROVE  inst'[rolls'[k].new].idx \in listed'
    <2>1. PICK w : w = rolls[k].new
      OBVIOUS
    <2>2. w \in Runners /\ w # old /\ inst[w].idx \in listed /\ rolls'[k].new = w
      BY <1>4, <2>1, KeptRunners DEF ListedInv
    <2> QED
      BY <1>1, <1>2, <2>2
  <1>5. ASSUME NEW x \in listed' PROVE Explained(x)'
    <2>1. PICK r \in Runners : inst[r].idx = x /\ (inst[r].over \/ r \in Kept \cup Rolling)
      BY <1>2, <1>5 DEF ListedInv, Explained
    <2>2. r # old /\ r \in Runners'
      BY <1>2, <1>5, <2>1 DEF Runners
    <2> QED
      BY <2>1, <2>2 DEF Explained
  <1> QED
    BY <1>3, <1>4, <1>5 DEF ListedInv

(* A step that moves no reload, handler or runner.                            *)
LEMMA ListedSame ==
  ASSUME Base, InstGrows, ListedInv, Plain, UNCHANGED <<arrays, runners, mu, listed, rolls>>,
         mu # 0 => job'[mu].goal = job[mu].goal /\ job'[mu].i = job[mu].i,
         Runners \subseteq Runners'
  PROVE  ListedInv'
  <1>1. Kept' = Kept
    BY KeptSame
  <1>2. Rolling' = Rolling
    BY DEF Rolling
  <1> QED
    BY <1>1, <1>2, KeptRunners, ListedMoves DEF ListedInv

(* New runners have the indices that are recorded for them.                   *)
LEMMA NewRecorded ==
  ASSUME RunnerTypes, NEW k \in Nat, NEW slot \in Nat, NewRunners(k, slot)
  PROVE  /\ \A j \in 1..k : inst'[Len(inst) + j].idx \in NewIdxs(k)
         /\ \A x \in NewIdxs(k) : \E j \in 1..k : inst'[Len(inst) + j].idx = x
  <1>1. \A j \in 1..k : inst'[Len(inst) + j] = [idx |-> nextIdx + j - 1, slot |-> slot + j - 1,
                                                 stopped |-> FALSE, over |-> FALSE]
    BY RunnersAdded
  <1>2. \A j \in 1..k : inst'[Len(inst) + j].idx = nextIdx + j - 1
    <2> TAKE j \in 1..k
    <2>1. inst'[Len(inst) + j] = [idx |-> nextIdx + j - 1, slot |-> slot + j - 1,
                                  stopped |-> FALSE, over |-> FALSE]
      BY <1>1
    <2> QED
      BY <2>1
  <1>3. nextIdx \in Nat
    BY DEF RunnerTypes
  <1>4. \A j \in 1..k : nextIdx + j - 1 \in NewIdxs(k)
    BY <1>3 DEF NewIdxs
  <1>5. \A x \in NewIdxs(k) : x - nextIdx + 1 \in 1..k /\ nextIdx + (x - nextIdx + 1) - 1 = x
    BY <1>3 DEF NewIdxs
  <1> QED
    BY <1>2, <1>4, <1>5

(* A fresh start.                                                             *)
LEMMA ListedStart ==
  ASSUME Base, rolls' = <<>>, mu' = 0, NEW p, NEW n \in Nat, StartInstances(p, n)
  PROVE  ListedInv'
  <1>1. runners'.len = n /\ Len(inst') = Len(inst) + n /\ \A i \in 1..n : At(i)' = Len(inst) + i
    BY SliceStarted DEF Base
  <1>2. 0 \in Nat /\ NewRunners(n, 0) /\ listed' = NewIdxs(n)
    BY DEF StartInstances
  <1>3. /\ \A j \in 1..n : inst'[Len(inst) + j].idx \in listed'
        /\ \A x \in listed' : \E j \in 1..n : inst'[Len(inst) + j].idx = x
    BY <1>2, NewRecorded DEF Base
  <1>4. Kept' = {Len(inst) + i : i \in 1..n}
    BY <1>1, KeptNext DEF Tracked
  <1>5. \A r \in Kept' : inst'[r].idx \in listed'
    BY <1>3, <1>4
  <1>6. \A j \in 1..n : Len(inst) + j \in Runners'
    BY <1>1, RunnerFields DEF Base, Runners
  <1>7. ASSUME NEW x \in listed' PROVE Explained(x)'
    <2>1. PICK j \in 1..n : inst'[Len(inst) + j].idx = x
      BY <1>3
    <2> QED
      BY <1>4, <1>6, <2>1 DEF Explained
  <1>8. DOMAIN rolls' = {}
    OBVIOUS
  <1> QED
    BY <1>5, <1>7, <1>8 DEF ListedInv

(* A scale-up.                                                                *)
LEMMA ListedScaleUp ==
  ASSUME Base, InstGrows, MoreOfAll, ListedInv, Plain, ScaleUp
  PROVE  ListedInv'
  <1>1. PICK k \in Nat \ {0} :
          /\ NewRunners(k, runners.len) /\ Len(inst') = Len(inst) + k
          /\ runners'.len = runners.len + k
          /\ \A i \in 1..runners.len : At(i)' = At(i)
          /\ \A j \in 1..k : arrays'[runners'.arr][runners.len + j] = Len(inst) + j
          /\ listed' = Recorded(NewIdxs(k))
    BY CarriedScaleUp
  <1>2. PICK n, m, I : /\ n \in Nat /\ m \in Nat
                     /\ n = runners.len /\ m = Len(inst) /\ I = NewIdxs(k)
    BY SliceFields, RunnerFields DEF Base
  <1>3. /\ \A j \in 1..k : inst'[m + j].idx \in I
        /\ \A x \in I : \E j \in 1..k : inst'[m + j].idx = x
    BY <1>1, <1>2, NewRecorded DEF Base
  <1>4. mu = 0 /\ mu' = 0 /\ svc # 0 /\ UNCHANGED rolls
    BY DEF ScaleUp, Free, reloadVars
  <1>5. listed' = listed \cup I
    BY <1>1, <1>2, <1>4 DEF Recorded
  <1>6. Kept = Tracked /\ Kept' = Tracked' /\ Rolling' = Rolling
    BY <1>4, KeptTracked, KeptNext DEF Rolling
  <1>7. \A j \in 1..k : At(n + j)' = m + j /\ n + j \in 1..runners'.len /\ m + j \in Runners'
    BY <1>1, <1>2 DEF At, Runners
  <1>8. \A i \in 1..n : At(i)' = At(i) /\ i \in 1..runners'.len
    BY <1>1, <1>2
  <1>9. \A r \in Tracked : r \in Tracked'
    BY <1>2, <1>8 DEF Tracked
  <1>10. \A j \in 1..k : m + j \in Tracked'
    BY <1>7 DEF Tracked
  <1>11. ASSUME NEW i \in 1..runners'.len PROVE At(i)' \in Tracked \/ inst'[At(i)'].idx \in I
    <2>1. CASE i \in 1..n
      BY <1>2, <1>8, <2>1 DEF Tracked
    <2>2. CASE i \notin 1..n
      <3>1. i - n \in 1..k /\ i = n + (i - n)
        BY <1>1, <1>2, <2>2
      <3>2. PICK j \in 1..k : i = n + j
        BY <3>1
      <3> QED
        BY <1>3, <1>7, <3>2
    <2> QED
      BY <2>1, <2>2
  <1>12. \A r \in Kept' : r \in Kept \/ inst'[r].idx \in I
    BY <1>6, <1>11 DEF Tracked
  <1>13. ASSUME NEW x \in I PROVE Explained(x)'
    <2>1. PICK j \in 1..k : inst'[m + j].idx = x
      BY <1>3
    <2> QED
      BY <1>6, <1>7, <1>10, <2>1 DEF Explained
  <1>14. Runners \subseteq Runners'
    BY DEF MoreOfAll, Runners
  <1> QED
    BY <1>4, <1>5, <1>6, <1>9, <1>12, <1>13, <1>14, ListedAdds

(* The beginning of a scale-down.                                             *)
LEMMA ListedScaleDown ==
  ASSUME Base, InstGrows, HoldInv, ListedInv, Plain, NEW c \in Clients, ScaleDown(c)
  PROVE  ListedInv'
  <1>1. mu = 0 /\ mu' = c /\ UNCHANGED <<inst, listed, rolls>>
    BY DEF ScaleDown, Free, storeVars, reloadVars
  <1>2. Tracked' = Tracked
    BY HoldScaleDown
  <1>3. PICK n, j : n \in Nat /\ j = Job("scale", n + 1, n) /\ job' = [job EXCEPT ![c] = j]
    BY CarriedScaleDown, DaemonAssumption
  <1>4. job'[c] = j /\ j.i = n + 1 /\ j.goal = n
    BY <1>3 DEF Job, Base, JobTypes
  <1>5. Kept' = Tracked'
    <2>1. \A i \in 1..runners'.len : i <= job'[mu'].goal \/ i >= job'[mu'].i
      BY <1>1, <1>3, <1>4
    <2> QED
      BY <2>1 DEF Kept, Tracked
  <1>6. Kept = Tracked /\ Rolling' = Rolling /\ Runners' = Runners
    BY <1>1, KeptTracked DEF Rolling, Runners
  <1> QED
    BY <1>1, <1>2, <1>5, <1>6, KeptRunners, ListedMoves DEF ListedInv

(* Its steps.                                                                 *)
LEMMA ListedTell ==
  ASSUME Base, SeenInv, InstGrows, MoreOfAll, ListedInv, Plain, NEW c \in Clients, TellStop(c)
  PROVE  ListedInv'
  <1>1. PICK x, j : /\ x = job[c] /\ job' = [job EXCEPT ![c] = j]
                    /\ j.i = x.i /\ j.goal = x.goal
    <2>1. PICK r, j : /\ job' = [job EXCEPT ![c] = j]
                      /\ j = [op |-> job[c].op, arr |-> job[c].arr, i |-> job[c].i,
                              n |-> job[c].n, r |-> r, p |-> job[c].p, goal |-> job[c].goal]
      BY ToldJob
    <2>2. j.i = job[c].i /\ j.goal = job[c].goal
      BY <2>1
    <2> QED
      BY <2>1, <2>2
  <1>2. x.op = "scale"
    BY <1>1, PlainJobs, JobFields DEF TellStop, Base
  <1>3. c = mu
    BY <1>1, <1>2 DEF Base, ScaleAlone
  <1>4. job'[mu] = j
    BY <1>1, <1>3 DEF Base, JobTypes
  <1>5. UNCHANGED <<arrays, runners, mu, listed, rolls>> /\ Runners \subseteq Runners'
    BY DEF TellStop, storeVars, reloadVars, MoreOfAll, Runners
  <1> QED
    BY <1>1, <1>3, <1>4, <1>5, ListedSame

(* The runner has stopped, and its entry goes.                                *)
LEMMA ListedReturns ==
  ASSUME Whole, IndexInv, InstGrows, HoldInv, ListedInv, Plain, NEW c \in Clients,
         StopReturns(c), job[c].op = "scale"
  PROVE  ListedInv'
  <1> Base /\ SeenInv /\ ScaleInv
    BY DEF Whole
  <1>1. PICK x, j : /\ x = job[c] /\ job' = [job EXCEPT ![c] = j]
                    /\ j.i = x.i + 1 /\ j.goal = x.goal
    <2>1. PICK j : /\ job' = [job EXCEPT ![c] = j]
                   /\ j = [op |-> job[c].op, arr |-> job[c].arr, i |-> job[c].i + 1,
                           n |-> job[c].n, r |-> 0, p |-> job[c].p, goal |-> job[c].goal]
      BY ReturnedJob
    <2>2. j.i = job[c].i + 1 /\ j.goal = job[c].goal
      BY <2>1
    <2> QED
      BY <2>1, <2>2
  <1>2. c = mu /\ x.n = runners.len /\ x.goal < x.i
    BY <1>1 DEF ScaleAlone, Base
  <1>3. PICK old, i, g, n : old = x.r /\ i = x.i /\ g = x.goal /\ n = runners.len
    OBVIOUS
  <1>4. /\ i \in Nat \ {0} /\ g \in Nat /\ n \in Nat /\ i <= n /\ g < i
        /\ old = At(i) /\ old # 0
    BY <1>1, <1>2, <1>3, JobFields DEF Base, ScaleInv, ScaledDown, StopReturns
  <1>5. old \in Runners /\ i \in 1..n
    BY <1>3, <1>4, HeaderNames DEF Base, TrackedHeader, At
  <1>6. svc # 0
    BY <1>3, <1>4 DEF SeenInv, NothingYet, Plain
  <1>7. /\ UNCHANGED <<inst, arrays, runners, mu, rolls>>
        /\ listed' = Removed(inst[old].idx)
    BY <1>1, <1>3 DEF StopReturns, runnerVars, reloadVars
  <1>8. job'[mu] = j /\ mu # 0
    BY <1>1, <1>2, DaemonAssumption DEF Base, JobTypes
  <1>9. Kept = {At(p) : p \in {q \in 1..n : q <= g \/ q >= i}}
    BY <1>1, <1>2, <1>3, <1>8 DEF Kept
  <1>10. Kept' = {At(p) : p \in {q \in 1..n : q <= g \/ q >= i + 1}}
    <2>1. \A q : At(q)' = At(q)
      BY <1>7 DEF At
    <2>2. runners'.len = n /\ mu' = mu /\ job'[mu'].goal = g /\ job'[mu'].i = i + 1
      BY <1>1, <1>3, <1>7, <1>8
    <2> QED
      BY <1>8, <2>1, <2>2 DEF Kept
  <1>11. \A p, q \in 1..n : At(p) = At(q) => p = q
    BY <1>3 DEF HoldInv, Apart
  <1>12. \A r \in Kept' : r \in Kept /\ r # old
    <2>1. \A q \in 1..n : (q <= g \/ q >= i + 1) => (q <= g \/ q >= i) /\ q # i
      BY <1>4
    <2> QED
      BY <1>4, <1>5, <1>9, <1>10, <1>11, <2>1
  <1>13. \A r \in Kept : r = old \/ r \in Kept'
    <2>1. \A q \in 1..n : (q <= g \/ q >= i) => (q <= g \/ q >= i + 1) \/ q = i
      BY <1>4
    <2> QED
      BY <1>4, <1>9, <1>10, <2>1
  <1>14. Rolling' = Rolling
    BY <1>7 DEF Rolling
  <1>15. \A k \in DOMAIN rolls : rolls[k].at = "probe" => rolls[k].new # old
    <2>1. old \in Tracked
      BY <1>3, <1>4, <1>5 DEF Tracked
    <2> QED
      BY <1>4, <2>1 DEF HoldInv, Disjoint, Held
  <1> QED
    BY <1>5, <1>6, <1>7, <1>12, <1>13, <1>14, <1>15, ListedDrops

(* The end of a scale-down.                                                   *)
LEMMA ListedScaleDone ==
  ASSUME Base, InstGrows, ListedInv, Plain, NEW c \in Clients, ScaleDownDone(c)
  PROVE  ListedInv'
  <1>1. PICK g, i, n \in Nat : g = job[c].goal /\ i = job[c].i /\ n = runners.len
    BY JobFields, SliceFields DEF Base
  <1>2. /\ c = mu /\ g \in 1..n /\ runners'.len = g /\ \A q \in 1..g : At(q)' = At(q)
    BY <1>1, CarriedScaleDone
  <1>3. i > n
    BY <1>1, <1>2 DEF ScaleDownDone, Finishes, Base, ScaleAlone
  <1>4. mu' = 0 /\ mu # 0 /\ UNCHANGED <<inst, listed, rolls>>
    BY <1>2, DaemonAssumption DEF ScaleDownDone, Unlock, reloadVars
  <1>5. Kept = {At(q) : q \in {p \in 1..n : p <= g \/ p >= i}}
    BY <1>1, <1>2, <1>4 DEF Kept
  <1>6. {p \in 1..n : p <= g \/ p >= i} = 1..g
    BY <1>1, <1>2, <1>3
  <1>7. Kept' = {At(q)' : q \in 1..g}
    BY <1>2, <1>4, KeptNext DEF Tracked
  <1>8. Kept' = Kept
    BY <1>2, <1>5, <1>6, <1>7
  <1>9. Rolling' = Rolling /\ Runners' = Runners
    BY <1>4 DEF Rolling, Runners
  <1> QED
    BY <1>4, <1>8, <1>9, KeptRunners, ListedMoves DEF ListedInv

(* A reload, whoever asks for it.                                             *)
LEMMA ListedReload ==
  ASSUME Base, InstGrows, MoreOfAll, HoldInv, ListedInv, Plain, NEW c \in Clients, Reload(c)
  PROVE  ListedInv'
  <1>1. svc # 0 /\ runners.len > 0 /\ mode # "portless"
    BY DEF Reload, HoldInv, Plain
  <1>2. PICK n \in Nat : n = runners.len /\ n # 0
    BY <1>1, SliceFields DEF Base
  <1>3. CASE ReloadRolls
    <2>1. PICK y : rolls' = Append(rolls, y) /\ y.at = "next"
      BY <1>3, RollBegins
    <2>2. /\ DOMAIN rolls' = DOMAIN rolls \cup {Len(rolls) + 1}
          /\ rolls'[Len(rolls) + 1] = y
          /\ \A i \in DOMAIN rolls : rolls'[i] = rolls[i]
      BY <2>1, RollNew
    <2>3. UNCHANGED <<inst, arrays, runners, mu, job, listed>>
      BY <1>3 DEF Reload, ReloadRolls, storeVars, runnerVars
    <2>4. Kept' = Kept /\ Runners' = Runners
      BY <2>3, KeptSame DEF Runners
    <2>5. \A r : r \in Rolling => r \in Rolling'
      BY <2>2 DEF Rolling
    <2>6. \A k \in DOMAIN rolls' : rolls'[k].at = "probe" =>
            rolls'[k].new \in Runners /\ inst[rolls'[k].new].idx \in listed
      BY <2>1, <2>2, KeptRunners DEF ListedInv
    <2> QED
      BY <2>3, <2>4, <2>5, <2>6, KeptRunners, ListedMoves DEF ListedInv
  <1>4. CASE ReloadPortless(c) \/ ReloadStarts
    BY <1>1, <1>2, <1>4 DEF ReloadPortless, ReloadStarts
  <1> QED
    BY <1>3, <1>4 DEF Reload

(* A reload going on.                                                         *)
LEMMA ListedRoll ==
  ASSUME Whole, RInv, IndexInv, InstGrows, MoreOfAll, HoldInv, ListedInv, Plain,
         NEW k \in DOMAIN rolls, Roll(k)
  PROVE  ListedInv'
  <1> Base /\ SeenInv
    BY DEF Whole
  <1>1. PICK x : x = rolls[k]
    OBVIOUS
  <1>2. /\ RollState(x) /\ x.todo \in Seq(Runners) /\ Held(x) \subseteq Runners
        /\ x.drains \subseteq Runners /\ x.stopping \subseteq Runners
        /\ (x.at \in {"probe", "abort"} => x.new \in Runners)
    BY <1>1, RollFields DEF Base, Held
  <1>3. /\ Disjoint(x, Tracked) /\ Apart /\ svc # 0 /\ Runners \subseteq Runners'
        /\ Kept \subseteq Tracked
    BY <1>1, KeptTracked DEF HoldInv, SeenInv, NothingYet, Plain, MoreOfAll, Runners
  <1>4. ASSUME NEW y, rolls' = [rolls EXCEPT ![k] = y]
        PROVE  /\ DOMAIN rolls' = DOMAIN rolls /\ rolls'[k] = y
               /\ \A i \in DOMAIN rolls : i # k => rolls'[i] = rolls[i]
               /\ \A r : r \in Held(y) => r \in Rolling'
               /\ \A r : r \in Rolling => r \in Rolling' \/ r \in Held(x) \ Held(y)
    BY <1>1, <1>4, RollShape, HeldMoves
  <1>5. ASSUME NEW y, rolls' = [rolls EXCEPT ![k] = y], UNCHANGED listed, Kept' = Kept,
               Held(x) \subseteq Held(y), y.at = "probe" => x.at = "probe" /\ y.new = x.new
        PROVE  ListedInv'
    <2>1. \A r : r \in Kept \cup Rolling => r \in Kept' \cup Rolling'
      BY <1>4, <1>5
    <2>2. \A i \in DOMAIN rolls' : rolls'[i].at = "probe" =>
            rolls'[i].new \in Runners /\ inst[rolls'[i].new].idx \in listed
      BY <1>1, <1>4, <1>5, KeptRunners DEF ListedInv
    <2> QED
      BY <1>3, <1>5, <2>1, <2>2, KeptRunners, ListedMoves DEF ListedInv
  <1>6. ASSUME NEW y, rolls' = [rolls EXCEPT ![k] = y], NEW old \in Held(x), x.at # "done",
               listed' = Removed(inst[old].idx), UNCHANGED <<inst, arrays, runners, mu, job>>,
               Held(x) \subseteq Held(y) \cup {old},
               y.at = "probe" => x.at = "probe" /\ y.new = x.new /\ x.new # old
        PROVE  ListedInv'
    <2>1. Kept' = Kept /\ old \in Runners /\ old \notin Kept
      BY <1>2, <1>3, <1>6, KeptSame DEF Disjoint
    <2>2. \A r \in Kept \cup Rolling : r = old \/ r \in Kept' \cup Rolling'
      BY <1>4, <1>6, <2>1
    <2>3. ASSUME NEW i \in DOMAIN rolls', rolls'[i].at = "probe"
          PROVE  i \in DOMAIN rolls /\ rolls[i].at = "probe" /\ rolls'[i].new = rolls[i].new
                   /\ rolls[i].new # old
      <3>1. i = k
        <4>1. ASSUME i # k PROVE rolls[i].at = "done"
          BY <1>1, <1>4, <1>6, <2>3, <4>1, OthersIdle
        <4> QED
          BY <1>4, <1>6, <2>3, <4>1
      <3> QED
        BY <1>1, <1>4, <1>6, <2>3, <3>1
    <2> QED
      BY <1>3, <1>6, <2>1, <2>2, <2>3, ListedDrops
  <1>7. CASE RollLaunch(k)
    <2>1. PICK y, w : /\ rolls' = [rolls EXCEPT ![k] = y] /\ w = Len(inst) + 1
                      /\ y = RollRec("probe", x.todo, w, x.drains, x.stopping)
      BY <1>1, <1>7, LaunchedRoll
    <2>2. PICK slot, I : slot \in Nat /\ slot = inst[Head(rolls[k].todo)].slot /\ I = NewIdxs(1)
      BY <1>7, RollFields, RunnerFields DEF Base, RollLaunch
    <2>3. /\ NewRunners(1, slot) /\ UNCHANGED <<arrays, runners, mu, job>>
          /\ x.at = "next" /\ listed' = listed \cup I
      BY <1>1, <1>3, <1>7, <2>2 DEF RollLaunch, Recorded
    <2>4. /\ \A j \in 1..1 : inst'[Len(inst) + j].idx \in I
          /\ \A z \in I : \E j \in 1..1 : inst'[Len(inst) + j].idx = z
      BY <2>2, <2>3, NewRecorded DEF Base
    <2>5. inst'[w].idx \in I /\ \A z \in I : inst'[w].idx = z
      BY <2>1, <2>4
    <2>6. w \in Runners' /\ w # 0
      <3>1. Len(inst') = Len(inst) + 1 /\ Len(inst) \in Nat
        BY <2>2, <2>3, RunnersAdded, RunnerFields DEF Base
      <3> QED
        BY <2>1, <3>1 DEF Runners
    <2>7. x.new = 0
      BY <1>2, <2>3 DEF RollState
    <2>8. y.new = w /\ Held(y) = Held(x) \cup {w}
      BY <2>1, <2>6, <2>7 DEF RollRec, Held
    <2>9. w \in Rolling' /\ \A r : r \in Rolling => r \in Rolling'
      BY <1>4, <2>1, <2>8
    <2>10. Kept' = Kept
      BY <2>3, KeptSame
    <2>11. \A z \in I : Explained(z)'
      BY <2>5, <2>6, <2>9 DEF Explained
    <2>12. \A i \in DOMAIN rolls' : (i \in DOMAIN rolls /\ rolls'[i] = rolls[i])
                                       \/ inst'[rolls'[i].new].idx \in I
      BY <1>4, <2>1, <2>5, <2>8
    <2> QED
      BY <1>3, <2>3, <2>9, <2>10, <2>11, <2>12, ListedAdds
  <1>8. CASE RollSwap(k)
    <2>1. PICK y, h, t, nw :
            /\ rolls' = [rolls EXCEPT ![k] = y] /\ h = Head(x.todo) /\ t = Tail(x.todo)
            /\ nw = x.new /\ y = RollRec("next", t, 0, x.drains \cup {h}, x.stopping)
      BY <1>1, <1>8, SwappedRoll
    <2>2. /\ x.at = "probe" /\ x.todo # <<>> /\ nw \in Held(x) /\ UNCHANGED <<inst, listed>>
          /\ mu = 0 /\ mu' = 0
      BY <1>1, <1>2, <1>8, <2>1 DEF RollSwap, RollState, Held, storeVars, Free
    <2>3. h \in Elems(x.todo)
      BY <1>2, <1>3, <2>1, <2>2, HeadApart DEF Disjoint
    <2>4. nw \notin Tracked /\ nw # h
      BY <1>3, <2>2, <2>3 DEF Disjoint
    <2>5. /\ nw \in Tracked'
          /\ \A r : r \in Tracked' => r = nw \/ r \in Tracked
          /\ \A r : r \in Tracked => r = h \/ r \in Tracked'
      BY <1>1, <1>3, <1>8, <2>1, <2>4, SwapTracks
    <2>6. Kept = Tracked /\ Kept' = Tracked'
      BY <2>2, KeptTracked, KeptNext
    <2>7. /\ y.at = "next" /\ Held(y) = x.drains \cup {h} \cup x.stopping
      BY <2>1 DEF RollRec, Held
    <2>8. h \in Rolling' /\ \A r : r \in Rolling => r \in Rolling' \/ r = nw
      <3>1. \A r : r \in Held(x) => r \in Held(y) \/ r = nw
        BY <2>1, <2>7 DEF Held
      <3> QED
        BY <1>4, <2>1, <2>7, <3>1
    <2>9. \A r \in Kept \cup Rolling : r \in Kept' \cup Rolling'
      BY <2>5, <2>6, <2>8
    <2>10. nw \in Runners /\ inst[nw].idx \in listed
      BY <1>1, <1>2, <2>1, <2>2 DEF ListedInv
    <2>11. \A r \in Kept' : r \in Runners /\ inst[r].idx \in listed
      BY <2>5, <2>6, <2>10, KeptRunners DEF ListedInv
    <2>12. \A i \in DOMAIN rolls' : rolls'[i].at = "probe" =>
             rolls'[i].new \in Runners /\ inst[rolls'[i].new].idx \in listed
      BY <1>4, <2>1, <2>7, KeptRunners DEF ListedInv
    <2> QED
      BY <1>3, <2>2, <2>9, <2>11, <2>12, ListedMoves
  <1>9. CASE RollAbort(k)
    <2>1. PICK y : /\ rolls' = [rolls EXCEPT ![k] = y]
                   /\ y = RollRec("abort", x.todo, x.new, x.drains, x.stopping)
      BY <1>1, <1>9, RollBecomes
    <2>2. UNCHANGED <<arrays, runners, mu, job, listed>>
      BY <1>9 DEF RollAbort, storeVars
    <2>3. Held(y) = Held(x) /\ y.at = "abort"
      BY <2>1 DEF RollRec, Held
    <2> QED
      BY <1>5, <2>1, <2>2, <2>3, KeptSame
  <1>10. CASE RollAbortDone(k)
    <2>1. PICK y : /\ rolls' = [rolls EXCEPT ![k] = y]
                   /\ y = RollRec("next", <<>>, 0, x.drains, x.stopping)
      BY <1>1, <1>10, RollBecomes
    <2>2. PICK old : old = x.new
      OBVIOUS
    <2>3. /\ x.at = "abort" /\ UNCHANGED <<inst, arrays, runners, mu, job>>
          /\ listed' = Removed(inst[old].idx)
      BY <1>1, <1>10, <2>2 DEF RollAbortDone, runnerVars
    <2>4. old \in Held(x) /\ Held(x) \subseteq Held(y) \cup {old} /\ y.at = "next"
      BY <1>2, <2>1, <2>2, <2>3 DEF RollRec, Held, RollState
    <2> QED
      BY <1>6, <2>1, <2>3, <2>4
  <1>11. CASE RollDone(k)
    <2>1. PICK y : /\ rolls' = [rolls EXCEPT ![k] = y]
                   /\ y = RollRec("done", x.todo, x.new, x.drains, x.stopping)
      BY <1>1, <1>11, RollBecomes
    <2>2. UNCHANGED <<arrays, runners, mu, job, listed>>
      BY <1>11 DEF RollDone, storeVars, runnerVars
    <2>3. Held(y) = Held(x) /\ y.at = "done"
      BY <2>1 DEF RollRec, Held
    <2> QED
      BY <1>5, <2>1, <2>2, <2>3, KeptSame
  <1>12. ASSUME NEW old \in Runners, DrainTell(k, old) PROVE ListedInv'
    <2>1. PICK d, s, y :
            /\ d = x.drains \ {old} /\ s = x.stopping \cup {old}
            /\ rolls' = [rolls EXCEPT ![k] = y] /\ y = RollRec(x.at, x.todo, x.new, d, s)
      BY <1>1, <1>12, DrainingRoll
    <2>2. UNCHANGED <<arrays, runners, mu, job, listed>>
      BY <1>12 DEF DrainTell, storeVars
    <2>3. Held(x) \subseteq Held(y) /\ y.at = x.at /\ y.new = x.new
      BY <2>1 DEF RollRec, Held
    <2> QED
      BY <1>5, <2>1, <2>2, <2>3, KeptSame
  <1>13. ASSUME NEW old \in Runners, DrainDone(k, old) PROVE ListedInv'
    <2>1. PICK s, y : /\ s = x.stopping \ {old} /\ rolls' = [rolls EXCEPT ![k] = y]
                      /\ y = RollRec(x.at, x.todo, x.new, x.drains, s)
      BY <1>1, <1>13, DrainedRoll
    <2>2. /\ old \in x.stopping /\ UNCHANGED <<inst, arrays, runners, mu, job>>
          /\ listed' = Removed(inst[old].idx)
      BY <1>1, <1>13 DEF DrainDone, runnerVars
    <2>3. /\ old \in Held(x) /\ Held(x) \subseteq Held(y) \cup {old}
          /\ y.at = x.at /\ y.new = x.new
      BY <2>1, <2>2 DEF RollRec, Held
    <2>4. x.at # "done" /\ x.new # old
      BY <1>2, <1>3, <2>2 DEF RollState, AllDrained, Disjoint
    <2> QED
      BY <1>6, <2>1, <2>2, <2>3, <2>4
  <1> QED
    BY <1>7, <1>8, <1>9, <1>10, <1>11, <1>12, <1>13 DEF Roll

(* A tracked runner that was not told to stop is kept.                        *)
LEMMA LiveKept ==
  ASSUME Whole, NEW r \in Tracked, ~inst[r].stopped
  PROVE  r \in Kept
  <1> Base /\ ScaleInv
    BY DEF Whole
  <1>1. PICK p \in 1..runners.len : r = At(p)
    BY DEF Tracked
  <1>2. CASE mu = 0
    BY <1>2, KeptTracked
  <1>3. CASE mu # 0
    <2>1. PICK g, i : g = job[mu].goal /\ i = job[mu].i
      OBVIOUS
    <2>2. mu \in Clients /\ job[mu].op = "scale"
      BY <1>3 DEF Base, ScaleAlone
    <2>3. /\ g \in Nat /\ i \in Nat /\ p \in Nat
          /\ \A q \in (g + 1)..(i - 1) : inst[At(q)].stopped
      BY <2>1, <2>2, JobFields, SliceFields DEF Base, ScaleInv, ScaledDown
    <2>4. p <= g \/ p >= i
      BY <1>1, <2>3
    <2> QED
      BY <1>1, <2>1, <2>4 DEF Kept
  <1> QED
    BY <1>2, <1>3

(* supervise writes an entry.                                                 *)
LEMMA ListedReport ==
  ASSUME Whole, InstGrows, MoreOfAll, LostInv, ListedInv, Plain, NEW r \in Runners, Report(r)
  PROVE  ListedInv'
  <1> Base
    BY DEF Whole
  <1>1. /\ svc # 0 /\ ~inst[r].over /\ inst' = [inst EXCEPT ![r].over = inst[r].stopped]
        /\ UNCHANGED <<nextIdx, arrays, runners, mu, job, rolls>>
        /\ listed' = listed \cup {inst[r].idx}
    BY DEF Report, Recorded, reloadVars
  <1>2. inst'[r].idx = inst[r].idx /\ (inst[r].stopped => inst'[r].over)
    BY <1>1, RunnerReported DEF Base, InstGrows
  <1>3. Kept' = Kept /\ Rolling' = Rolling /\ Runners \subseteq Runners'
    BY <1>1, KeptSame DEF Rolling, MoreOfAll, Runners
  <1>4. ~inst[r].stopped => r \in Kept \cup Rolling
    <2>1. ~inst[r].stopped => r \in Tracked \cup Rolling
      BY DEF LostInv, Live, SliceKept, Plain
    <2> QED
      BY <2>1, LiveKept
  <1>5. PICK I : I = {inst[r].idx}
    OBVIOUS
  <1>6. \A x \in I : Explained(x)'
    BY <1>2, <1>3, <1>4, <1>5 DEF Explained
  <1>7. listed' = listed \cup I
    BY <1>1, <1>5
  <1>8. /\ \A q \in Kept' : q \in Kept
        /\ \A q \in Kept \cup Rolling : q \in Kept' \cup Rolling'
    BY <1>3
  <1>9. \A k \in DOMAIN rolls' : k \in DOMAIN rolls /\ rolls'[k] = rolls[k]
    BY <1>1
  <1> QED
    BY <1>3, <1>6, <1>7, <1>8, <1>9, ListedAdds

(* A connection without a handler waits for no runner.                        *)
IdleInv == \A c \in Clients : job[c].op = "none" => job[c].r = 0

(* A handler begins, goes on or ends.                                         *)
LEMMA IdleWritten ==
  ASSUME JobTypes, IdleInv, NEW c \in Clients, NEW j, job' = [job EXCEPT ![c] = j],
         j.op = "none" => j.r = 0
  PROVE  IdleInv'
  <1>1. \A d \in Clients : job'[d] = IF d = c THEN j ELSE job[d]
    BY DEF JobTypes
  <1> QED
    BY <1>1 DEF IdleInv

(* A handler that begins, or ends.                                            *)
LEMMA IdleLoop ==
  ASSUME JobTypes, IdleInv, NEW c \in Clients, NEW op, Loop(c, op) \/ Finishes(c, op)
  PROVE  IdleInv'
  <1>1. CASE Loop(c, op)
    <2>1. PICK j : j = Job(op, 1, 0)
      OBVIOUS
    <2>2. job' = [job EXCEPT ![c] = j] /\ j.r = 0
      BY <1>1, <2>1 DEF Loop, Job
    <2> QED
      BY <2>2, IdleWritten
  <1>2. CASE Finishes(c, op)
    <2>1. PICK j : j = NoJob
      OBVIOUS
    <2>2. job' = [job EXCEPT ![c] = j] /\ j.r = 0
      BY <1>2, <2>1 DEF Finishes, NoJob
    <2> QED
      BY <2>2, IdleWritten
  <1> QED
    BY <1>1, <1>2

(* Every step.                                                                *)
LEMMA StepIdle == Base /\ IdleInv /\ [Next]_vars => IdleInv'
  <1> SUFFICES ASSUME Base, IdleInv, [Next]_vars PROVE IdleInv'
    OBVIOUS
  <1> JobTypes
    BY DEF Base
  <1>1. ASSUME UNCHANGED job PROVE IdleInv'
    BY <1>1 DEF IdleInv
  <1>2. CASE Start \/ Resurrect \/ ScaleUp \/ Save \/ WatcherFires \/ WatcherRefused
    BY <1>1, <1>2 DEF Start, Resurrect, ScaleUp, Save, WatcherFires, WatcherRefused
  <1>3. ASSUME NEW c \in Clients, Reload(c) PROVE IdleInv'
    BY <1>1, <1>3, IdleLoop DEF Reload, ReloadPortless, ReloadStarts, ReloadRolls
  <1>4. ASSUME NEW c \in Clients, Request(c) PROVE IdleInv'
    <2>1. CASE ScaleDown(c)
      <3>1. PICK n \in Counts : job' = [job EXCEPT ![c] = Job("scale", n + 1, n)]
        BY <2>1 DEF ScaleDown
      <3>2. PICK j : j = Job("scale", n + 1, n)
        OBVIOUS
      <3>3. job' = [job EXCEPT ![c] = j] /\ j.r = 0
        BY <3>1, <3>2 DEF Job
      <3> QED
        BY <3>3, IdleWritten
    <2>2. CASE RequestReload(c)
      BY <1>3, <2>2 DEF RequestReload
    <2>3. CASE Stop(c) \/ Restart(c) \/ Delete(c) \/ Shutdown(c)
      BY <1>1, <2>3, IdleLoop DEF Stop, Restart, Delete, Shutdown
    <2> QED
      BY <1>4, <2>1, <2>2, <2>3 DEF Request
  <1>5. ASSUME NEW c \in Clients, Serve(c) PROVE IdleInv'
    <2>1. CASE TellStop(c)
      <3>1. PICK r, j : /\ job' = [job EXCEPT ![c] = j]
                        /\ j = [op |-> job[c].op, arr |-> job[c].arr, i |-> job[c].i,
                                n |-> job[c].n, r |-> r, p |-> job[c].p,
                                goal |-> job[c].goal]
        BY <2>1, ToldJob
      <3>2. j.op # "none"
        BY <2>1, <3>1 DEF TellStop
      <3> QED
        BY <3>1, <3>2, IdleWritten
    <2>2. CASE StopReturns(c)
      <3>1. PICK j : /\ job' = [job EXCEPT ![c] = j]
                     /\ j = [op |-> job[c].op, arr |-> job[c].arr, i |-> job[c].i + 1,
                             n |-> job[c].n, r |-> 0, p |-> job[c].p,
                             goal |-> job[c].goal]
        BY <2>2, ReturnedJob
      <3>2. j.r = 0
        BY <3>1
      <3> QED
        BY <3>1, <3>2, IdleWritten
    <2>3. CASE StopDone(c) \/ RestartDone(c) \/ DeleteDone(c) \/ ScaleDownDone(c)
                 \/ ShutdownDone(c)
      BY <2>3, IdleLoop DEF StopDone, RestartDone, DeleteDone, ScaleDownDone, ShutdownDone
    <2> QED
      BY <1>5, <2>1, <2>2, <2>3 DEF Serve
  <1>6. ASSUME NEW c \in Clients, WatcherReloads(c) PROVE IdleInv'
    BY <1>3, <1>6 DEF WatcherReloads
  <1>7. ASSUME NEW k \in DOMAIN rolls, Roll(k) PROVE IdleInv'
    BY <1>1, <1>7 DEF Roll, RollLaunch, RollSwap, RollAbort, RollAbortDone, RollDone,
                      DrainTell, DrainDone
  <1>8. ASSUME NEW r \in Runners, Report(r) PROVE IdleInv'
    BY <1>1, <1>8 DEF Report
  <1>9. CASE UNCHANGED vars
    BY <1>1, <1>9 DEF vars
  <1> QED
    BY <1>2, <1>4, <1>5, <1>6, <1>7, <1>8, <1>9 DEF Next

(* All that the list depends on.                                              *)
ListInv == Whole /\ RInv /\ IndexInv /\ IdleInv /\ LostInv /\ HoldInv /\ ListedInv

(* Every step.                                                                *)
LEMMA StepListed == ListInv /\ [Next]_vars => ListedInv'
  <1> SUFFICES ASSUME ListInv, [Next]_vars, Plain' PROVE ListedInv'
    BY DEF ListedInv
  <1>0. /\ Whole /\ RInv /\ IndexInv /\ IdleInv /\ LostInv /\ HoldInv /\ ListedInv
        /\ Base /\ SeenInv /\ InstGrows /\ MoreOfAll /\ Plain
    BY StepMore, StepSeen DEF ListInv, Whole, Carried, Plain
  <1>1. /\ svc # 0 => runners.len > 0
        /\ svc = 0 => rolls = <<>>
        /\ Runners \subseteq Runners'
    BY <1>0 DEF HoldInv, SeenInv, NothingYet, Plain, MoreOfAll, Runners
  <1>2. CASE Start
    <2>1. svc = 0
      BY <1>1, <1>2 DEF Start, AnyRunning
    <2>2. PICK n \in Counts : StartInstances(Len(specs) + 1, n)
      BY <1>2, <2>1 DEF Start
    <2>3. n \in Nat /\ rolls' = <<>> /\ mu' = 0
      BY <1>1, <1>2, <2>1, DaemonAssumption DEF Start, Free, reloadVars
    <2> QED
      BY <1>0, <2>2, <2>3, ListedStart
  <1>3. CASE Resurrect
    BY <1>3 DEF Resurrect, Accept, Plain
  <1>4. CASE ScaleUp
    BY <1>0, <1>4, ListedScaleUp
  <1>5. CASE Save \/ WatcherFires \/ WatcherRefused
    BY <1>0, <1>1, <1>5, ListedSame DEF Save, WatcherFires, WatcherRefused, runnerVars,
                                        storeVars, reloadVars
  <1>6. ASSUME NEW c \in Clients, Request(c) PROVE ListedInv'
    <2>1. CASE Stop(c) \/ Restart(c) \/ Delete(c) \/ Shutdown(c)
      BY <2>1 DEF Stop, Restart, Delete, Shutdown, Accept, Plain
    <2>2. CASE ScaleDown(c)
      BY <1>0, <2>2, ListedScaleDown
    <2>3. CASE RequestReload(c)
      BY <1>0, <2>3, ListedReload DEF RequestReload
    <2> QED
      BY <1>6, <2>1, <2>2, <2>3 DEF Request
  <1>7. ASSUME NEW c \in Clients, Serve(c) PROVE ListedInv'
    <2>1. CASE TellStop(c)
      BY <1>0, <2>1, ListedTell
    <2>2. CASE StopReturns(c) /\ job[c].op = "scale"
      BY <1>0, <2>2, ListedReturns
    <2>3. CASE StopReturns(c) /\ job[c].op # "scale"
      <3>1. job[c].op = "none"
        BY <1>0, <2>3, PlainJobs, JobFields DEF Base
      <3> QED
        BY <1>0, <2>3, <3>1 DEF IdleInv, StopReturns
    <2>4. CASE StopDone(c) \/ RestartDone(c) \/ DeleteDone(c) \/ ShutdownDone(c)
      BY <1>0, <2>4, PlainJobs DEF StopDone, RestartDone, DeleteDone, ShutdownDone, Finishes
    <2>5. CASE ScaleDownDone(c)
      BY <1>0, <2>5, ListedScaleDone
    <2> QED
      BY <1>7, <2>1, <2>2, <2>3, <2>4, <2>5 DEF Serve
  <1>8. ASSUME NEW c \in Clients, WatcherReloads(c) PROVE ListedInv'
    BY <1>0, <1>8, ListedReload DEF WatcherReloads
  <1>9. ASSUME NEW k \in DOMAIN rolls, Roll(k) PROVE ListedInv'
    BY <1>0, <1>9, ListedRoll
  <1>10. ASSUME NEW r \in Runners, Report(r) PROVE ListedInv'
    BY <1>0, <1>10, ListedReport
  <1>11. CASE UNCHANGED vars
    BY <1>0, <1>1, <1>11, ListedSame DEF vars, runnerVars, storeVars, reloadVars
  <1> QED
    BY <1>2, <1>3, <1>4, <1>5, <1>6, <1>7, <1>8, <1>9, <1>10, <1>11 DEF Next

(* It holds at first.                                                         *)
LEMMA InitListed == Init => ListInv
  <1> SUFFICES ASSUME Init PROVE ListInv
    OBVIOUS
  <1>1. /\ rolls = <<>> /\ runners.len = 0 /\ listed = {} /\ svc = 0 /\ inst = <<>>
        /\ \A c \in Clients : job[c].r = 0
    BY DEF Init, NoJob
  <1>2. Live = {} /\ Apart /\ Kept = {}
    BY <1>1 DEF Live, Runners, Apart, Kept
  <1> QED
    BY <1>1, <1>2, InitWhole, InitReloads, InitIndices
       DEF ListInv, IdleInv, LostInv, HoldInv, ListedInv

(* Every step.                                                                *)
LEMMA StepListInv == ListInv /\ [Next]_vars => ListInv'
  <1>1. ListInv => Whole /\ RInv /\ CountsInv /\ IndexInv /\ IdleInv /\ LostInv /\ HoldInv
    BY DEF ListInv, Whole, Base
  <1> QED
    BY <1>1, StepWhole, StepInv, StepIndices, StepIdle, StepLost, StepHold, StepListed,
       Whole => Base DEF ListInv, Whole

(* Once nobody is at work, every tracked runner is kept and none is in hand.   *)
LEMMA QuietList ==
  ASSUME Base, Quiet
  PROVE  Kept = Tracked /\ Rolling = {}
  <1>1. mu = 0
    <2>1. \A c \in Clients : job[c].op # "scale"
      BY DEF Quiet, NoJob
    <2> QED
      BY <2>1, DaemonAssumption DEF Base, ScaleAlone
  <1>2. ASSUME NEW k \in DOMAIN rolls PROVE Held(rolls[k]) = {}
    <2>1. PICK x : x = rolls[k] /\ x.at = "done" /\ RollState(x)
      BY RollFields DEF Base, Quiet, Active
    <2>2. x.todo = <<>> /\ x.new = 0 /\ AllDrained(x)
      BY <2>1 DEF RollState
    <2>3. Held(x) = {}
      BY <2>2, DisjointIdle
    <2> QED
      BY <2>1, <2>3
  <1> QED
    BY <1>1, <1>2, KeptTracked, RollingHeld

(* Every entry has its reason and every tracked runner its entry, so that what *)
(* starts, saves, scalings and reloads leave in the list, once they are over,  *)
(* is an entry for each tracked runner, and others only of runners whose last  *)
(* launch slipped past their stop.                                             *)
THEOREM ListIsExact == SafeSpec => []ListedExactly
  <1>1. ListInv => ListedExactly
    <2> SUFFICES ASSUME ListInv, Quiet, Plain
                 PROVE  LET Idxs(R) == {inst[r].idx : r \in R} IN
                        /\ Idxs(Tracked) \subseteq listed
                        /\ listed \subseteq Idxs(Tracked \cup {r \in Runners : inst[r].over})
      BY DEF ListedExactly, Plain
    <2>1. Kept = Tracked /\ Rolling = {}
      BY QuietList DEF ListInv, Whole
    <2>2. \A r \in Tracked : inst[r].idx \in listed
      BY <2>1 DEF ListInv, ListedInv
    <2>3. \A x \in listed : \E r \in Runners : inst[r].idx = x /\ (inst[r].over \/ r \in Tracked)
      BY <2>1 DEF ListInv, ListedInv, Explained
    <2> QED
      BY <2>2, <2>3
  <1> QED
    BY <1>1, InitListed, StepListInv, PTL DEF SafeSpec
===============================================================================
