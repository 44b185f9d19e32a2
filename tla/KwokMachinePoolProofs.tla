----------------------- MODULE KwokMachinePoolProofs -----------------------
(***************************************************************************)
(* Proofs about KwokMachinePool, for every set of pools, every naming and   *)
(* every bound: type correctness, that a pool never has more children than  *)
(* it was ever asked for, how much a scale-down deletes, and that reconciles *)
(* touch no child that is not theirs.                                       *)
(***************************************************************************)
EXTENDS KwokMachinePool, FunctionTheorems, FiniteSetTheorems, WellFoundedInduction, TLAPS

(***************************************************************************)
(* Children and their numbers                                               *)
(***************************************************************************)

\* The children of one pool with an index below n are at most n.
LEMMA ChildrenBelow ==
    ASSUME NEW p \in Pools, NEW n \in Nat, NEW S \in SUBSET Children,
           \A c \in S : c[1] = p /\ c[2] < n
    PROVE  IsFiniteSet(S) /\ Cardinality(S) \in 0 .. n
<1> DEFINE T == 0 .. (n - 1)
<1>1. \A c \in S : c = <<p, c[2]>> /\ c[2] \in T
  BY BoundsAssumption DEF Children, Index
<1>2. IsFiniteSet(T) /\ Cardinality(T) = n
  BY FS_Interval
<1> DEFINE f == [c \in S |-> c[2]]
<1>3. f \in Injection(S, T)
  <2>1. f \in [S -> T]
    BY <1>1
  <2>2. ASSUME NEW c \in S, NEW d \in S, f[c] = f[d] PROVE c = d
    BY <1>1, <2>2
  <2> HIDE DEF f
  <2> QED
    BY <2>1, <2>2 DEF Injection, IsInjective
<1> HIDE DEF f, T
<1>4. IsFiniteSet(S) /\ Cardinality(S) <= Cardinality(T)
  BY <1>2, <1>3, FS_Injection
<1> QED
  BY <1>2, <1>4, FS_CardinalityType

\* What reconcileNormal lists is a number of children the pool may have.
LEMMA ListNormalType ==
    ASSUME NEW p \in Pools
    PROVE  ListNormal(p) \in SUBSET Children /\ Cardinality(ListNormal(p)) \in Replicas
<1>1. ListNormal(p) \in SUBSET Children
  BY DEF ListNormal
<1>2. \A c \in ListNormal(p) : c[1] = p /\ c[2] < MaxReplicas
  BY BoundsAssumption DEF ListNormal, Children, Index
<1> QED
  BY <1>1, <1>2, ChildrenBelow, BoundsAssumption DEF Replicas

\* The loop over todo has a first round.
LEMMA LowestExists ==
    ASSUME NEW p \in Pools, NEW S \in SUBSET Children, S # {}
    PROVE  Lowest(S) \in S
<1> DEFINE T == {c[2] : c \in S}
           R == OpToRel(<, Nat)
<1>1. T \subseteq Nat /\ T # {}
  BY BoundsAssumption DEF Children, Index
<1>2. IsWellFoundedOn(R, Nat)
  BY NatLessThanWellFounded
<1>r. \A x, y \in Nat : y < x => <<y, x>> \in R
  BY DEF OpToRel
<1> HIDE DEF T, R
<1>3. PICK x \in T : \A y \in T : ~ (<<y, x>> \in R)
  BY <1>1, <1>2, WFMin
<1>4. ASSUME NEW y \in T PROVE x <= y
  <2>1. x \in Nat /\ y \in Nat
    BY <1>1
  <2>2. ~ (y < x)
    BY <1>3, <1>r, <2>1, Zenon
  <2> QED
    BY <2>1, <2>2
<1> USE DEF T
<1>5. PICK c \in S : c[2] = x
  OBVIOUS
<1>6. \A d \in S : c[2] <= d[2]
  BY <1>4, <1>5
<1> QED
  BY <1>6 DEF Lowest

\* The larger of two numbers is one of them and below neither.
LEMMA LargerOf ==
    ASSUME NEW a \in Replicas, NEW b \in Replicas
    PROVE  Max({a, b}) \in Replicas /\ a <= Max({a, b}) /\ b <= Max({a, b})
<1>1. a \in Nat /\ b \in Nat
  BY BoundsAssumption DEF Replicas
<1>2. \E x \in {a, b} : \A y \in {a, b} : x >= y
  BY <1>1
<1>3. /\ Max({a, b}) \in {a, b}
      /\ \A y \in {a, b} : Max({a, b}) >= y
  BY <1>2 DEF Max
<1> QED
  BY <1>1, <1>3

(***************************************************************************)
(* Type correctness                                                         *)
(***************************************************************************)

\* The records the module starts from have the types it declares.
LEMMA ConstantTypes ==
    /\ 0 \in Replicas
    /\ NoPool \in PoolObjects
    /\ NoChild \in ChildObjects
    /\ Idle \in Works
<1>1. 0 \in Replicas
  BY BoundsAssumption DEF Replicas
<1>2. NoPool \in PoolObjects
  BY <1>1, BoundsAssumption DEF NoPool, PoolObjects
<1>3. NoChild \in ChildObjects
  BY DEF NoChild, ChildObjects
<1>4. {} \in SUBSET Children /\ "idle" \in PCs
  BY DEF PCs
<1>5. Idle \in Works
  BY <1>1, <1>2, <1>4 DEF Idle, Works
<1> QED
  BY <1>1, <1>2, <1>3, <1>5

\* Children stay of their type when they are deleted or created.
LEMMA ChildTypes ==
    ASSUME TypeOK, NEW c
    PROVE  /\ [child EXCEPT ![c] = Deleted(@)] \in [Children -> ChildObjects]
           /\ \A p \in Pools : Create(p, c) => child' \in [Children -> ChildObjects]
<1>1. \A o \in ChildObjects : Deleted(o) \in ChildObjects
  BY DEF Deleted, NoChild, ChildObjects
<1>2. [child EXCEPT ![c] = Deleted(@)] \in [Children -> ChildObjects]
  BY <1>1 DEF TypeOK
<1>3. ASSUME NEW p \in Pools, Create(p, c)
      PROVE  child' \in [Children -> ChildObjects]
  <2>1. [phase |-> "new", orphan |-> pool[p].uid # work[p].old.uid] \in ChildObjects
    BY DEF ChildObjects
  <2> QED
    BY <1>3, <2>1 DEF TypeOK, Create
<1> QED
  BY <1>2, <1>3

\* So do the reconciles at the rounds of a loop, its end and its errors.
LEMMA DoneType ==
    ASSUME TypeOK, NEW p \in Pools, NEW c, NEW pc \in PCs, Done(p, c, pc)
    PROVE  work' \in [Pools -> Works]
<1> DEFINE rest == work[p].todo \ {c}
           cut == [work EXCEPT ![p].todo = rest]
<1>w. work[p] \in Works /\ work \in [Pools -> Works]
  BY DEF TypeOK
<1>1. rest \in SUBSET Children
  BY <1>w DEF Works
<1>2. work' = [cut EXCEPT ![p].pc = IF rest = {} THEN pc ELSE @]
  BY <1>w DEF Done
<1> HIDE DEF rest
<1>3. cut \in [Pools -> Works]
  BY <1>w, <1>1 DEF Works
<1> HIDE DEF cut
<1>4. (IF rest = {} THEN pc ELSE cut[p].pc) \in PCs
  BY <1>3 DEF Works
<1> QED
  BY <1>2, <1>3, <1>4 DEF Works

LEMMA EndTypes ==
    ASSUME TypeOK, NEW p \in Pools
    PROVE  /\ Retry(p) => work' \in [Pools -> Works]
           /\ \A a \in BOOLEAN : End(p, a) => /\ work' \in [Pools -> Works]
                                              /\ queue' \in SUBSET Pools
<1>w. work[p] \in Works /\ work \in [Pools -> Works]
  BY DEF TypeOK
<1>1. ASSUME Retry(p) PROVE work' \in [Pools -> Works]
  <2>1. [work[p] EXCEPT !.pc = "patchSpec", !.todo = {}, !.again = TRUE] \in Works
    BY <1>w DEF Works, PCs
  <2>2. work' = [work EXCEPT ![p] =
                    [work[p] EXCEPT !.pc = "patchSpec", !.todo = {}, !.again = TRUE]]
    BY <1>1, <1>w DEF Retry
  <2> QED
    BY <1>w, <2>1, <2>2
<1>2. \A a \in BOOLEAN : End(p, a) => work' \in [Pools -> Works] /\ queue' \in SUBSET Pools
  BY <1>w, ConstantTypes DEF End, TypeOK
<1> QED
  BY <1>1, <1>2

\* A patch, and a removal with all that refers to it, keep their types.
LEMMA StoreTypes ==
    ASSUME TypeOK, NEW p \in Pools, NEW o \in PoolObjects, Store(p, o)
    PROVE  pool' \in [Pools -> PoolObjects] /\ child' \in [Children -> ChildObjects]
<1>1. \A c \in Children : [child[c] EXCEPT !.orphan = TRUE] \in ChildObjects
  BY DEF TypeOK, ChildObjects
<1>2. CASE o.phase = "deleting" /\ ~o.fin
  <2>1. pool' = [pool EXCEPT ![p] = NoPool]
    BY <1>2 DEF Store
  <2>2. child' = [c \in Children |-> IF c[1] = p /\ Exists(child[c])
                                       THEN [child[c] EXCEPT !.orphan = TRUE] ELSE child[c]]
    BY <1>2 DEF Store
  <2> QED
    BY <1>1, <2>1, <2>2, ConstantTypes DEF TypeOK
<1>3. CASE ~(o.phase = "deleting" /\ ~o.fin)
  BY <1>3 DEF Store, TypeOK
<1> QED
  BY <1>2, <1>3

LEMMA PatchTypes ==
    ASSUME NEW o \in PoolObjects, NEW w \in Works
    PROVE  SpecMerged(o, w) \in PoolObjects /\ StatusMerged(o, w) \in PoolObjects
BY DEF SpecMerged, StatusMerged, Merge, PoolObjects, Works

LEMMA BoundTypes ==
    ASSUME TypeOK
    PROVE  /\ Fault => faults' \in 0 .. MaxFaults
           /\ Edit => edits' \in 0 .. MaxEdits
BY BoundsAssumption DEF TypeOK, Fault, Edit

LEMMA InitTypeOK == Init => TypeOK
<1> SUFFICES ASSUME Init PROVE TypeOK
  OBVIOUS
<1>1. faults \in 0 .. MaxFaults /\ edits \in 0 .. MaxEdits
  BY BoundsAssumption DEF Init
<1> QED
  BY <1>1, ConstantTypes DEF Init, TypeOK

\* A step of a pool's reconcile keeps every type.
LEMMA ReconcileTypeOK ==
    ASSUME TypeOK, NEW p \in Pools, Start(p) \/ Progress(p)
    PROVE  TypeOK'
<1> USE DEF TypeOK
<1>w. /\ work[p] \in Works /\ pool[p] \in PoolObjects /\ seen[p] \in PoolObjects
      /\ work[p].new \in PoolObjects /\ work[p].old \in PoolObjects
      /\ work[p].todo \in SUBSET Children /\ work[p].again \in BOOLEAN
      /\ desired[p] \in Replicas
  BY DEF Works
<1>1. CASE Skip(p)
  BY <1>1 DEF Skip, Take
<1>2. CASE BeginNormal(p)
  <2> DEFINE up == ScaleUpRange(p, Cardinality(ListNormal(p)), desired[p])
             begun == [Idle EXCEPT !.old = seen[p], !.new = [seen[p] EXCEPT !.fin = TRUE],
                                   !.target = desired[p]]
  <2>1. up \in SUBSET Children
    BY DEF ScaleUpRange
  <2>2. PICK down \in ScaleDownChoices(p, Cardinality(ListNormal(p)), desired[p]) :
          work' = [work EXCEPT ![p] =
             [begun EXCEPT !.pc = IF up # {} THEN "scaleUp"
                                  ELSE IF down # {} THEN "scaleDown" ELSE "relist",
                           !.todo = up \union down]]
    BY <1>2 DEF BeginNormal
  <2>3. down \in SUBSET Children
    BY <2>2, ListNormalType DEF ScaleDownChoices, kSubset
  <2>4. begun \in Works
    BY <1>w, ConstantTypes DEF Works, PoolObjects
  <2> HIDE DEF begun, up
  <2>5. [begun EXCEPT !.pc = IF up # {} THEN "scaleUp"
                             ELSE IF down # {} THEN "scaleDown" ELSE "relist",
                      !.todo = up \union down] \in Works
    BY <2>1, <2>3, <2>4 DEF Works, PCs
  <2>6. work' \in [Pools -> Works]
    BY <2>2, <2>5
  <2> QED
    BY <1>2, <2>6 DEF BeginNormal, Take
<1>3. CASE BeginDelete(p)
  <2> DEFINE listed == ListDelete(p)
  <2>1. listed \in SUBSET Children
    BY DEF ListDelete
  <2>2. work' = [work EXCEPT ![p] =
          [Idle EXCEPT !.pc = IF listed = {} THEN "patchSpec" ELSE "deleteChildren",
                       !.old = seen[p],
                       !.new = [seen[p] EXCEPT !.fin = listed # {}],
                       !.todo = listed,
                       !.again = listed # {}]]
    BY <1>3 DEF BeginDelete
  <2> HIDE DEF listed
  <2>3. work' \in [Pools -> Works]
    BY <1>w, <2>1, <2>2, ConstantTypes DEF Works, PoolObjects, PCs
  <2> QED
    BY <1>3, <2>3 DEF BeginDelete, Take
<1>4. CASE ScaleUp(p)
  <2>1. child' \in [Children -> ChildObjects] /\ work' \in [Pools -> Works]
    BY <1>4, ChildTypes, DoneType DEF ScaleUp, PCs
  <2> QED
    BY <1>4, <2>1 DEF ScaleUp
<1>5. CASE ScaleDown(p) \/ DeleteChild(p)
  <2>1. child' \in [Children -> ChildObjects] /\ work' \in [Pools -> Works]
    BY <1>5, ChildTypes, DoneType DEF ScaleDown, DeleteChild, PCs
  <2> QED
    BY <1>5, <2>1 DEF ScaleDown, DeleteChild
<1>6. CASE LoopFails(p)
  <2>1. child' \in [Children -> ChildObjects]
    BY <1>6, ChildTypes DEF LoopFails
  <2> QED
    BY <1>6, <2>1, EndTypes, BoundTypes DEF LoopFails
<1>7. CASE Relist(p)
  <2> DEFINE listed == ListNormal(p)
             ids == {c \in listed : HasProviderID(cache[c])}
             ready == ids = listed /\ Cardinality(listed) = work[p].target
             count == Cardinality(listed)
             new == [work[p].new EXCEPT !.ids = ids, !.ready = ready, !.count = count]
  <2>1. ids \in SUBSET Children /\ ready \in BOOLEAN /\ count \in Replicas
    BY ListNormalType
  <2>2. work' = [work EXCEPT ![p].pc = "patchSpec", ![p].again = ~ready, ![p].new = new]
    BY <1>7 DEF Relist
  <2> HIDE DEF ids, ready, count
  <2>3. new \in PoolObjects
    BY <1>w, <2>1 DEF PoolObjects
  <2> HIDE DEF new
  <2>4. work' \in [Pools -> Works]
    BY <1>w, <2>1, <2>2, <2>3 DEF Works, PCs
  <2> QED
    BY <1>7, <2>4 DEF Relist
<1>8. CASE PatchSpec(p)
  <2>1. pool' \in [Pools -> PoolObjects] /\ child' \in [Children -> ChildObjects]
    BY <1>8, <1>w, PatchTypes, StoreTypes DEF PatchSpec
  <2>2. work' \in [Pools -> Works]
    <3>1. (work[p].again \/ (SpecChanged(work[p]) /\ ~Exists(pool[p]))) \in BOOLEAN
      BY <1>w
    <3> QED
      BY <1>8, <1>w, <3>1 DEF PatchSpec, Works, PCs
  <2> QED
    BY <1>8, <2>1, <2>2 DEF PatchSpec
<1>9. CASE PatchStatus(p)
  <2>1. pool' \in [Pools -> PoolObjects]
    <3>1. StatusMerged(pool[p], work[p]) \in PoolObjects
      BY <1>w, PatchTypes
    <3> QED
      BY <1>9, <3>1 DEF PatchStatus
  <2>2. work' \in [Pools -> Works] /\ queue' \in SUBSET Pools
    <3>1. (work[p].again \/ (StatusChanged(work[p]) /\ ~Exists(pool[p]))) \in BOOLEAN
      BY <1>w
    <3> QED
      BY <1>9, <3>1, EndTypes DEF PatchStatus
  <2> QED
    BY <1>9, <2>1, <2>2 DEF PatchStatus
<1>10. CASE PatchFails(p)
  <2>1. work' \in [Pools -> Works] /\ queue' \in SUBSET Pools
    <3>1. [work[p] EXCEPT !.pc = "patchStatus", !.again = TRUE] \in Works
      BY <1>w DEF Works, PCs
    <3> QED
      BY <1>10, <3>1, EndTypes DEF PatchFails
  <2>2. pool' \in [Pools -> PoolObjects] /\ child' \in [Children -> ChildObjects]
    <3>1. SpecMerged(pool[p], work[p]) \in PoolObjects /\ StatusMerged(pool[p], work[p]) \in PoolObjects
      BY <1>w, PatchTypes
    <3>2. \/ UNCHANGED <<pool, child>>
          \/ Store(p, SpecMerged(pool[p], work[p]))
          \/ pool' = [pool EXCEPT ![p] = StatusMerged(@, work[p])] /\ UNCHANGED child
      BY <1>10 DEF PatchFails
    <3> QED
      BY <3>1, <3>2, StoreTypes
  <2> QED
    BY <1>10, <2>1, <2>2, BoundTypes DEF PatchFails
<1> QED
  BY <1>1, <1>2, <1>3, <1>4, <1>5, <1>6, <1>7, <1>8, <1>9, <1>10 DEF Start, Progress

\* So does everything else that happens to a pool or a child.
LEMMA OtherTypeOK ==
    ASSUME TypeOK,
           \/ \E p \in Pools : \/ SyncPool(p) \/ Resync(p) \/ CreatePool(p)
                               \/ Pause(p) \/ Unpause(p)
                               \/ SetReplicas(p) \/ DeletePool(p)
           \/ \E c \in Children : Sync(c) \/ Advance(c) \/ LoseChild(c) \/ Collect(c)
           \/ Restart \/ UNCHANGED vars
    PROVE  TypeOK'
<1> USE DEF TypeOK
<1>1. ASSUME NEW p \in Pools, SyncPool(p) \/ Resync(p) \/ Pause(p) \/ Unpause(p) PROVE TypeOK'
  BY <1>1, BoundTypes DEF SyncPool, Resync, Pause, Unpause
<1>2. ASSUME NEW p \in Pools, NEW n \in Targets, Ask(p, n)
      PROVE  desired' \in [Pools -> Replicas] /\ asked' \in [Pools -> Replicas]
  <2>1. n \in Replicas
    BY BoundsAssumption DEF Replicas
  <2> QED
    BY <1>2, <2>1, LargerOf DEF Ask
<1>3. ASSUME NEW p \in Pools, CreatePool(p) PROVE TypeOK'
  <2>1. edits' \in 0 .. MaxEdits
    BY <1>3, BoundTypes DEF CreatePool
  <2>2. [NoPool EXCEPT !.phase = "live", !.uid = edits'] \in PoolObjects
    BY <2>1, ConstantTypes DEF PoolObjects
  <2> QED
    BY <1>2, <1>3, <2>1, <2>2 DEF CreatePool
<1>4. ASSUME NEW p \in Pools, SetReplicas(p) PROVE TypeOK'
  BY <1>2, <1>4, BoundTypes DEF SetReplicas
<1>5. ASSUME NEW p \in Pools, DeletePool(p) PROVE TypeOK'
  <2>1. [pool[p] EXCEPT !.phase = "deleting"] \in PoolObjects
    BY DEF PoolObjects
  <2> QED
    BY <1>5, <2>1, StoreTypes, BoundTypes DEF DeletePool
<1>6. ASSUME NEW c \in Children, Sync(c) \/ Advance(c) \/ LoseChild(c) \/ Collect(c)
      PROVE  TypeOK'
  <2>1. child' \in [Children -> ChildObjects]
    <3>1. [child[c] EXCEPT !.phase = "provisioned"] \in ChildObjects
      BY DEF ChildObjects
    <3> QED
      BY <1>6, <3>1, ChildTypes, ConstantTypes DEF Sync, Advance, LoseChild, Collect
  <2>2. cache' \in [Children -> ChildObjects]
    BY <1>6 DEF Sync, Advance, LoseChild, Collect
  <2> QED
    BY <1>6, <2>1, <2>2, BoundTypes DEF Sync, Advance, LoseChild, Collect
<1>7. CASE Restart
  BY <1>7, ConstantTypes, BoundTypes DEF Restart
<1>8. CASE UNCHANGED vars
  BY <1>8 DEF vars
<1> QED
  BY <1>1, <1>3, <1>4, <1>5, <1>6, <1>7, <1>8

LEMMA StepTypeOK == TypeOK /\ [Next]_vars => TypeOK'
BY ReconcileTypeOK, OtherTypeOK DEF Next

\* Every variable keeps its type, the counts in a pool's status included.
THEOREM TypeCorrect == Spec => []TypeOK
BY InitTypeOK, StepTypeOK, PTL DEF Spec

(***************************************************************************)
(* Never more children than asked for                                       *)
(***************************************************************************)

\* The part of Bounded about what is asked for, stored and about to be created.
DesiredBounded == \A p \in Pools : desired[p] <= asked[p]
ChildrenBounded == \A c \in Children : Exists(child[c]) => c[2] < asked[c[1]]
LoopsBounded == \A p \in Pools : work[p].pc = "scaleUp" =>
    /\ work[p].todo # {}
    /\ \A c \in work[p].todo : c[1] = p /\ c[2] < asked[p]

CreatesBounded == DesiredBounded /\ ChildrenBounded /\ LoopsBounded

LEMMA CreatesParts == CreatesBounded <=> DesiredBounded /\ ChildrenBounded /\ LoopsBounded
BY DEF CreatesBounded, DesiredBounded, ChildrenBounded, LoopsBounded

\* No child comes into being, and nothing less is asked for.
LEMMA NoNewChild ==
    ASSUME TypeOK, ChildrenBounded, TypeOK',
           \A c \in Children : Exists(child'[c]) => Exists(child[c]),
           \A p \in Pools : asked[p] <= asked'[p]
    PROVE  ChildrenBounded'
<1> SUFFICES ASSUME NEW c \in Children, Exists(child'[c]) PROVE c[2] < asked'[c[1]]
  BY DEF ChildrenBounded, Exists
<1>1. c[1] \in Pools /\ c[2] \in Nat
  BY BoundsAssumption DEF Children, Index
<1>2. asked[c[1]] \in Nat /\ asked'[c[1]] \in Nat
  BY <1>1, BoundsAssumption DEF TypeOK, Replicas
<1>3. c[2] < asked[c[1]] /\ asked[c[1]] <= asked'[c[1]]
  BY <1>1 DEF ChildrenBounded
<1> QED
  BY <1>1, <1>2, <1>3

\* No child is deleted into existence.
LEMMA DeletedIsOld ==
    ASSUME TypeOK, NEW d, child' = [child EXCEPT ![d] = Deleted(@)]
    PROVE  \A c \in Children : Exists(child'[c]) => Exists(child[c])
BY DEF TypeOK, Deleted, Exists, NoChild

\* Storing a pool creates no child.
LEMMA StoredIsOld ==
    ASSUME TypeOK, NEW p, NEW o, Store(p, o)
    PROVE  \A c \in Children : Exists(child'[c]) => Exists(child[c])
<1>1. CASE o.phase = "deleting" /\ ~o.fin
  <2>1. child' = [c \in Children |-> IF c[1] = p /\ Exists(child[c])
                                       THEN [child[c] EXCEPT !.orphan = TRUE] ELSE child[c]]
    BY <1>1 DEF Store
  <2> QED
    BY <2>1 DEF TypeOK, Exists
<1>2. CASE ~(o.phase = "deleting" /\ ~o.fin)
  BY <1>2 DEF Store
<1> QED
  BY <1>1, <1>2

\* A reconcile that is not in its scale-up loop owes the invariant nothing.
LEMMA NotScalingUp ==
    ASSUME TypeOK, LoopsBounded, NEW p \in Pools, NEW w,
           work' = [work EXCEPT ![p] = w], w.pc # "scaleUp", UNCHANGED asked
    PROVE  LoopsBounded'
BY DEF TypeOK, LoopsBounded

\* The round of a loop leaves the loop, or leaves something to be done in it.
LEMMA DoneBounded ==
    ASSUME TypeOK, LoopsBounded, NEW p \in Pools, NEW c, NEW pc \in PCs, pc # "scaleUp",
           Done(p, c, pc), UNCHANGED asked
    PROVE  LoopsBounded'
<1> DEFINE rest == work[p].todo \ {c}
<1>w. work[p] \in Works /\ work \in [Pools -> Works]
  BY DEF TypeOK
<1>1. /\ work'[p].todo = rest
      /\ work'[p].pc = IF rest = {} THEN pc ELSE work[p].pc
  BY <1>w DEF Done, Works
<1>2. \A q \in Pools \ {p} : work'[q] = work[q]
  BY <1>w DEF Done
<1>3. ASSUME NEW q \in Pools, work'[q].pc = "scaleUp"
      PROVE  work'[q].todo # {} /\ \A d \in work'[q].todo : d[1] = q /\ d[2] < asked[q]
  BY <1>1, <1>2, <1>3 DEF LoopsBounded
<1> QED
  BY <1>3 DEF LoopsBounded

\* The child that a scale-up creates is one its pool was asked for.
LEMMA CreateBounded ==
    ASSUME TypeOK, ChildrenBounded, LoopsBounded, NEW p \in Pools,
           work[p].pc = "scaleUp", Create(p, Lowest(work[p].todo)), UNCHANGED asked
    PROVE  ChildrenBounded'
<1> DEFINE c == Lowest(work[p].todo)
<1>1. work[p].todo \in SUBSET Children /\ work[p].todo # {}
  BY DEF TypeOK, Works, LoopsBounded
<1>2. c \in work[p].todo
  BY <1>1, LowestExists
<1>3. c[1] = p /\ c[2] < asked[p]
  BY <1>2 DEF LoopsBounded
<1>4. Create(p, c)
  OBVIOUS
<1> HIDE DEF c
<1>5. \A d \in Children \ {c} : child'[d] = child[d]
  BY <1>4 DEF Create, TypeOK
<1> QED
  BY <1>3, <1>5 DEF ChildrenBounded

\* What a reconcile decides to create lies between what it counts and what is
\* asked for; then it deletes nothing.
LEMMA BeginBounded ==
    ASSUME TypeOK, DesiredBounded, LoopsBounded, NEW p \in Pools, BeginNormal(p)
    PROVE  LoopsBounded'
<1> DEFINE current == Cardinality(ListNormal(p))
           up == ScaleUpRange(p, current, desired[p])
           begun == [Idle EXCEPT !.old = seen[p], !.new = [seen[p] EXCEPT !.fin = TRUE],
                                 !.target = desired[p]]
<1>1. PICK down \in ScaleDownChoices(p, current, desired[p]) :
        work' = [work EXCEPT ![p] =
           [begun EXCEPT !.pc = IF up # {} THEN "scaleUp"
                                ELSE IF down # {} THEN "scaleDown" ELSE "relist",
                         !.todo = up \union down]]
  BY DEF BeginNormal
<1>2. /\ current \in Nat /\ desired[p] \in Nat /\ asked[p] \in Nat
      /\ \A c \in Children : c[2] \in Nat
  BY ListNormalType, BoundsAssumption DEF TypeOK, Replicas, Children, Index
<1>3. UNCHANGED asked
  BY DEF BeginNormal
<1>4. \A c \in up : c[1] = p /\ c[2] < asked[p] /\ current < desired[p]
  BY <1>2 DEF ScaleUpRange, DesiredBounded
<1>5. up # {} => down = {}
  BY <1>1, <1>2, <1>4 DEF ScaleDownChoices
<1> DEFINE w == [begun EXCEPT !.pc = IF up # {} THEN "scaleUp"
                                     ELSE IF down # {} THEN "scaleDown" ELSE "relist",
                              !.todo = up \union down]
<1>6. w.todo = up \union down /\ (w.pc = "scaleUp" => up # {})
  BY DEF Idle
<1>7. work' = [work EXCEPT ![p] = w]
  BY <1>1
<1> HIDE DEF w, up, begun
<1>8. ASSUME NEW q \in Pools, work'[q].pc = "scaleUp"
      PROVE  work'[q].todo # {} /\ \A c \in work'[q].todo : c[1] = q /\ c[2] < asked[q]
  <2>1. CASE q = p
    BY <1>4, <1>5, <1>6, <1>7, <1>8, <2>1 DEF TypeOK
  <2>2. CASE q # p
    BY <1>7, <1>8, <2>2 DEF TypeOK, LoopsBounded
  <2> QED
    BY <2>1, <2>2
<1> QED
  BY <1>3, <1>8 DEF LoopsBounded

\* More may be asked for, and loops that were bounded stay so.
LEMMA AskBounded ==
    ASSUME TypeOK, CreatesBounded, NEW p \in Pools, NEW n \in Replicas, Ask(p, n), UNCHANGED work
    PROVE  DesiredBounded' /\ LoopsBounded' /\ \A q \in Pools : asked[q] <= asked'[q]
<1>1. \A q \in Pools : asked[q] \in Nat /\ desired[q] \in Nat
  BY BoundsAssumption DEF TypeOK, Replicas
<1>2. /\ Max({asked[p], n}) \in Replicas
      /\ asked[p] <= Max({asked[p], n}) /\ n <= Max({asked[p], n})
  BY LargerOf DEF TypeOK
<1>3. /\ asked' = [asked EXCEPT ![p] = Max({asked[p], n})]
      /\ desired' = [desired EXCEPT ![p] = n]
  BY DEF Ask
<1> DEFINE m == Max({asked[p], n})
<1>4. m \in Nat /\ asked[p] <= m /\ n <= m
  BY <1>2, BoundsAssumption DEF Replicas
<1>5. asked' = [asked EXCEPT ![p] = m]
  BY <1>3
<1> HIDE DEF m
<1>6. \A q \in Pools : asked[q] <= asked'[q] /\ asked'[q] \in Nat
  BY <1>1, <1>4, <1>5 DEF TypeOK
<1>7. DesiredBounded'
  BY <1>1, <1>3, <1>4, <1>5 DEF DesiredBounded, CreatesBounded, TypeOK
<1>8. LoopsBounded'
  <2> SUFFICES ASSUME NEW q \in Pools, work[q].pc = "scaleUp", NEW c \in work[q].todo
               PROVE  c[1] = q /\ c[2] < asked'[q]
    BY DEF LoopsBounded, CreatesBounded
  <2>1. c[1] = q /\ c[2] < asked[q]
    BY DEF CreatesBounded, LoopsBounded
  <2>2. c \in Children
    BY DEF TypeOK, Works
  <2>3. c[2] \in Nat
    BY <2>2, BoundsAssumption DEF Children, Index
  <2> QED
    BY <1>1, <1>6, <2>1, <2>3
<1> QED
  BY <1>6, <1>7, <1>8

LEMMA InitCreatesBounded == Init => CreatesBounded
BY DEF Init, CreatesBounded, DesiredBounded, ChildrenBounded, LoopsBounded, Idle, NoChild, Exists

\* A step of a pool's reconcile keeps the bound.
LEMMA ReconcileCreatesBounded ==
    ASSUME TypeOK, TypeOK', CreatesBounded, NEW p \in Pools, Start(p) \/ Progress(p)
    PROVE  CreatesBounded'
<1>b. DesiredBounded /\ ChildrenBounded /\ LoopsBounded
  BY CreatesParts
<1>a. UNCHANGED <<desired, asked>> /\ \A q \in Pools : asked[q] <= asked'[q]
  <2>1. UNCHANGED <<desired, asked>>
    BY DEF Start, Progress, Skip, BeginNormal, BeginDelete, ScaleUp, ScaleDown, LoopFails,
           Relist, DeleteChild, PatchSpec, PatchStatus, PatchFails
  <2>2. \A q \in Pools : asked[q] \in Nat
    BY BoundsAssumption DEF TypeOK, Replicas
  <2> QED
    BY <2>1, <2>2
<1>d. DesiredBounded'
  BY <1>a, <1>b DEF DesiredBounded
<1>w. work[p] \in Works /\ work \in [Pools -> Works]
  BY DEF TypeOK
<1>k. UNCHANGED child => ChildrenBounded'
  BY <1>a, <1>b DEF ChildrenBounded
<1>q. ASSUME NEW w, work' = [work EXCEPT ![p] = w], w.pc # "scaleUp" PROVE LoopsBounded'
  BY <1>a, <1>b, <1>q, NotScalingUp
<1>r. Retry(p) => LoopsBounded'
  <2>1. Retry(p) => work' = [work EXCEPT ![p] =
                      [work[p] EXCEPT !.pc = "patchSpec", !.todo = {}, !.again = TRUE]]
    BY <1>w DEF Retry
  <2>2. [work[p] EXCEPT !.pc = "patchSpec", !.todo = {}, !.again = TRUE].pc # "scaleUp"
    BY <1>w DEF Works
  <2> QED
    BY <1>q, <2>1, <2>2
<1>e. ASSUME NEW again, End(p, again) PROVE LoopsBounded'
  <2>1. work' = [work EXCEPT ![p] = Idle]
    BY <1>e DEF End
  <2>2. Idle.pc # "scaleUp"
    BY DEF Idle
  <2> QED
    BY <1>q, <2>1, <2>2
<1>1. CASE Skip(p)
  <2>1. LoopsBounded'
    BY <1>1, <1>b DEF Skip, LoopsBounded
  <2> QED
    BY <1>1, <1>d, <1>k, <2>1, CreatesParts DEF Skip, CreatesBounded, DesiredBounded, ChildrenBounded, LoopsBounded
<1>2. CASE BeginNormal(p)
  <2>1. LoopsBounded' /\ UNCHANGED child
    BY <1>2, <1>b, BeginBounded DEF BeginNormal
  <2> QED
    BY <1>d, <1>k, <2>1 DEF CreatesBounded, DesiredBounded, ChildrenBounded, LoopsBounded
<1>3. CASE BeginDelete(p)
  <2> DEFINE listed == ListDelete(p)
             w == [Idle EXCEPT !.pc = IF listed = {} THEN "patchSpec" ELSE "deleteChildren",
                               !.old = seen[p],
                               !.new = [seen[p] EXCEPT !.fin = listed # {}],
                               !.todo = listed,
                               !.again = listed # {}]
  <2>1. work' = [work EXCEPT ![p] = w] /\ UNCHANGED child
    BY <1>3 DEF BeginDelete
  <2>2. w.pc # "scaleUp"
    BY DEF Idle
  <2> HIDE DEF w
  <2>3. LoopsBounded'
    BY <1>q, <2>1, <2>2
  <2> QED
    BY <1>d, <1>k, <2>1, <2>3 DEF CreatesBounded, DesiredBounded, ChildrenBounded, LoopsBounded
<1>4. CASE ScaleUp(p)
  <2> DEFINE c == Lowest(work[p].todo)
  <2>1. work[p].pc = "scaleUp" /\ Done(p, c, "relist") /\ (UNCHANGED child \/ Create(p, c))
    BY <1>4 DEF ScaleUp
  <2>2. LoopsBounded'
    BY <1>a, <1>b, <2>1, DoneBounded DEF PCs
  <2>3. ChildrenBounded'
    BY <1>a, <1>b, <1>k, <2>1, CreateBounded
  <2> QED
    BY <1>d, <2>2, <2>3 DEF CreatesBounded, DesiredBounded, ChildrenBounded, LoopsBounded
<1>5. CASE ScaleDown(p) \/ DeleteChild(p)
  <2>1. PICK c \in work[p].todo, pc \in {"relist", "patchSpec"} :
          child' = [child EXCEPT ![c] = Deleted(@)] /\ Done(p, c, pc)
    BY <1>5 DEF ScaleDown, DeleteChild
  <2>2. LoopsBounded'
    BY <1>a, <1>b, <2>1, DoneBounded DEF PCs
  <2>3. ChildrenBounded'
    BY <1>a, <1>b, <2>1, DeletedIsOld, NoNewChild
  <2> QED
    BY <1>d, <2>2, <2>3 DEF CreatesBounded, DesiredBounded, ChildrenBounded, LoopsBounded
<1>6. CASE LoopFails(p)
  <2>1. ASSUME work[p].pc = "scaleUp", UNCHANGED child \/ Create(p, Lowest(work[p].todo))
        PROVE  ChildrenBounded'
    BY <1>a, <1>b, <1>k, <2>1, CreateBounded
  <2>2. ASSUME \E c \in work[p].todo : child' \in {child, [child EXCEPT ![c] = Deleted(@)]}
        PROVE  ChildrenBounded'
    BY <1>a, <1>b, <1>k, <2>2, DeletedIsOld, NoNewChild
  <2>3. ChildrenBounded' /\ LoopsBounded'
    BY <1>6, <1>r, <2>1, <2>2 DEF LoopFails
  <2> QED
    BY <1>d, <2>3 DEF CreatesBounded, DesiredBounded, ChildrenBounded, LoopsBounded
<1>7. CASE Relist(p)
  <2>1. work'[p].pc = "patchSpec" /\ \A q \in Pools \ {p} : work'[q] = work[q]
    BY <1>7, <1>w DEF Relist, Works
  <2>2. LoopsBounded'
    BY <1>a, <1>b, <2>1 DEF LoopsBounded
  <2> QED
    BY <1>7, <1>d, <1>k, <2>2 DEF Relist, CreatesBounded, DesiredBounded, ChildrenBounded, LoopsBounded
<1>8. CASE PatchSpec(p)
  <2>1. work'[p].pc = "patchStatus" /\ \A q \in Pools \ {p} : work'[q] = work[q]
    BY <1>8, <1>w DEF PatchSpec, Works
  <2>2. LoopsBounded'
    BY <1>a, <1>b, <2>1 DEF LoopsBounded
  <2>3. ChildrenBounded'
    BY <1>8, <1>a, <1>b, <1>k, StoredIsOld, NoNewChild DEF PatchSpec
  <2> QED
    BY <1>d, <2>2, <2>3 DEF CreatesBounded, DesiredBounded, ChildrenBounded, LoopsBounded
<1>9. CASE PatchStatus(p)
  <2>1. LoopsBounded' /\ UNCHANGED child
    BY <1>9, <1>e DEF PatchStatus
  <2> QED
    BY <1>d, <1>k, <2>1 DEF CreatesBounded, DesiredBounded, ChildrenBounded, LoopsBounded
<1>10. CASE PatchFails(p)
  <2>1. [work[p] EXCEPT !.pc = "patchStatus", !.again = TRUE].pc # "scaleUp"
    BY <1>w DEF Works
  <2>2. work' = [work EXCEPT ![p].pc = "patchStatus", ![p].again = TRUE] => LoopsBounded'
    BY <1>q, <1>w, <2>1
  <2>3. LoopsBounded'
    BY <1>10, <1>e, <2>2 DEF PatchFails
  <2>4. ChildrenBounded'
    <3>1. UNCHANGED child \/ \E o \in {SpecMerged(pool[p], work[p])} : Store(p, o)
      BY <1>10 DEF PatchFails
    <3> QED
      BY <1>a, <1>b, <1>k, <3>1, StoredIsOld, NoNewChild
  <2> QED
    BY <1>d, <2>3, <2>4 DEF CreatesBounded, DesiredBounded, ChildrenBounded, LoopsBounded
<1> QED
  BY <1>1, <1>2, <1>3, <1>4, <1>5, <1>6, <1>7, <1>8, <1>9, <1>10 DEF Start, Progress

\* So does everything else: a child deleted or gone was below the bound, and
\* only a larger bound is ever asked for.
LEMMA OtherCreatesBounded ==
    ASSUME TypeOK, TypeOK', CreatesBounded,
           \/ \E p \in Pools : \/ SyncPool(p) \/ Resync(p) \/ CreatePool(p)
                               \/ Pause(p) \/ Unpause(p)
                               \/ SetReplicas(p) \/ DeletePool(p)
           \/ \E c \in Children : Sync(c) \/ Advance(c) \/ LoseChild(c) \/ Collect(c)
           \/ Restart \/ UNCHANGED vars
    PROVE  CreatesBounded'
<1>b. DesiredBounded /\ ChildrenBounded /\ LoopsBounded
  BY CreatesParts
<1>p. DesiredBounded' /\ ChildrenBounded' /\ LoopsBounded' => CreatesBounded'
  BY DEF CreatesBounded, DesiredBounded, ChildrenBounded, LoopsBounded
<1>n. \A q \in Pools : asked[q] <= asked[q]
  BY BoundsAssumption DEF TypeOK, Replicas
<1>1. ASSUME UNCHANGED <<desired, asked, work>>,
             \A c \in Children : Exists(child'[c]) => Exists(child[c])
      PROVE  CreatesBounded'
  <2>1. ChildrenBounded'
    BY <1>1, <1>b, <1>n, NoNewChild
  <2>2. DesiredBounded' /\ LoopsBounded'
    BY <1>1, <1>b DEF DesiredBounded, LoopsBounded
  <2> QED
    BY <1>p, <2>1, <2>2
<1>2. ASSUME NEW p \in Pools, SyncPool(p) \/ Resync(p) \/ Pause(p) \/ Unpause(p) PROVE CreatesBounded'
  BY <1>1, <1>2 DEF SyncPool, Resync, Pause, Unpause
<1>3. ASSUME NEW p \in Pools, CreatePool(p) \/ SetReplicas(p) PROVE CreatesBounded'
  <2>1. PICK n \in Replicas : Ask(p, n)
    BY <1>3, BoundsAssumption DEF CreatePool, SetReplicas, Replicas
  <2>2. UNCHANGED <<child, work>>
    BY <1>3 DEF CreatePool, SetReplicas
  <2>3. DesiredBounded' /\ LoopsBounded' /\ \A q \in Pools : asked[q] <= asked'[q]
    BY <2>1, <2>2, AskBounded
  <2>4. ChildrenBounded'
    BY <1>b, <2>2, <2>3, NoNewChild
  <2> QED
    BY <1>p, <2>3, <2>4
<1>4. ASSUME NEW p \in Pools, DeletePool(p) PROVE CreatesBounded'
  BY <1>1, <1>4, StoredIsOld DEF DeletePool
<1>5. ASSUME NEW c \in Children, Sync(c) PROVE CreatesBounded'
  BY <1>1, <1>5 DEF Sync
<1>6. ASSUME NEW c \in Children, LoseChild(c) \/ Collect(c) PROVE CreatesBounded'
  BY <1>1, <1>6, DeletedIsOld DEF LoseChild, Collect
<1>7. ASSUME NEW c \in Children, Advance(c) PROVE CreatesBounded'
  <2>1. \A d \in Children : Exists(child'[d]) => Exists(child[d])
    BY <1>7 DEF Advance, TypeOK, Exists, NoChild
  <2> QED
    BY <1>1, <1>7, <2>1 DEF Advance
<1>8. CASE Restart
  <2>1. LoopsBounded'
    BY <1>8 DEF Restart, LoopsBounded, Idle
  <2>2. DesiredBounded' /\ ChildrenBounded'
    BY <1>8, <1>b DEF Restart, DesiredBounded, ChildrenBounded
  <2> QED
    BY <1>p, <2>1, <2>2
<1>9. CASE UNCHANGED vars
  BY <1>1, <1>9 DEF vars
<1> QED
  BY <1>2, <1>3, <1>4, <1>5, <1>6, <1>7, <1>8, <1>9

\* The part of Bounded about the informer's copy and what a scale-down deletes.
CacheBounded == \A c \in Children : Exists(cache[c]) => c[2] < asked[c[1]]

Cut(p, w) ==
    w.pc = "scaleDown" =>
        /\ \A c \in w.todo : c[1] = p
        /\ Cardinality(w.todo) + w.target <= asked[p]

CutsBounded == \A p \in Pools : Cut(p, work[p])

LEMMA BoundedParts == Bounded <=> CreatesBounded /\ CacheBounded /\ CutsBounded
BY DEF Bounded, CreatesBounded, DesiredBounded, ChildrenBounded, LoopsBounded,
       CacheBounded, CutsBounded, Cut

LEMMA InitBounded == Init => Bounded
<1>1. Init => CacheBounded /\ CutsBounded
  BY DEF Init, CacheBounded, CutsBounded, Cut, Idle, NoChild, Exists
<1> QED
  BY <1>1, InitCreatesBounded, BoundedParts

\* Nobody is asked for less than before.
LEMMA AskedGrows ==
    ASSUME TypeOK, CreatesBounded, [Next]_vars
    PROVE  \A p \in Pools : /\ asked[p] \in Nat /\ asked'[p] \in Nat
                            /\ asked[p] <= asked'[p]
<1>1. \A p \in Pools : asked[p] \in Nat
  BY BoundsAssumption DEF TypeOK, Replicas
<1>2. \A p \in Pools : asked'[p] \in Nat
  BY StepTypeOK, BoundsAssumption DEF TypeOK, Replicas
<1>3. CASE UNCHANGED asked
  BY <1>1, <1>3
<1>4. ASSUME NEW p \in Pools, CreatePool(p) \/ SetReplicas(p)
      PROVE  \A q \in Pools : asked[q] <= asked'[q]
  <2>1. PICK n \in Replicas : Ask(p, n)
    BY <1>4, BoundsAssumption DEF CreatePool, SetReplicas, Replicas
  <2>2. UNCHANGED work
    BY <1>4 DEF CreatePool, SetReplicas
  <2> QED
    BY <2>1, <2>2, AskBounded
<1>5. CASE \E p \in Pools : CreatePool(p) \/ SetReplicas(p)
  BY <1>1, <1>2, <1>4, <1>5
<1>6. UNCHANGED asked \/ \E p \in Pools : CreatePool(p) \/ SetReplicas(p)
  BY DEF Next, vars, Start, Progress, Skip, BeginNormal, BeginDelete, ScaleUp, ScaleDown,
         LoopFails, Relist, DeleteChild, PatchSpec, PatchStatus, PatchFails, SyncPool, Resync,
         Pause, Unpause, DeletePool, Sync, Advance, LoseChild, Collect, Restart
<1> QED
  BY <1>3, <1>5, <1>6

\* What the informer shows next is what is stored.
LEMMA CacheStep ==
    ASSUME TypeOK, CreatesBounded, CacheBounded, [Next]_vars
    PROVE  CacheBounded'
<1> SUFFICES ASSUME NEW c \in Children, Exists(cache'[c]) PROVE c[2] < asked'[c[1]]
  BY DEF CacheBounded, Exists
<1>1. c[1] \in Pools /\ c[2] \in Nat
  BY BoundsAssumption DEF Children, Index
<1>2. cache'[c] \in {cache[c], child[c]}
  <2>1. CASE UNCHANGED cache
    BY <2>1
  <2>2. CASE \E d \in Children : Sync(d)
    BY <2>2 DEF Sync, TypeOK
  <2>3. CASE Restart
    BY <2>3 DEF Restart
  <2>4. UNCHANGED cache \/ Restart \/ \E d \in Children : Sync(d)
    BY DEF Next, vars, Start, Progress, Skip, BeginNormal, BeginDelete, ScaleUp, ScaleDown,
           LoopFails, Relist, DeleteChild, PatchSpec, PatchStatus, PatchFails, SyncPool, Resync,
           CreatePool, SetReplicas, Pause, Unpause, DeletePool, Advance, LoseChild, Collect
  <2> QED
    BY <2>1, <2>2, <2>3, <2>4
<1>3. c[2] < asked[c[1]]
  BY <1>2, CreatesParts DEF CacheBounded, ChildrenBounded, Exists
<1> QED
  BY <1>1, <1>3, AskedGrows

\* A scale-down starts from a list of at most as many children as the pool was
\* ever asked for, and cuts it down to its target.
LEMMA BeginCut ==
    ASSUME TypeOK, CacheBounded, NEW p \in Pools, BeginNormal(p)
    PROVE  Cut(p, work'[p])
<1> DEFINE current == Cardinality(ListNormal(p))
           up == ScaleUpRange(p, current, desired[p])
           begun == [Idle EXCEPT !.old = seen[p], !.new = [seen[p] EXCEPT !.fin = TRUE],
                                 !.target = desired[p]]
<1>1. PICK down \in ScaleDownChoices(p, current, desired[p]) :
        work' = [work EXCEPT ![p] =
           [begun EXCEPT !.pc = IF up # {} THEN "scaleUp"
                                ELSE IF down # {} THEN "scaleDown" ELSE "relist",
                         !.todo = up \union down]]
  BY DEF BeginNormal
<1>2. /\ work'[p].pc = IF up # {} THEN "scaleUp"
                       ELSE IF down # {} THEN "scaleDown" ELSE "relist"
      /\ work'[p].todo = up \union down
      /\ work'[p].target = desired[p]
  BY <1>1 DEF TypeOK, Idle
<1>3. desired[p] \in Nat /\ asked[p] \in Nat
  BY BoundsAssumption DEF TypeOK, Replicas
<1>4. current \in 0 .. asked[p]
  <2>1. \A c \in ListNormal(p) : c[1] = p /\ c[2] < asked[p]
    BY DEF ListNormal, CacheBounded
  <2>2. ListNormal(p) \in SUBSET Children
    BY DEF ListNormal
  <2> QED
    BY <1>3, <2>1, <2>2, ChildrenBelow
<1> SUFFICES ASSUME up = {}, down # {} PROVE Cut(p, work'[p])
  BY <1>2 DEF Cut
<1>5. /\ current > desired[p]
      /\ down \in SUBSET ListNormal(p)
      /\ Cardinality(down) = current - desired[p]
  BY <1>1 DEF ScaleDownChoices, kSubset
<1>6. \A c \in down : c[1] = p
  BY <1>5 DEF ListNormal
<1>7. work'[p].todo = down
  BY <1>2
<1> HIDE DEF up, current
<1> QED
  BY <1>2, <1>3, <1>4, <1>5, <1>6, <1>7 DEF Cut

\* A round of a loop leaves less to delete.
LEMMA DoneCut ==
    ASSUME TypeOK, NEW p \in Pools, NEW c, NEW pc \in PCs, pc # "scaleDown",
           Cut(p, work[p]), Done(p, c, pc), asked[p] \in Nat, UNCHANGED asked
    PROVE  Cut(p, work'[p])
<1> DEFINE rest == work[p].todo \ {c}
<1>w. /\ work[p] \in Works /\ work \in [Pools -> Works]
      /\ work[p].todo \in SUBSET Children /\ work[p].target \in Nat
  BY BoundsAssumption DEF TypeOK, Works, Replicas
<1>1. /\ work'[p].todo = rest
      /\ work'[p].target = work[p].target
      /\ work'[p].pc = IF rest = {} THEN pc ELSE work[p].pc
  BY <1>w DEF Done, Works
<1> SUFFICES ASSUME work[p].pc = "scaleDown", rest # {} PROVE Cut(p, work'[p])
  BY <1>1 DEF Cut
<1>2. /\ \A d \in work[p].todo : d[1] = p
      /\ Cardinality(work[p].todo) + work[p].target <= asked[p]
  BY DEF Cut
<1>3. IsFiniteSet(work[p].todo)
  <2>1. \A d \in work[p].todo : d[1] = p /\ d[2] < MaxReplicas
    BY <1>w, <1>2, BoundsAssumption DEF Children, Index
  <2> QED
    BY <1>w, <2>1, ChildrenBelow, BoundsAssumption
<1>4. /\ Cardinality(rest) \in Nat /\ Cardinality(work[p].todo) \in Nat
      /\ Cardinality(rest) <= Cardinality(work[p].todo)
  BY <1>3, FS_Subset, FS_CardinalityType
<1>5. \A d \in rest : d[1] = p
  BY <1>2
<1> HIDE DEF rest
<1> QED
  BY <1>w, <1>1, <1>2, <1>4, <1>5 DEF Cut

\* No other step of a reconcile enters the scale-down, and no other step at all
\* changes one that is under way.
LEMMA CutsStep ==
    ASSUME TypeOK, CreatesBounded, CacheBounded, CutsBounded, [Next]_vars
    PROVE  CutsBounded'
<1>a. \A q \in Pools : asked[q] \in Nat /\ asked'[q] \in Nat /\ asked[q] <= asked'[q]
  BY AskedGrows
<1>w. /\ work \in [Pools -> Works]
      /\ \A q \in Pools : work[q] \in Works
  BY DEF TypeOK
<1>1. ASSUME NEW q \in Pools, work'[q] = work[q] PROVE Cut(q, work[q])'
  <2>1. Cut(q, work[q])
    BY DEF CutsBounded
  <2> SUFFICES ASSUME work[q].pc = "scaleDown" PROVE Cut(q, work[q])'
    BY <1>1 DEF Cut
  <2>2. work[q].todo \in SUBSET Children /\ work[q].target \in Nat
    BY <1>w, BoundsAssumption DEF Works, Replicas
  <2>3. /\ \A d \in work[q].todo : d[1] = q
        /\ Cardinality(work[q].todo) + work[q].target <= asked[q]
    BY <2>1 DEF Cut
  <2>4. \A d \in work[q].todo : d[1] = q /\ d[2] < MaxReplicas
    BY <2>2, <2>3, BoundsAssumption DEF Children, Index
  <2>5. Cardinality(work[q].todo) \in Nat
    BY <2>2, <2>4, ChildrenBelow, BoundsAssumption
  <2> QED
    BY <1>1, <1>a, <2>2, <2>3, <2>5 DEF Cut
<1>2. ASSUME NEW p \in Pools, Start(p) \/ Progress(p) PROVE Cut(p, work[p])'
  <2>u. UNCHANGED asked
    BY <1>2 DEF Start, Progress, Skip, BeginNormal, BeginDelete, ScaleUp, ScaleDown,
       LoopFails, Relist, DeleteChild, PatchSpec, PatchStatus, PatchFails
  <2>c. Cut(p, work[p])
    BY DEF CutsBounded
  <2>q. work'[p].pc # "scaleDown" => Cut(p, work[p])'
    BY DEF Cut
  <2>1. CASE Skip(p)
    BY <1>1, <2>1 DEF Skip
  <2>2. CASE BeginNormal(p)
    <3>1. Cut(p, work'[p])
      BY <2>2, BeginCut
    <3> QED
      BY <2>u, <3>1 DEF Cut
  <2>3. CASE ScaleUp(p) \/ ScaleDown(p) \/ DeleteChild(p)
    <3>1. ASSUME NEW c, NEW pc \in {"relist", "patchSpec"}, Done(p, c, pc)
          PROVE  Cut(p, work'[p])
      BY <1>a, <2>c, <2>u, <3>1, DoneCut DEF PCs
    <3>2. Cut(p, work'[p])
      <4>1. ScaleUp(p) => Done(p, Lowest(work[p].todo), "relist")
        BY DEF ScaleUp
      <4>2. ScaleDown(p) => \E c : Done(p, c, "relist")
        BY DEF ScaleDown
      <4>3. DeleteChild(p) => \E c : Done(p, c, "patchSpec")
        BY DEF DeleteChild
      <4> QED
        BY <2>3, <3>1, <4>1, <4>2, <4>3
    <3> QED
      BY <2>u, <3>2 DEF Cut
  <2>4. CASE \/ BeginDelete(p) \/ LoopFails(p) \/ Relist(p)
             \/ PatchSpec(p) \/ PatchStatus(p) \/ PatchFails(p)
    <3>1. work'[p].pc \in {"deleteChildren", "patchSpec", "patchStatus", "idle"}
      <4>1. Retry(p) => work'[p].pc = "patchSpec"
        BY <1>w DEF Retry, Works
      <4>2. \A again : End(p, again) => work'[p].pc = "idle"
        BY <1>w DEF End, Idle
      <4>3. BeginDelete(p) => work'[p].pc \in {"deleteChildren", "patchSpec"}
        BY <1>w DEF BeginDelete, Idle
      <4>4. ASSUME Relist(p) PROVE work'[p].pc = "patchSpec"
        <5>1. work[p] \in Works
          BY <1>w
        <5> QED
          BY <1>w, <4>4, <5>1 DEF Relist, Works
      <4>5. PatchSpec(p) => work'[p].pc = "patchStatus"
        BY <1>w DEF PatchSpec, Works
      <4>6. PatchFails(p) => work'[p].pc \in {"patchStatus", "idle"}
        BY <1>w, <4>2 DEF PatchFails, Works
      <4>7. LoopFails(p) => Retry(p)
        BY DEF LoopFails
      <4>8. PatchStatus(p) => \E again : End(p, again)
        BY DEF PatchStatus
      <4> QED
        BY <2>4, <4>1, <4>2, <4>3, <4>4, <4>5, <4>6, <4>7, <4>8
    <3> QED
      BY <2>q, <3>1
  <2> QED
    BY <1>2, <2>1, <2>2, <2>3, <2>4 DEF Start, Progress
<1>3. ASSUME NEW p \in Pools, Start(p) \/ Progress(p), NEW q \in Pools \ {p}
      PROVE  work'[q] = work[q]
  BY <1>3, <1>w DEF Start, Progress, Skip, BeginNormal, BeginDelete, ScaleUp, ScaleDown,
     LoopFails, Relist, DeleteChild, PatchSpec, PatchStatus, PatchFails, Done, Retry, End
<1>4. CASE \E p \in Pools : Start(p) \/ Progress(p)
  <2> PICK p \in Pools : Start(p) \/ Progress(p)
    BY <1>4
  <2>1. \A q \in Pools : Cut(q, work[q])'
    BY <1>1, <1>2, <1>3
  <2> QED
    BY <2>1 DEF CutsBounded
<1>5. CASE Restart
  <2>1. \A q \in Pools : work'[q].pc = "idle"
    BY <1>5 DEF Restart, Idle
  <2> QED
    BY <2>1 DEF CutsBounded, Cut
<1>6. CASE UNCHANGED work
  BY <1>1, <1>6 DEF CutsBounded
<1>7. UNCHANGED work \/ Restart \/ \E p \in Pools : Start(p) \/ Progress(p)
  BY DEF Next, vars, SyncPool, Resync, CreatePool, SetReplicas, Pause, Unpause, DeletePool,
         Sync, Advance, LoseChild, Collect
<1> QED
  BY <1>4, <1>5, <1>6, <1>7

\* The inductive invariant of the pool: no index at or above what the pool was
\* asked for is created, whatever is counted or retried, and none is shown.
THEOREM InductiveInvariant == Spec => [](TypeOK /\ Bounded)
<1>1. Init => TypeOK /\ Bounded
  BY InitTypeOK, InitBounded
<1>2. TypeOK /\ Bounded /\ [Next]_vars => TypeOK' /\ Bounded'
  <2> SUFFICES ASSUME TypeOK, Bounded, [Next]_vars PROVE TypeOK' /\ Bounded'
    OBVIOUS
  <2>1. TypeOK'
    BY StepTypeOK
  <2>2. CreatesBounded /\ CacheBounded /\ CutsBounded
    BY BoundedParts
  <2>3. CreatesBounded'
    BY <2>1, <2>2, ReconcileCreatesBounded, OtherCreatesBounded DEF Next
  <2>4. CacheBounded' /\ CutsBounded'
    BY <2>2, CacheStep, CutsStep
  <2>5. CreatesBounded' /\ CacheBounded' /\ CutsBounded' => Bounded'
    BY DEF Bounded, CreatesBounded, DesiredBounded, ChildrenBounded, LoopsBounded,
           CacheBounded, CutsBounded, Cut
  <2> QED
    BY <2>1, <2>3, <2>4, <2>5
<1> QED
  BY <1>1, <1>2, PTL DEF Spec

\* A pool never has more children than it was ever asked for: they are
\* distinct indices below that number.
THEOREM PoolNeverOvershoots == Spec => []NeverOvershoots
<1>1. TypeOK /\ Bounded => NeverOvershoots
  <2> SUFFICES ASSUME TypeOK, Bounded, NEW p \in Pools
               PROVE  Cardinality(ChildrenOf(p)) <= asked[p]
    BY DEF NeverOvershoots
  <2>1. asked[p] \in Nat
    BY BoundsAssumption DEF TypeOK, Replicas
  <2>2. /\ ChildrenOf(p) \in SUBSET Children
        /\ \A c \in ChildrenOf(p) : c[1] = p /\ c[2] < asked[p]
    BY DEF ChildrenOf, Bounded
  <2>3. Cardinality(ChildrenOf(p)) \in 0 .. asked[p]
    BY <2>1, <2>2, ChildrenBelow
  <2> QED
    BY <2>1, <2>3
<1> QED
  BY <1>1, InductiveInvariant, PTL
\* However stale its list, a scale-down sets out to delete no more than what the
\* pool was ever asked for beyond the target.
THEOREM ScaleDownIsBounded == Spec => []ScaleDownBounded
<1>1. Bounded => ScaleDownBounded
  BY DEF Bounded, ScaleDownBounded
<1> QED
  BY <1>1, InductiveInvariant, PTL
(***************************************************************************)
(* No child out of reach                                                    *)
(***************************************************************************)

\* The loops of a reconcile run over children in its reach.
LoopsInReach == \A p \in Pools : work[p].todo \subseteq Reach(p)

\* What a reconcile lists is in its reach.
LEMMA BeginInReach ==
    ASSUME TypeOK, LoopsInReach, NEW p \in Pools, Start(p)
    PROVE  work'[p].todo \subseteq Reach(p)
<1>w. work \in [Pools -> Works]
  BY DEF TypeOK
<1>1. CASE Skip(p)
  BY <1>1 DEF Skip, LoopsInReach
<1>2. CASE BeginNormal(p)
  <2> DEFINE current == Cardinality(ListNormal(p))
             up == ScaleUpRange(p, current, desired[p])
             begun == [Idle EXCEPT !.old = seen[p], !.new = [seen[p] EXCEPT !.fin = TRUE],
                                   !.target = desired[p]]
  <2>1. PICK down \in ScaleDownChoices(p, current, desired[p]) :
          work' = [work EXCEPT ![p] =
             [begun EXCEPT !.pc = IF up # {} THEN "scaleUp"
                                  ELSE IF down # {} THEN "scaleDown" ELSE "relist",
                           !.todo = up \union down]]
    BY <1>2 DEF BeginNormal
  <2>2. work'[p].todo = up \union down
    BY <1>w, <2>1 DEF Idle
  <2>3. up \subseteq Reach(p)
    BY DEF ScaleUpRange, Reach
  <2>4. down \subseteq ListNormal(p)
    BY <2>1 DEF ScaleDownChoices, kSubset
  <2> QED
    BY <2>2, <2>3, <2>4 DEF ListNormal, Reach
<1>3. CASE BeginDelete(p)
  <2>1. work'[p].todo = ListDelete(p)
    BY <1>w, <1>3 DEF BeginDelete, Idle
  <2> QED
    BY <2>1 DEF ListDelete, Reach
<1> QED
  BY <1>1, <1>2, <1>3 DEF Start

\* From then on the list only gets shorter.
LEMMA ProgressInReach ==
    ASSUME TypeOK, LoopsInReach, NEW p \in Pools, Progress(p)
    PROVE  work'[p].todo \subseteq Reach(p)
<1>w. work[p] \in Works /\ work \in [Pools -> Works]
  BY DEF TypeOK
<1>t. work[p].todo \subseteq Reach(p)
  BY DEF LoopsInReach
<1>d. ASSUME NEW c, NEW pc, Done(p, c, pc) PROVE work'[p].todo \subseteq Reach(p)
  <2> DEFINE rest == work[p].todo \ {c}
  <2>1. work'[p].todo = rest
    BY <1>w, <1>d DEF Done, Works
  <2> QED
    BY <1>t, <2>1
<1>r. Retry(p) => work'[p].todo = {}
  BY <1>w DEF Retry, Works
<1>e. ASSUME NEW again, End(p, again) PROVE work'[p].todo = {}
  BY <1>e, <1>w DEF End, Idle
<1>1. ScaleUp(p) => Done(p, Lowest(work[p].todo), "relist")
  BY DEF ScaleUp
<1>2. ScaleDown(p) => \E c : Done(p, c, "relist")
  BY DEF ScaleDown
<1>3. DeleteChild(p) => \E c : Done(p, c, "patchSpec")
  BY DEF DeleteChild
<1>4. LoopFails(p) => Retry(p)
  BY DEF LoopFails
<1>5. ASSUME Relist(p) \/ PatchSpec(p) PROVE work'[p].todo = work[p].todo
  <2>1. CASE Relist(p)
    BY <1>w, <2>1 DEF Relist, Works
  <2>2. CASE PatchSpec(p)
    BY <1>w, <2>2 DEF PatchSpec, Works
  <2> QED
    BY <1>5, <2>1, <2>2
<1>6. PatchStatus(p) => \E again : End(p, again)
  BY DEF PatchStatus
<1>7. ASSUME PatchFails(p) PROVE work'[p].todo \in {work[p].todo, {}}
  <2>1. CASE work' = [work EXCEPT ![p].pc = "patchStatus", ![p].again = TRUE]
    BY <1>w, <2>1 DEF Works
  <2> QED
    BY <1>7, <1>e, <2>1 DEF PatchFails
<1> QED
  BY <1>t, <1>d, <1>r, <1>e, <1>1, <1>2, <1>3, <1>4, <1>5, <1>6, <1>7 DEF Progress

LEMMA StepInReach == TypeOK /\ LoopsInReach /\ [Next]_vars => LoopsInReach'
<1> SUFFICES ASSUME TypeOK, LoopsInReach, [Next]_vars, NEW q \in Pools
             PROVE  work'[q].todo \subseteq Reach(q)
  BY DEF LoopsInReach, Reach
<1>w. work \in [Pools -> Works]
  BY DEF TypeOK
<1>1. ASSUME NEW p \in Pools, Start(p) \/ Progress(p), q # p
      PROVE  work'[q] = work[q]
  BY <1>1, <1>w DEF Start, Progress, Skip, BeginNormal, BeginDelete, ScaleUp, ScaleDown,
     LoopFails, Relist, DeleteChild, PatchSpec, PatchStatus, PatchFails, Done, Retry, End
<1>2. CASE \E p \in Pools : Start(p) \/ Progress(p)
  BY <1>1, <1>2, BeginInReach, ProgressInReach DEF LoopsInReach
<1>3. CASE Restart
  BY <1>3 DEF Restart, Idle
<1>4. CASE UNCHANGED work
  BY <1>4 DEF LoopsInReach
<1>5. UNCHANGED work \/ Restart \/ \E p \in Pools : Start(p) \/ Progress(p)
  BY DEF Next, vars, SyncPool, Resync, CreatePool, SetReplicas, Pause, Unpause, DeletePool,
         Sync, Advance, LoseChild, Collect
<1> QED
  BY <1>2, <1>3, <1>4, <1>5

\* The child that a step of a reconcile creates, deletes or orphans is one of the
\* loop's list, or of a pool that goes.
LEMMA TouchesInReach ==
    ASSUME TypeOK, Bounded, LoopsInReach, NEW p \in Pools, Progress(p),
           NEW c \in Children \ Reach(p)
    PROVE  child'[c] = child[c]
<1>t. c \notin work[p].todo /\ c[1] # p
  BY DEF LoopsInReach, Reach
<1>c. child \in [Children -> ChildObjects]
  BY DEF TypeOK
<1>l. work[p].pc = "scaleUp" => Lowest(work[p].todo) \in work[p].todo
  BY LowestExists DEF Bounded, TypeOK, Works
<1>n. ASSUME NEW d, d # c, Create(p, d) PROVE child'[c] = child[c]
  BY <1>n, <1>c DEF Create
<1>d. ASSUME NEW d, d # c, child' = [child EXCEPT ![d] = Deleted(@)]
      PROVE  child'[c] = child[c]
  BY <1>d, <1>c
<1>1. CASE ScaleUp(p)
  BY <1>1, <1>t, <1>l, <1>n DEF ScaleUp
<1>2. CASE ScaleDown(p) \/ DeleteChild(p)
  BY <1>2, <1>t, <1>d DEF ScaleDown, DeleteChild
<1>3. CASE LoopFails(p)
  BY <1>3, <1>t, <1>l, <1>n, <1>d DEF LoopFails
<1>4. CASE PatchSpec(p) \/ PatchFails(p)
  <2>1. ASSUME NEW o, Store(p, o) PROVE child'[c] = child[c]
    BY <2>1, <1>t, <1>c DEF Store
  <2> QED
    BY <1>4, <2>1 DEF PatchSpec, PatchFails
<1>5. CASE Relist(p) \/ PatchStatus(p)
  BY <1>5 DEF Relist, PatchStatus
<1> QED
  BY <1>1, <1>2, <1>3, <1>4, <1>5 DEF Progress

\* A reconcile never creates, deletes or orphans a child out of its reach: one of
\* a pool whose MachinePool does not have the name of this KwokMachinePool.
THEOREM ReconcileStaysInReach == Spec => StaysInReach
<1>1. Init => LoopsInReach
  BY DEF Init, LoopsInReach, Idle
<1>2. TypeOK /\ Bounded /\ LoopsInReach /\ [Next]_vars =>
        [\A p \in Pools : \A c \in Children \ Reach(p) : Progress(p) => child'[c] = child[c]]_vars
  BY TouchesInReach
<1> QED
  BY <1>1, <1>2, StepInReach, InductiveInvariant, PTL DEF Spec, StaysInReach
=============================================================================
