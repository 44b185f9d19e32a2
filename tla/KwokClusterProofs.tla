-------------------------- MODULE KwokClusterProofs --------------------------
(***************************************************************************)
(* Proofs about KwokCluster, for any set of KwokClusters whatever their      *)
(* specs, and any number of changes, endpoints and failures: no KwokCluster  *)
(* that is not Ready is forgotten, and no endpoint goes back.                *)
(***************************************************************************)
EXTENDS KwokCluster, TLAPS

-----------------------------------------------------------------------------
(***************************************************************************)
(* Types                                                                    *)
(***************************************************************************)

\* The objects the module starts from, and what is done to them.
LEMMA ObjectTypes ==
    /\ Gone \in KwokClusters /\ NoControlPlane \in ControlPlanes
    /\ \A spec \in Specs : Fresh(spec) \in KwokClusters
    /\ \A o \in KwokClusters :
          /\ [o EXCEPT !.owned = TRUE] \in KwokClusters
          /\ [o EXCEPT !.held = ~@] \in KwokClusters
          /\ [o EXCEPT !.ready = TRUE] \in KwokClusters
          /\ \A n \in Nat : [o EXCEPT !.ep = n] \in KwokClusters
          /\ \A spec \in Specs : [o EXCEPT !.spec = spec] \in KwokClusters
BY DEF Gone, Fresh, KwokClusters, NoControlPlane, ControlPlanes, Specs

\* A reconcile is of its type wherever it goes on.
LEMMA WorkTypes ==
    ASSUME NEW w \in Works, NEW b \in BOOLEAN
    PROVE  /\ w # Idle /\ w.name \in Clusters /\ w.old \in KwokClusters /\ w.ep \in Nat
           /\ w.failed \in BOOLEAN /\ w.again \in BOOLEAN
           /\ [w EXCEPT !.again = b] \in Works
           /\ [w EXCEPT !.pc = "wait"] \in Works
           /\ [w EXCEPT !.pc = "patchStatus", !.failed = b] \in Works
           /\ \A n \in Nat : [w EXCEPT !.pc = "patchSpec", !.ep = n] \in Works
<1>1. w.pc # "idle" /\ Idle.pc = "idle"
  BY DEF Works, Idle
<1>2. /\ w.name \in Clusters /\ w.old \in KwokClusters /\ w.ep \in Nat
      /\ w.failed \in BOOLEAN /\ w.again \in BOOLEAN
  BY DEF Works
<1>3. [w EXCEPT !.again = b] \in Works
  BY DEF Works
<1>4. [w EXCEPT !.pc = "wait"] \in Works
  BY DEF Works
<1>5. [w EXCEPT !.pc = "patchStatus", !.failed = b] \in Works
  BY DEF Works
<1>6. ASSUME NEW n \in Nat PROVE [w EXCEPT !.pc = "patchSpec", !.ep = n] \in Works
  BY DEF Works
<1> QED
  BY <1>1, <1>2, <1>3, <1>4, <1>5, <1>6

\* The queue's part of the types: nobody is queued twice, or queued and in a
\* reconcile.
QueueOK ==
    /\ queue \in Seq(Clusters)
    /\ \A i, j \in DOMAIN queue : queue[i] = queue[j] => i = j
    /\ coming \in SUBSET Clusters
    /\ work \in Works \union {Idle}
    /\ work # Idle => work.name \notin Queued

\* What is appended to the queue.
LEMMA Appended ==
    ASSUME QueueOK, NEW c \in Clusters, c \notin Queued, queue' = Append(queue, c)
    PROVE  /\ queue' \in Seq(Clusters)
           /\ \A i, j \in DOMAIN queue' : queue'[i] = queue'[j] => i = j
           /\ Queued' = Queued \union {c}
<1>1. /\ DOMAIN queue = 1 .. Len(queue) /\ Len(queue) \in Nat
      /\ DOMAIN queue' = 1 .. Len(queue) + 1
      /\ queue'[Len(queue) + 1] = c
      /\ \A i \in DOMAIN queue : queue'[i] = queue[i] /\ i \in DOMAIN queue' /\ queue[i] # c
      /\ queue' \in Seq(Clusters)
  BY DEF QueueOK, Queued
<1>2. \A i \in DOMAIN queue' : i \in DOMAIN queue \/ i = Len(queue) + 1
  BY <1>1
<1>3. Queued' = Queued \union {c}
  BY <1>1, <1>2 DEF Queued
<1>4. \A i, j \in DOMAIN queue' : queue'[i] = queue'[j] => i = j
  BY <1>1, <1>2 DEF QueueOK
<1> QED
  BY <1>1, <1>3, <1>4

\* What is taken from the queue.
LEMMA Taken ==
    ASSUME QueueOK, NEW c \in Clusters, Take(c)
    PROVE  /\ queue' \in Seq(Clusters)
           /\ \A i, j \in DOMAIN queue' : queue'[i] = queue'[j] => i = j
           /\ c \in Queued /\ Queued' = Queued \ {c}
<1>1. /\ DOMAIN queue = 1 .. Len(queue) /\ Len(queue) \in Nat \ {0}
      /\ queue[1] = c
      /\ DOMAIN queue' = 1 .. Len(queue) - 1
      /\ \A i \in DOMAIN queue' : queue'[i] = queue[i + 1] /\ i + 1 \in DOMAIN queue
      /\ queue' \in Seq(Clusters)
  BY DEF QueueOK, Take
<1>2. \A j \in DOMAIN queue : j # 1 => j - 1 \in DOMAIN queue' /\ queue'[j - 1] = queue[j]
  BY <1>1
<1>3. \A i, j \in DOMAIN queue' : queue'[i] = queue'[j] => i = j
  <2> SUFFICES ASSUME NEW i \in DOMAIN queue', NEW j \in DOMAIN queue', queue'[i] = queue'[j]
               PROVE  i = j
    OBVIOUS
  <2>1. i + 1 = j + 1
    BY <1>1 DEF QueueOK
  <2> QED
    BY <1>1, <2>1
<1>4. \A i \in DOMAIN queue' : queue'[i] # c
  <2> SUFFICES ASSUME NEW i \in DOMAIN queue', queue[i + 1] = queue[1] PROVE FALSE
    BY <1>1
  <2>1. i + 1 = 1
    BY <1>1 DEF QueueOK
  <2> QED
    BY <1>1, <2>1
<1>5. c \in Queued
  BY <1>1 DEF Queued
<1>6. Queued' = Queued \ {c}
  BY <1>1, <1>2, <1>4 DEF Queued
<1> QED
  BY <1>1, <1>3, <1>5, <1>6

\* Add leaves the object queued, or its reconcile marked.
LEMMA Added ==
    ASSUME QueueOK, NEW c \in Clusters, Add(c)
    PROVE  /\ queue' \in Seq(Clusters)
           /\ \A i, j \in DOMAIN queue' : queue'[i] = queue'[j] => i = j
           /\ work' \in Works \union {Idle}
           /\ work' # Idle => work'.name \notin Queued'
           /\ IF Working(c)
                THEN work' = [work EXCEPT !.again = TRUE] /\ work'.again /\ work' \in Works
                     /\ Queued' = Queued
                ELSE work' = work /\ Queued' = Queued \union {c}
<1>1. CASE Working(c)
  <2>1. work \in Works /\ work' = [work EXCEPT !.again = TRUE] /\ queue' = queue
    BY <1>1 DEF QueueOK, Add, Working
  <2>2. work' \in Works /\ work'.again /\ work'.name = work.name
    BY <2>1, WorkTypes DEF Works
  <2>3. Queued' = Queued
    BY <2>1 DEF Queued
  <2> QED
    BY <1>1, <2>1, <2>2, <2>3 DEF QueueOK, Working
<1>2. CASE ~Working(c) /\ c \in Queued
  <2>1. work' = work /\ queue' = queue /\ Queued' = Queued \union {c}
    BY <1>2 DEF Add, Queued
  <2> QED
    BY <1>2, <2>1 DEF QueueOK
<1>3. CASE ~Working(c) /\ c \notin Queued
  <2>1. work' = work /\ queue' = Append(queue, c)
    BY <1>3 DEF Add
  <2> QED
    BY <1>3, <2>1, Appended DEF QueueOK, Working
<1> QED
  BY <1>1, <1>2, <1>3

\* When the worker is free again, its object is on its way if it has to be.
LEMMA Returned ==
    ASSUME QueueOK, work # Idle, NEW error \in BOOLEAN, Return(error)
    PROVE  /\ QueueOK'
           /\ work' = Idle
           /\ Queued \subseteq Queued' /\ coming \subseteq coming'
           /\ work.again => work.name \in Queued'
           /\ error => work.name \in coming'
<1>1. work \in Works /\ work.name \in Clusters /\ work.name \notin Queued
  BY WorkTypes DEF QueueOK
<1>2. work' = Idle /\ coming' \in SUBSET Clusters /\ coming \subseteq coming'
      /\ (error => work.name \in coming')
  BY <1>1 DEF Return, QueueOK
<1>3. CASE work.again
  <2>1. queue' = Append(queue, work.name)
    BY <1>3 DEF Return
  <2> QED
    BY <1>1, <1>2, <2>1, Appended DEF QueueOK
<1>4. CASE ~work.again
  <2>1. queue' = queue /\ Queued' = Queued
    BY <1>4 DEF Return, Queued
  <2> QED
    BY <1>2, <1>4, <2>1 DEF QueueOK
<1> QED
  BY <1>3, <1>4

\* The other part of the types.
StoreOK ==
    /\ kc \in [Clusters -> KwokClusters] /\ seen \in [Clusters -> KwokClusters]
    /\ cp \in [Clusters -> ControlPlanes] /\ cpSeen \in [Clusters -> ControlPlanes]
    /\ news \in SUBSET Clusters /\ slept \in SUBSET Clusters
    /\ last \in [Clusters -> Nat]
    /\ paused \in [Clusters -> BOOLEAN]
    /\ changes \in [Clusters -> Nat]
    /\ faults \in 0 .. MaxFaults

\* TypeOK falls into what is stored and what is in the process.
LEMMA TypeParts == (TypeOK <=> StoreOK /\ QueueOK) /\ (TypeOK' <=> StoreOK' /\ QueueOK')
BY DEF TypeOK, StoreOK, QueueOK

\* The initial states are of their types.
LEMMA InitTypeOK == Init => TypeOK
<1> SUFFICES ASSUME Init PROVE TypeOK
  OBVIOUS
<1>1. kc \in [Clusters -> KwokClusters]
  <2>1. \A spec \in Specs : [Fresh(spec) EXCEPT !.owned = TRUE] \in KwokClusters
    BY ObjectTypes
  <2> DEFINE S == {Gone} \union {[Fresh(spec) EXCEPT !.owned = TRUE] : spec \in Specs}
  <2>2. S \subseteq KwokClusters
    BY <2>1, ObjectTypes
  <2>3. kc \in [Clusters -> S]
    BY DEF Init
  <2> HIDE DEF S
  <2> QED
    BY <2>2, <2>3
<1>2. cp \in [Clusters -> ControlPlanes]
  <2>1. \A b \in BOOLEAN : [NoControlPlane EXCEPT !.exists = b] \in ControlPlanes
    BY DEF NoControlPlane, ControlPlanes
  <2>2. \A c \in Clusters : kc[c].exists \in BOOLEAN
    BY <1>1 DEF KwokClusters
  <2> QED
    BY <2>1, <2>2 DEF Init
<1>3. StoreOK
  BY <1>1, <1>2, BoundsAssumption DEF Init, StoreOK
<1>4. QueueOK
  BY DEF Init, QueueOK, Listed
<1> QED
  BY <1>3, <1>4, TypeParts

\* A KwokCluster is stored.
LEMMA StoredType ==
    ASSUME StoreOK, NEW c \in Clusters, NEW o \in KwokClusters, Stored(c, o)
    PROVE  kc' \in [Clusters -> KwokClusters] /\ news' \in SUBSET Clusters
BY DEF StoreOK, Stored

\* Failures stay within their bound.
LEMMA FaultType == ASSUME StoreOK, Fault PROVE faults' \in 0 .. MaxFaults
BY BoundsAssumption DEF StoreOK, Fault

\* One that comes to the queue, and one a worker takes, keep every type.
LEMMA TurnTypeOK ==
    ASSUME TypeOK, NEW c \in Clusters, Come(c) \/ Skip(c) \/ Panic(c) \/ Begin(c)
    PROVE  TypeOK'
<1>1. StoreOK /\ QueueOK
  BY TypeParts
<1>2. CASE Come(c)
  BY <1>1, <1>2, Added, TypeParts DEF Come, StoreOK, QueueOK, objectVars, informerVars
<1>3. CASE Skip(c)
  BY <1>1, <1>3, Taken, TypeParts DEF Skip, Take, StoreOK, QueueOK, objectVars, informerVars
<1>4. CASE Panic(c)
  BY <1>1, <1>4, Taken, TypeParts DEF Panic, Take, StoreOK, QueueOK, objectVars, informerVars
<1>5. CASE Begin(c)
  <2>1. work' \in Works /\ work'.name = c
    BY <1>1, <1>5 DEF Begin, Works, StoreOK
  <2>2. QueueOK'
    BY <1>1, <1>5, <2>1, Taken DEF Begin, QueueOK
  <2>3. StoreOK'
    BY <1>1, <1>5 DEF Begin, StoreOK, objectVars, informerVars
  <2> QED
    BY <2>2, <2>3, TypeParts
<1> QED
  BY <1>2, <1>3, <1>4, <1>5

\* The reconcile goes on with a type it had: its queue is the same.
LEMMA WorkMoves ==
    ASSUME QueueOK, work # Idle, work' \in Works, work'.name = work.name,
           UNCHANGED queueVars
    PROVE  QueueOK'
BY DEF QueueOK, Queued, queueVars

\* A call of a reconcile keeps every type.
LEMMA WorkTypeOK ==
    ASSUME TypeOK, work # Idle, Get \/ PatchSpec \/ PatchStatus \/ PatchFails \/ Wait
    PROVE  TypeOK'
<1>1. StoreOK /\ QueueOK
  BY TypeParts
<1>2. work \in Works /\ work.name \in Clusters
  BY <1>1, WorkTypes DEF QueueOK
<1>3. kc[work.name] \in KwokClusters /\ cpSeen[work.name].ep \in Nat
      /\ cpSeen[work.name].exists \in BOOLEAN
  BY <1>1, <1>2 DEF StoreOK, ControlPlanes
<1>4. /\ work.ep \in Nat /\ work.failed \in BOOLEAN /\ work.old \in KwokClusters
      /\ [kc[work.name] EXCEPT !.ep = work.ep] \in KwokClusters
      /\ [kc[work.name] EXCEPT !.ready = TRUE] \in KwokClusters
  <2>1. work.ep \in Nat /\ work.failed \in BOOLEAN /\ work.old \in KwokClusters
    BY <1>2 DEF Works
  <2> QED
    BY <1>3, <2>1, ObjectTypes
<1>5. CASE Get
  <2>1. QueueOK'
    <3>1. CASE Return(TRUE)
      BY <1>1, <3>1, Returned
    <3>2. CASE /\ work' = [work EXCEPT !.pc = "patchSpec", !.ep = cpSeen[work.name].ep]
               /\ UNCHANGED queueVars
      <4>1. work' \in Works
        BY <1>2, <1>3, <3>2, WorkTypes
      <4>2. work'.name = work.name
        BY <1>2, <3>2 DEF Works
      <4> QED
        BY <1>1, <3>2, <4>1, <4>2, WorkMoves
    <3> QED
      BY <1>5, <3>1, <3>2 DEF Get
  <2>2. StoreOK'
    BY <1>1, <1>5 DEF Get, StoreOK, objectVars, informerVars
  <2> QED
    BY <2>1, <2>2, TypeParts
<1>6. CASE PatchSpec
  <2>1. work' \in Works
    <3>1. (SpecChanged /\ ~kc[work.name].exists) \in BOOLEAN
      OBVIOUS
    <3> QED
      BY <1>2, <1>6, <3>1, WorkTypes DEF PatchSpec
  <2>2. work'.name = work.name
    BY <1>2, <1>6 DEF PatchSpec, Works
  <2>3. QueueOK'
    BY <1>1, <1>6, <2>1, <2>2, WorkMoves DEF PatchSpec
  <2>4. kc' \in [Clusters -> KwokClusters] /\ news' \in SUBSET Clusters
    <3>1. PICK o \in KwokClusters : Stored(work.name, o)
      BY <1>3, <1>4, <1>6 DEF PatchSpec
    <3> QED
      BY <1>1, <1>2, <3>1, StoredType
  <2>5. StoreOK'
    BY <1>1, <1>6, <2>4 DEF PatchSpec, StoreOK, informerVars
  <2> QED
    BY <2>3, <2>5, TypeParts
<1>7. CASE PatchStatus
  <2>1. QueueOK'
    <3> DEFINE failed == work.failed \/ (StatusChanged /\ ~kc[work.name].exists)
    <3>1. failed \in BOOLEAN
      BY <1>4
    <3>2. CASE Return(failed)
      BY <1>1, <3>1, <3>2, Returned
    <3>3. CASE work' = [work EXCEPT !.pc = "wait"] /\ UNCHANGED queueVars
      <4>1. work' \in Works
        BY <1>2, <3>3, WorkTypes
      <4>2. work'.name = work.name
        BY <1>2, <3>3 DEF Works
      <4> QED
        BY <1>1, <3>3, <4>1, <4>2, WorkMoves
    <3> QED
      BY <1>7, <3>2, <3>3 DEF PatchStatus
  <2>2. kc' \in [Clusters -> KwokClusters] /\ news' \in SUBSET Clusters
    <3>1. PICK o \in KwokClusters : Stored(work.name, o)
      BY <1>3, <1>4, <1>7 DEF PatchStatus
    <3> QED
      BY <1>1, <1>2, <3>1, StoredType
  <2>3. StoreOK'
    BY <1>1, <1>7, <2>2 DEF PatchStatus, StoreOK, informerVars
  <2> QED
    BY <2>1, <2>3, TypeParts
<1>8. CASE PatchFails
  <2>1. QueueOK'
    <3>1. CASE Return(TRUE)
      BY <1>1, <3>1, Returned
    <3>2. CASE /\ work' = [work EXCEPT !.pc = "patchStatus", !.failed = TRUE]
               /\ UNCHANGED queueVars
      <4>1. work' \in Works
        BY <1>2, <3>2, WorkTypes
      <4>2. work'.name = work.name
        BY <1>2, <3>2 DEF Works
      <4> QED
        BY <1>1, <3>2, <4>1, <4>2, WorkMoves
    <3> QED
      BY <1>8, <3>1, <3>2 DEF PatchFails
  <2>2. kc' \in [Clusters -> KwokClusters] /\ news' \in SUBSET Clusters
    <3>1. CASE UNCHANGED <<kc, news>>
      BY <1>1, <3>1 DEF StoreOK
    <3>2. CASE \E o \in KwokClusters : Stored(work.name, o)
      BY <1>1, <1>2, <3>2, StoredType
    <3> QED
      BY <1>4, <1>8, <3>1, <3>2 DEF PatchFails
  <2>3. faults' \in 0 .. MaxFaults
    BY <1>1, <1>8, FaultType DEF PatchFails
  <2>4. StoreOK'
    BY <1>1, <1>8, <2>2, <2>3 DEF PatchFails, StoreOK, informerVars
  <2> QED
    BY <2>1, <2>4, TypeParts
<1>9. CASE Wait
  <2>1. QueueOK'
    BY <1>1, <1>9, Returned DEF Wait
  <2>2. StoreOK'
    BY <1>1, <1>9 DEF Wait, StoreOK, objectVars, informerVars
  <2> QED
    BY <2>1, <2>2, TypeParts
<1> QED
  BY <1>5, <1>6, <1>7, <1>8, <1>9

\* Events, backoffs and resyncs keep every type.
LEMMA InformerTypeOK ==
    ASSUME TypeOK, NEW c \in Clusters,
           Sync(c) \/ SyncControlPlane(c) \/ Resync(c)
    PROVE  TypeOK'
<1>1. StoreOK /\ QueueOK
  BY TypeParts
<1>2. CASE Sync(c)
  <2>1. QueueOK'
    <3>1. CASE Add(c)
      BY <1>1, <1>2, <3>1, Added DEF Sync, QueueOK
    <3>2. CASE UNCHANGED <<queue, work>>
      BY <1>1, <1>2, <3>2 DEF Sync, QueueOK, Queued
    <3> QED
      BY <1>2, <3>1, <3>2 DEF Sync
  <2>2. StoreOK'
    BY <1>1, <1>2 DEF Sync, StoreOK
  <2> QED
    BY <2>1, <2>2, TypeParts
<1>3. CASE SyncControlPlane(c)
  <2>1. QueueOK'
    BY <1>1, <1>3 DEF SyncControlPlane, QueueOK, Queued, queueVars
  <2>2. StoreOK'
    BY <1>1, <1>3 DEF SyncControlPlane, StoreOK, objectVars
  <2> QED
    BY <2>1, <2>2, TypeParts
<1>4. CASE Resync(c)
  <2>1. QueueOK'
    BY <1>1, <1>4, Added DEF Resync, QueueOK
  <2>2. StoreOK'
    BY <1>1, <1>4 DEF Resync, StoreOK, objectVars, informerVars
  <2> QED
    BY <2>1, <2>2, TypeParts
<1> QED
  BY <1>2, <1>3, <1>4

\* A restart keeps every type.
LEMMA RestartTypeOK == TypeOK /\ Restart => TypeOK'
<1> SUFFICES ASSUME TypeOK, Restart PROVE TypeOK'
  OBVIOUS
<1>1. StoreOK /\ QueueOK
  BY TypeParts
<1>2. QueueOK'
  BY <1>1 DEF Restart, QueueOK, Listed
<1>3. StoreOK'
  BY <1>1, FaultType DEF Restart, StoreOK
<1> QED
  BY <1>2, <1>3, TypeParts

\* What others do keeps every type.
LEMMA EnvironmentTypeOK ==
    ASSUME TypeOK, NEW c \in Clusters, Environment(c)
    PROVE  TypeOK'
<1>1. StoreOK /\ QueueOK
  BY TypeParts
<1>2. UNCHANGED <<queue, coming, work>>
  BY DEF Environment, ChangeKwokCluster, SetOwner, SetPaused, CreateControlPlane, Publish,
         DeleteControlPlane, queueVars
<1>3. QueueOK'
  BY <1>1, <1>2 DEF QueueOK, Queued
<1>4. kc[c] \in KwokClusters /\ cp[c] \in ControlPlanes /\ last[c] \in Nat
      /\ changes[c] \in Nat /\ (~kc[c].held) \in BOOLEAN
  BY <1>1 DEF StoreOK
<1>5. Change(c) => changes' \in [Clusters -> Nat]
  BY <1>1, <1>4 DEF Change, StoreOK
<1>6. CASE ChangeKwokCluster(c)
  <2>1. PICK o \in KwokClusters : Stored(c, o)
    <3>1. \A spec \in SpecsOf[c] : /\ Fresh(spec) \in KwokClusters
                                   /\ [kc[c] EXCEPT !.spec = spec] \in KwokClusters
      BY <1>4, SpecsAssumption, ObjectTypes
    <3>2. [kc[c] EXCEPT !.held = ~@] \in KwokClusters /\ Gone \in KwokClusters
      BY <1>4, ObjectTypes
    <3> QED
      BY <1>6, <3>1, <3>2 DEF ChangeKwokCluster
  <2>2. kc' \in [Clusters -> KwokClusters] /\ news' \in SUBSET Clusters
    BY <1>1, <2>1, StoredType
  <2>3. StoreOK'
    BY <1>1, <1>5, <1>6, <2>2 DEF ChangeKwokCluster, StoreOK, informerVars
  <2> QED
    BY <1>3, <2>3, TypeParts
<1>7. CASE SetOwner(c)
  <2>1. kc' \in [Clusters -> KwokClusters] /\ news' \in SUBSET Clusters
    <3>1. [kc[c] EXCEPT !.owned = TRUE] \in KwokClusters
      BY <1>4, ObjectTypes
    <3>2. Stored(c, [kc[c] EXCEPT !.owned = TRUE])
      BY <1>7 DEF SetOwner
    <3> QED
      BY <1>1, <3>1, <3>2, StoredType
  <2>2. StoreOK'
    BY <1>1, <1>7, <2>1 DEF SetOwner, StoreOK, informerVars
  <2> QED
    BY <1>3, <2>2, TypeParts
<1>8. CASE SetPaused(c)
  <2>1. StoreOK'
    BY <1>1, <1>5, <1>8 DEF SetPaused, StoreOK, informerVars
  <2> QED
    BY <1>3, <2>1, TypeParts
<1>9. CASE CreateControlPlane(c)
  <2>1. [exists |-> TRUE, ep |-> 0] \in ControlPlanes
    BY DEF ControlPlanes
  <2>2. StoreOK'
    BY <1>1, <1>5, <1>9, <2>1 DEF CreateControlPlane, StoreOK, informerVars
  <2> QED
    BY <1>3, <2>2, TypeParts
<1>10. CASE Publish(c)
  <2>1. last' \in [Clusters -> Nat] /\ last'[c] \in Nat
    BY <1>1, <1>4, <1>10 DEF Publish, StoreOK
  <2>2. [cp[c] EXCEPT !.ep = last'[c]] \in ControlPlanes
    BY <1>4, <2>1 DEF ControlPlanes
  <2>3. StoreOK'
    BY <1>1, <1>10, <2>1, <2>2 DEF Publish, StoreOK, informerVars
  <2> QED
    BY <1>3, <2>3, TypeParts
<1>11. CASE DeleteControlPlane(c)
  <2>1. StoreOK'
    BY <1>1, <1>5, <1>11, ObjectTypes DEF DeleteControlPlane, StoreOK, informerVars
  <2> QED
    BY <1>3, <2>1, TypeParts
<1> QED
  BY <1>6, <1>7, <1>8, <1>9, <1>10, <1>11 DEF Environment

\* Every step keeps every type.
LEMMA StepTypeOK == TypeOK /\ [Next]_vars => TypeOK'
<1> SUFFICES ASSUME TypeOK, [Next]_vars PROVE TypeOK'
  OBVIOUS
<1>1. CASE Worker
  BY <1>1, TurnTypeOK, WorkTypeOK DEF Worker
<1>2. CASE \E c \in Clusters :
             Come(c) \/ Sync(c) \/ SyncControlPlane(c) \/ Resync(c) \/ Environment(c)
  BY <1>2, TurnTypeOK, InformerTypeOK, EnvironmentTypeOK
<1>3. CASE Restart
  BY <1>3, RestartTypeOK
<1>4. CASE UNCHANGED vars
  BY <1>4 DEF TypeOK, Queued, vars, objectVars, informerVars, queueVars
<1> QED
  BY <1>1, <1>2, <1>3, <1>4 DEF Next

\* Every variable keeps its type; above all, no KwokCluster is queued twice, or
\* queued while it is reconciled, although events, backoffs and resyncs add it at
\* any time.
THEOREM TypeCorrect == Spec => []TypeOK
<1> QED
  BY InitTypeOK, StepTypeOK, PTL DEF Spec

-----------------------------------------------------------------------------
(***************************************************************************)
(* The inductive invariant, one KwokCluster at a time                       *)
(***************************************************************************)

Pending(c) == c \in news \union slept \union Queued \union coming \/ Working(c)

Remembered(c) == Passes(kc[c]) /\ kc[c].owned /\ ~kc[c].ready => Pending(c)

Sound(c) == Remembered(c) /\ CopyCoherent(c) /\ EndpointCoherent(c)

\* The invariant, cluster by cluster.
LEMMA CoherentParts ==
    /\ Coherent <=> \A c \in Clusters : Sound(c)
    /\ Coherent' <=> \A c \in Clusters : Sound(c)'
BY DEF Coherent, NoneForgotten, Sound, Remembered, Pending

\* The numbers of one KwokCluster.
LEMMA Numbers ==
    ASSUME TypeOK, NEW c \in Clusters
    PROVE  /\ kc[c].ep \in Nat /\ cp[c].ep \in Nat /\ cpSeen[c].ep \in Nat
           /\ Carried(c) \in Nat /\ last[c] \in Nat
<1>1. kc[c] \in KwokClusters /\ cp[c] \in ControlPlanes /\ cpSeen[c] \in ControlPlanes
      /\ last[c] \in Nat
  BY DEF TypeOK
<1>2. Carried(c) \in Nat
  BY WorkTypes DEF TypeOK, Carried, Working
<1> QED
  BY <1>1, <1>2 DEF KwokClusters, ControlPlanes

\* The initial states are coherent.
LEMMA InitCoherent == Init => Coherent
<1> SUFFICES ASSUME Init, NEW c \in Clusters PROVE Sound(c)
  BY CoherentParts
<1>1. kc[c].ep = 0 /\ seen[c] = kc[c] /\ cp[c].ep = 0 /\ cpSeen[c].ep = 0 /\ last[c] = 0
  <2> DEFINE S == {Gone} \union {[Fresh(spec) EXCEPT !.owned = TRUE] : spec \in Specs}
  <2>1. \A o \in S : o.ep = 0
    BY DEF Gone, Fresh
  <2>2. kc[c] \in S
    BY DEF Init
  <2> HIDE DEF S
  <2> QED
    BY <2>1, <2>2 DEF Init, NoControlPlane
<1>2. ~Working(c) /\ Carried(c) = 0
  BY DEF Init, Working, Carried
<1>3. Remembered(c)
  BY DEF Init, Remembered, Pending, Listed
<1> QED
  BY <1>1, <1>2, <1>3 DEF Sound, CopyCoherent, EndpointCoherent, NotBehind

\* A step leaves the objects of c alone, the stored ones and the copies.
ObjectsStay(c) ==
    /\ kc'[c] = kc[c] /\ seen'[c] = seen[c] /\ (c \in news') = (c \in news)
    /\ cp'[c] = cp[c] /\ cpSeen'[c] = cpSeen[c] /\ last'[c] = last[c]

\* A step leaves the reconcile in flight alone, if it is one of c, or marks it.
WorkStays(c) ==
    /\ Working(c)' = Working(c)
    /\ Working(c) => /\ work'.pc = work.pc /\ work'.old = work.old /\ work'.ep = work.ep
                     /\ work.again => work'.again

\* A cluster nobody touches stays as sound as it was.
LEMMA SoundStays ==
    ASSUME NEW c \in Clusters, Sound(c), ObjectsStay(c), WorkStays(c),
           Pending(c) => Pending(c)'
    PROVE  Sound(c)'
<1>1. Carried(c)' = Carried(c)
  BY DEF Carried, WorkStays
<1>2. Remembered(c)'
  BY DEF Sound, Remembered, ObjectsStay, Passes
<1>3. CopyCoherent(c)'
  BY DEF Sound, CopyCoherent, ObjectsStay, WorkStays, Passes
<1>4. EndpointCoherent(c)'
  BY <1>1 DEF Sound, EndpointCoherent, ObjectsStay, NotBehind
<1> QED
  BY <1>2, <1>3, <1>4 DEF Sound

\* The reconcile of c is over, or there was none.
LEMMA SoundIdle ==
    ASSUME TypeOK, NEW c \in Clusters, Sound(c), ObjectsStay(c), ~Working(c)',
           Remembered(c)'
    PROVE  Sound(c)'
<1>1. Carried(c)' = 0
  BY DEF Carried
<1>2. CopyCoherent(c)'
  BY DEF Sound, CopyCoherent, ObjectsStay
<1>3. EndpointCoherent(c)'
  BY <1>1, Numbers DEF Sound, EndpointCoherent, ObjectsStay, NotBehind
<1> QED
  BY <1>2, <1>3 DEF Sound

\* Adding a KwokCluster to the queue leaves all of them sound.
LEMMA SoundAdded ==
    ASSUME TypeOK, NEW c \in Clusters, Add(c), NEW n \in Clusters
    PROVE  WorkStays(n) /\ Queued \subseteq Queued' /\ (c \in Queued' \/ Working(c)')
           /\ (Working(c)' => work'.again)
<1>1. QueueOK
  BY TypeParts
<1>2. CASE Working(c)
  <2>1. work \in Works /\ work' = [work EXCEPT !.again = TRUE] /\ work'.again /\ work' \in Works
        /\ Queued' = Queued
    BY <1>1, <1>2, Added DEF QueueOK, Working
  <2>2. work'.pc = work.pc /\ work'.name = work.name /\ work'.old = work.old /\ work'.ep = work.ep
    BY <2>1 DEF Works
  <2>3. work # Idle /\ work' # Idle
    BY <2>1, WorkTypes
  <2>4. \A k \in Clusters : Working(k)' = Working(k)
    BY <2>2, <2>3 DEF Working
  <2> QED
    BY <1>2, <2>1, <2>2, <2>4 DEF WorkStays
<1>3. CASE ~Working(c)
  <2>1. work' = work /\ Queued' = Queued \union {c}
    BY <1>1, <1>3, Added
  <2>2. \A k \in Clusters : Working(k)' = Working(k)
    BY <2>1 DEF Working
  <2> QED
    BY <1>3, <2>1, <2>2 DEF WorkStays
<1> QED
  BY <1>2, <1>3

-----------------------------------------------------------------------------
(***************************************************************************)
(* One lemma per step                                                       *)
(***************************************************************************)

\* A backoff that ends, and a resync, move a KwokCluster on.
LEMMA AddStep ==
    ASSUME TypeOK, Coherent, NEW c \in Clusters, Come(c) \/ Resync(c)
    PROVE  Coherent'
<1> SUFFICES ASSUME NEW n \in Clusters PROVE Sound(n)'
  BY CoherentParts
<1>1. Add(c)
  BY DEF Come, Resync
<1>2. ObjectsStay(n) /\ slept' = slept /\ news' = news
  BY DEF Come, Resync, ObjectsStay, objectVars, informerVars
<1>3. WorkStays(n) /\ Queued \subseteq Queued' /\ (c \in Queued' \/ Working(c)')
  BY <1>1, SoundAdded
<1>4. coming \subseteq coming' \union {c}
  BY DEF Come, Resync
<1>5. Pending(n) => Pending(n)'
  BY <1>2, <1>3, <1>4 DEF Pending, WorkStays
<1> QED
  BY <1>2, <1>3, <1>5, SoundStays, CoherentParts

\* An early return forgets nobody: what is not pending now has gone, has no
\* owner, is held, or is put down as slept.
LEMMA SkipStep ==
    ASSUME TypeOK, Coherent, NEW c \in Clusters, Skip(c) \/ Panic(c)
    PROVE  Coherent'
<1> SUFFICES ASSUME NEW n \in Clusters PROVE Sound(n)'
  BY CoherentParts
<1>1. /\ work = Idle /\ work' = work /\ ~Working(n) /\ ~Working(n)'
      /\ Queued' = Queued \ {c} /\ slept \subseteq slept' /\ coming \subseteq coming'
  <2>1. Take(c)
    BY DEF Skip, Panic
  <2>2. Queued' = Queued \ {c}
    BY <2>1, Taken, TypeParts
  <2> QED
    BY <2>1, <2>2 DEF Take, Skip, Panic, Working
<1>2. ObjectsStay(n) /\ news' = news
  BY DEF Skip, Panic, ObjectsStay, objectVars, informerVars
<1>3. Sound(n)
  BY CoherentParts
<1>4. Remembered(n)'
  <2>1. CASE n # c
    BY <1>1, <1>2, <1>3, <2>1 DEF Sound, Remembered, Pending, ObjectsStay, Passes
  <2>2. CASE n = c /\ Panic(c)
    BY <2>2 DEF Panic, Remembered, Pending
  <2>3. CASE n = c /\ Skip(c) /\ c \in news
    BY <1>2, <2>3 DEF Remembered, Pending
  <2>4. CASE n = c /\ Skip(c) /\ c \notin news
    <3>1. seen[c] = kc[c]
      BY <1>3, <2>4 DEF Sound, CopyCoherent
    <3>2. Passes(kc[c]) /\ kc[c].owned => c \in slept'
      BY <2>4, <3>1 DEF Skip, Suspended, Passes
    <3> QED
      BY <1>2, <2>4, <3>2 DEF Remembered, Pending, ObjectsStay, Passes
  <2> QED
    BY <2>1, <2>2, <2>3, <2>4
<1> QED
  BY <1>1, <1>2, <1>3, <1>4, SoundIdle

\* A reconcile starts from what the informer shows.
LEMMA BeginStep ==
    ASSUME TypeOK, Coherent, NEW c \in Clusters, Begin(c)
    PROVE  Coherent'
<1> SUFFICES ASSUME NEW n \in Clusters PROVE Sound(n)'
  BY CoherentParts
<1>1. /\ work = Idle /\ Queued' = Queued \ {c}
      /\ slept' = slept \ {c} /\ coming' = coming /\ news' = news
  <2>1. Queued' = Queued \ {c}
    BY Taken, TypeParts DEF Begin
  <2> QED
    BY <2>1 DEF Begin, Take, objectVars
<1>2. work' \in Works /\ work'.name = c /\ work'.old = seen[c] /\ work'.ep = 0 /\ work'.pc = "get"
  BY DEF Begin, Works, TypeOK
<1>3. work' # Idle
  BY <1>2, WorkTypes
<1>4. ObjectsStay(n) /\ Sound(n)
  BY CoherentParts DEF Begin, ObjectsStay, objectVars, informerVars
<1>5. CASE n # c
  <2>1. WorkStays(n)
    BY <1>1, <1>2, <1>3, <1>5 DEF WorkStays, Working
  <2>2. Pending(n) => Pending(n)'
    BY <1>1, <1>5, <2>1 DEF Pending, WorkStays
  <2> QED
    BY <1>4, <2>1, <2>2, SoundStays
<1>6. CASE n = c
  <2>1. Working(c)' /\ Carried(c)' = 0
    BY <1>2, <1>3 DEF Working, Carried
  <2>2. Remembered(c)'
    BY <2>1 DEF Remembered, Pending
  <2>3. CopyCoherent(c)'
    BY <1>2, <1>4, <1>6 DEF CopyCoherent, Sound, ObjectsStay
  <2>4. EndpointCoherent(c)'
    BY <1>4, <1>6, <2>1, Numbers DEF Sound, EndpointCoherent, ObjectsStay, NotBehind
  <2> QED
    BY <1>6, <2>2, <2>3, <2>4 DEF Sound
<1> QED
  BY <1>5, <1>6

\* A step of the reconcile in flight leaves the other KwokClusters sound.
LEMMA OthersStay ==
    ASSUME TypeOK, Coherent, work # Idle, NEW n \in Clusters, n # work.name,
           ObjectsStay(n), slept' = slept, Queued \subseteq Queued', coming \subseteq coming',
           work' = Idle \/ work'.name = work.name
    PROVE  Sound(n)'
<1>1. ~Working(n) /\ ~Working(n)'
  BY DEF Working
<1>2. Pending(n) => Pending(n)'
  BY <1>1 DEF Pending, ObjectsStay
<1>3. WorkStays(n)
  BY <1>1 DEF WorkStays, Working
<1> QED
  BY <1>2, <1>3, SoundStays, CoherentParts

\* What every step of the reconcile in flight does.
LEMMA WorkStep ==
    ASSUME TypeOK, work # Idle, Get \/ PatchSpec \/ PatchStatus \/ PatchFails \/ Wait
    PROVE  /\ work \in Works /\ work.name \in Clusters /\ Working(work.name)
           /\ slept' = slept /\ Queued \subseteq Queued' /\ coming \subseteq coming'
           /\ work' = Idle \/ (work' \in Works /\ work'.name = work.name)
           /\ \A n \in Clusters \ {work.name} : ObjectsStay(n)
           /\ \/ Return(TRUE)
              \/ Return(FALSE)
              \/ /\ UNCHANGED queueVars
                 /\ work' # Idle
                 /\ work'.old = work.old
                 /\ work'.again = work.again
                 /\ work'.pc # "patchSpec" => work'.ep = work.ep
<1>1. work \in Works /\ work.name \in Clusters /\ Working(work.name)
  BY WorkTypes DEF TypeOK, Working
<1>2. slept' = slept
  BY DEF Get, PatchSpec, PatchStatus, PatchFails, Wait
<1>3. \A n \in Clusters \ {work.name} : ObjectsStay(n)
  <2>1. UNCHANGED <<cp, last, seen, cpSeen>>
    BY DEF Get, PatchSpec, PatchStatus, PatchFails, Wait, objectVars, informerVars
  <2>2. UNCHANGED <<kc, news>> \/ \E o \in KwokClusters : Stored(work.name, o)
    <3>1. /\ kc[work.name] \in KwokClusters
          /\ [kc[work.name] EXCEPT !.ep = work.ep] \in KwokClusters
          /\ [kc[work.name] EXCEPT !.ready = TRUE] \in KwokClusters
      <4>1. kc[work.name] \in KwokClusters
        BY <1>1 DEF TypeOK
      <4>2. work.ep \in Nat
        BY <1>1 DEF Works
      <4> QED
        BY <4>1, <4>2, ObjectTypes
    <3>2. CASE Get \/ Wait
      BY <3>2 DEF Get, Wait, objectVars
    <3>3. CASE PatchSpec
      BY <3>1, <3>3 DEF PatchSpec
    <3>4. CASE PatchStatus
      BY <3>1, <3>4 DEF PatchStatus
    <3>5. CASE PatchFails
      BY <3>1, <3>5 DEF PatchFails
    <3> QED
      BY <3>2, <3>3, <3>4, <3>5
  <2>3. \A n \in Clusters \ {work.name} : kc'[n] = kc[n] /\ ((n \in news') = (n \in news))
    BY <1>1, <2>2 DEF Stored, TypeOK
  <2> QED
    BY <2>1, <2>3 DEF ObjectsStay
<1>4. \/ Return(TRUE)
      \/ Return(FALSE)
      \/ /\ UNCHANGED queueVars
         /\ \/ \E n \in Nat : work' = [work EXCEPT !.pc = "patchSpec", !.ep = n]
            \/ \E b \in BOOLEAN : work' = [work EXCEPT !.pc = "patchStatus", !.failed = b]
            \/ work' = [work EXCEPT !.pc = "wait"]
  <2>1. CASE Get
    <3>1. cpSeen[work.name].ep \in Nat
      BY <1>1, Numbers
    <3> QED
      BY <2>1, <3>1 DEF Get
  <2>2. CASE PatchSpec
    <3>1. (SpecChanged /\ ~kc[work.name].exists) \in BOOLEAN
      OBVIOUS
    <3> QED
      BY <2>2, <3>1 DEF PatchSpec
  <2>3. CASE PatchStatus
    <3> DEFINE failed == work.failed \/ (StatusChanged /\ ~kc[work.name].exists)
    <3>1. failed = TRUE \/ failed = FALSE
      BY <1>1 DEF Works
    <3>2. Return(failed) \/ (UNCHANGED queueVars /\ work' = [work EXCEPT !.pc = "wait"])
      BY <2>3 DEF PatchStatus
    <3> HIDE DEF failed
    <3> QED
      BY <3>1, <3>2
  <2>4. CASE PatchFails
    BY <2>4 DEF PatchFails
  <2>5. CASE Wait
    BY <2>5 DEF Wait
  <2> QED
    BY <2>1, <2>2, <2>3, <2>4, <2>5
<1>5. CASE Return(TRUE) \/ Return(FALSE)
  <2>1. work' = Idle /\ Queued \subseteq Queued' /\ coming \subseteq coming'
    BY <1>5, Returned, TypeParts
  <2> QED
    BY <1>1, <1>2, <1>3, <1>5, <2>1
<1>6. CASE /\ UNCHANGED queueVars
           /\ \/ \E n \in Nat : work' = [work EXCEPT !.pc = "patchSpec", !.ep = n]
              \/ \E b \in BOOLEAN : work' = [work EXCEPT !.pc = "patchStatus", !.failed = b]
              \/ work' = [work EXCEPT !.pc = "wait"]
  <2>1. Queued' = Queued /\ coming' = coming
    BY <1>6 DEF queueVars, Queued
  <2>2. work' \in Works
    BY <1>1, <1>6, WorkTypes
  <2>3. work'.name = work.name /\ work'.old = work.old /\ work'.again = work.again
        /\ (work'.pc # "patchSpec" => work'.ep = work.ep)
    BY <1>1, <1>6 DEF Works
  <2> QED
    BY <1>1, <1>2, <1>3, <1>6, <2>1, <2>2, <2>3, WorkTypes
<1> QED
  BY <1>4, <1>5, <1>6

\* The control plane is read: the endpoint carried on is the informer's.
LEMMA GetStep ==
    ASSUME TypeOK, Coherent, work # Idle, Get
    PROVE  Coherent'
<1> SUFFICES ASSUME NEW c \in Clusters PROVE Sound(c)'
  BY CoherentParts
<1>1. /\ work \in Works /\ slept' = slept
      /\ Queued \subseteq Queued' /\ coming \subseteq coming'
      /\ work' = Idle \/ (work' \in Works /\ work'.name = work.name)
  BY WorkStep
<1>2. ObjectsStay(c) /\ news' = news
  BY DEF Get, ObjectsStay, objectVars, informerVars
<1>3. Sound(c)
  BY CoherentParts
<1>4. CASE work.name # c
  BY <1>1, <1>2, <1>4, OthersStay
<1>5. CASE work.name = c /\ Return(TRUE)
  <2>1. work' = Idle /\ c \in coming'
    BY <1>5, Returned, TypeParts
  <2>2. ~Working(c)' /\ Remembered(c)'
    BY <2>1 DEF Working, Remembered, Pending
  <2> QED
    BY <1>2, <1>3, <2>2, SoundIdle
<1>6. CASE work.name = c /\ work' = [work EXCEPT !.pc = "patchSpec", !.ep = cpSeen[c].ep]
  <2>1. /\ work' \in Works /\ work'.name = c /\ work'.pc = "patchSpec" /\ work'.ep = cpSeen[c].ep
        /\ work'.old = work.old /\ work'.again = work.again
    <3>1. cpSeen[c].ep \in Nat
      BY Numbers
    <3>2. work' \in Works
      BY <1>1, <1>6, <3>1, WorkTypes
    <3> QED
      BY <1>1, <1>6, <3>2 DEF Works
  <2>2. Working(c)' /\ Carried(c)' = cpSeen[c].ep /\ Working(c)
    BY <1>6, <2>1, WorkTypes DEF Working, Carried
  <2>3. Remembered(c)'
    BY <2>2 DEF Remembered, Pending
  <2>4. CopyCoherent(c)'
    BY <1>2, <1>3, <2>1, <2>2 DEF Sound, CopyCoherent, ObjectsStay, Passes
  <2>5. EndpointCoherent(c)'
    BY <1>2, <1>3, <2>2, Numbers DEF Sound, EndpointCoherent, ObjectsStay, NotBehind
  <2> QED
    BY <2>3, <2>4, <2>5 DEF Sound
<1> QED
  BY <1>4, <1>5, <1>6 DEF Get

\* What a half of the patch may leave in the object of the reconcile.
PatchEffect(c) ==
    /\ cp'[c] = cp[c] /\ seen'[c] = seen[c] /\ cpSeen'[c] = cpSeen[c] /\ last'[c] = last[c]
    /\ kc'[c].ep \in {kc[c].ep, work.ep}
    /\ c \notin news' => kc'[c] = kc[c] /\ c \notin news

\* What a half of the patch, failed or not, leaves of the stored object.
LEMMA Patched ==
    ASSUME TypeOK, work # Idle, NEW c \in Clusters, work.name = c,
           PatchSpec \/ PatchStatus \/ PatchFails
    PROVE  PatchEffect(c)
<1>1. kc[c] \in KwokClusters /\ work.ep \in Nat
  BY WorkTypes DEF TypeOK
<1>2. UNCHANGED <<cp, last, seen, cpSeen>>
  BY DEF PatchSpec, PatchStatus, PatchFails, informerVars
<1>3. DEFINE O == {kc[c], [kc[c] EXCEPT !.ep = work.ep], [kc[c] EXCEPT !.ready = TRUE]}
<1>4. UNCHANGED <<kc, news>> \/ \E o \in O : Stored(c, o)
  BY DEF PatchSpec, PatchStatus, PatchFails
<1>5. \A o \in O : o.ep \in {kc[c].ep, work.ep}
  BY <1>1 DEF KwokClusters
<1> HIDE DEF O
<1>6. CASE UNCHANGED <<kc, news>>
  BY <1>2, <1>6 DEF PatchEffect
<1>7. CASE \E o \in O : Stored(c, o)
  <2>1. PICK o \in O : Stored(c, o)
    BY <1>7
  <2>2. kc'[c] = o /\ (c \notin news' => o = kc[c] /\ c \notin news)
    BY <2>1 DEF Stored, TypeOK
  <2> QED
    BY <1>2, <1>5, <2>2 DEF PatchEffect
<1> QED
  BY <1>4, <1>6, <1>7

\* The endpoint that is stored was as new as what is stored.
LEMMA PatchedEndpoint ==
    ASSUME TypeOK, NEW c \in Clusters, Sound(c), PatchEffect(c), Working(c),
           Carried(c)' \in {Carried(c), 0}
    PROVE  EndpointCoherent(c)'
<1>1. Carried(c) = work.ep
  BY DEF Carried
<1>2. kc'[c].ep \in {kc[c].ep, Carried(c)}
  BY <1>1 DEF PatchEffect
<1> QED
  BY <1>2, Numbers DEF Sound, EndpointCoherent, PatchEffect, NotBehind

\* A patch without an error leaves a Ready KwokCluster, or one with more to come.
LEMMA PatchedReady ==
    ASSUME TypeOK, work # Idle, NEW c \in Clusters, work.name = c, Sound(c), PatchStatus,
           ~(work.failed \/ (StatusChanged /\ ~kc[c].exists))
    PROVE  Passes(kc'[c]) => kc'[c].ready \/ work.again \/ c \in news'
<1>1. CASE StatusChanged
  <2>1. kc'[c] = [kc[c] EXCEPT !.ready = TRUE] /\ kc[c] \in KwokClusters
    BY <1>1 DEF PatchStatus, Stored, TypeOK
  <2> QED
    BY <2>1 DEF KwokClusters
<1>2. CASE ~StatusChanged
  <2>1. work.old.ready /\ PatchEffect(c) /\ Working(c)
    BY <1>2, Patched DEF StatusChanged, Working
  <2>2. ASSUME c \notin news', Passes(kc'[c]), ~work.again PROVE kc'[c].ready
    <3>1. seen[c] = kc[c] /\ kc'[c] = kc[c]
      BY <2>1, <2>2 DEF PatchEffect, Sound, CopyCoherent
    <3>2. seen[c] = work.old
      BY <2>1, <2>2, <3>1 DEF Sound, CopyCoherent
    <3> QED
      BY <2>1, <3>1, <3>2
  <2> QED
    BY <2>2
<1> QED
  BY <1>1, <1>2

\* A half of the patch, whether it fails or not.
LEMMA PatchStep ==
    ASSUME TypeOK, Coherent, work # Idle, PatchSpec \/ PatchStatus \/ PatchFails
    PROVE  Coherent'
<1> SUFFICES ASSUME NEW c \in Clusters PROVE Sound(c)'
  BY CoherentParts
<1>1. /\ work \in Works /\ slept' = slept
      /\ Queued \subseteq Queued' /\ coming \subseteq coming'
      /\ work' = Idle \/ (work' \in Works /\ work'.name = work.name)
      /\ \A n \in Clusters \ {work.name} : ObjectsStay(n)
  BY WorkStep
<1>2. Sound(c)
  BY CoherentParts
<1>3. CASE work.name # c
  BY <1>1, <1>3, OthersStay
<1>4. CASE work.name = c
  <2>1. PatchEffect(c) /\ Working(c)
    BY <1>4, Patched DEF Working
  <2>2. CASE Return(TRUE) \/ Return(FALSE)
    <3>1. /\ work' = Idle
          /\ work.again => c \in Queued'
          /\ Return(TRUE) => c \in coming'
      BY <1>4, <2>2, Returned, TypeParts
    <3>2. ~Working(c)' /\ Carried(c)' = 0
      BY <3>1 DEF Working, Carried
    <3>3. ASSUME Return(TRUE) PROVE Remembered(c)'
      BY <3>1, <3>3 DEF Remembered, Pending
    <3>4. ASSUME ~Return(TRUE) PROVE Remembered(c)'
      <4>1. PatchStatus /\ ~(work.failed \/ (StatusChanged /\ ~kc[c].exists))
        <5> DEFINE failed == work.failed \/ (StatusChanged /\ ~kc[c].exists)
        <5>1. work' = Idle => ~(work' = [work EXCEPT !.pc = "patchStatus", !.failed = TRUE])
          BY <1>1, WorkTypes
        <5>2. ~PatchFails
          BY <3>1, <3>4, <5>1 DEF PatchFails
        <5>3. ~PatchSpec
          <6>1. (SpecChanged /\ ~kc[c].exists) \in BOOLEAN
            OBVIOUS
          <6> QED
            BY <1>1, <1>4, <3>1, <6>1, WorkTypes DEF PatchSpec
        <5>4. PatchStatus
          BY <5>2, <5>3
        <5>5. failed => Return(TRUE)
          <6>1. failed => Return(failed)
            BY <1>4, <5>4 DEF PatchStatus
          <6>2. failed => failed = TRUE
            BY <1>1 DEF Works
          <6> HIDE DEF failed
          <6> QED
            BY <6>1, <6>2
        <5> QED
          BY <3>4, <5>4, <5>5
      <4>2. Passes(kc'[c]) => kc'[c].ready \/ work.again \/ c \in news'
        BY <1>2, <1>4, <4>1, PatchedReady
      <4> QED
        BY <3>1, <4>2 DEF Remembered, Pending
    <3>5. Remembered(c)'
      BY <3>3, <3>4
    <3>6. CopyCoherent(c)'
      BY <1>2, <2>1, <3>2 DEF Sound, CopyCoherent, PatchEffect
    <3>7. EndpointCoherent(c)'
      BY <1>2, <2>1, <3>2, PatchedEndpoint
    <3> QED
      BY <3>5, <3>6, <3>7 DEF Sound
  <2>3. CASE ~Return(TRUE) /\ ~Return(FALSE)
    <3>1. /\ work' \in Works /\ work'.name = c /\ work' # Idle
          /\ work'.old = work.old /\ work'.again = work.again
          /\ work'.pc # "patchSpec" => work'.ep = work.ep
      BY <1>4, <2>3, WorkStep
    <3>2. \/ work'.pc = "patchStatus"
          \/ /\ work'.pc = "wait"
             /\ PatchStatus /\ ~(work.failed \/ (StatusChanged /\ ~kc[c].exists))
      <4>1. CASE PatchSpec \/ PatchFails
        BY <1>1, <2>3, <4>1 DEF PatchSpec, PatchFails, Works
      <4>2. CASE PatchStatus
        <5> DEFINE failed == work.failed \/ (StatusChanged /\ ~kc[c].exists)
        <5>1. failed = TRUE \/ failed = FALSE
          BY <1>1 DEF Works
        <5>2. \/ (failed \/ work.old.spec # "slow") /\ Return(failed)
              \/ ~failed /\ work' = [work EXCEPT !.pc = "wait"]
          BY <1>4, <4>2 DEF PatchStatus
        <5>3. ~Return(failed)
          <6> HIDE DEF failed
          <6> QED
            BY <2>3, <5>1
        <5>4. ~failed /\ work' = [work EXCEPT !.pc = "wait"]
          BY <5>2, <5>3
        <5> QED
          BY <1>1, <4>2, <5>4 DEF Works
      <4> QED
        BY <4>1, <4>2
    <3>3. Working(c)' /\ Carried(c)' = Carried(c)
      BY <1>4, <3>1, <3>2 DEF Working, Carried
    <3>4. Remembered(c)'
      BY <3>3 DEF Remembered, Pending
    <3>5. CopyCoherent(c)'
      <4>1. c \notin news' => seen'[c] = kc'[c]
        BY <1>2, <2>1 DEF Sound, CopyCoherent, PatchEffect
      <4>2. Working(c)' /\ ~work'.again /\ Passes(seen'[c]) => seen'[c] = work'.old
        BY <1>2, <2>1, <3>1 DEF Sound, CopyCoherent, PatchEffect
      <4>3. work'.pc = "wait" /\ ~work'.again /\ c \notin news' /\ Passes(kc'[c]) => kc'[c].ready
        BY <1>2, <1>4, <3>1, <3>2, PatchedReady
      <4> QED
        BY <4>1, <4>2, <4>3 DEF CopyCoherent, Passes
    <3>6. EndpointCoherent(c)'
      BY <1>2, <2>1, <3>3, PatchedEndpoint
    <3> QED
      BY <3>4, <3>5, <3>6 DEF Sound
  <2> QED
    BY <2>2, <2>3
<1> QED
  BY <1>3, <1>4

\* The latency is over: a KwokCluster that changed meanwhile is reconciled again.
LEMMA WaitStep ==
    ASSUME TypeOK, Coherent, work # Idle, Wait
    PROVE  Coherent'
<1> SUFFICES ASSUME NEW c \in Clusters PROVE Sound(c)'
  BY CoherentParts
<1>1. /\ slept' = slept /\ Queued \subseteq Queued' /\ coming \subseteq coming'
      /\ work' = Idle /\ (work.again => work.name \in Queued')
  BY Returned, TypeParts DEF Wait
<1>2. ObjectsStay(c) /\ news' = news /\ Sound(c)
  BY CoherentParts DEF Wait, ObjectsStay, objectVars, informerVars
<1>3. CASE work.name # c
  BY <1>1, <1>2, <1>3, OthersStay
<1>4. CASE work.name = c
  <2>1. Working(c) /\ ~Working(c)' /\ work.pc = "wait"
    BY <1>1, <1>4 DEF Working, Wait
  <2>2. Passes(kc[c]) => kc[c].ready \/ work.again \/ c \in news
    BY <1>2, <2>1 DEF Sound, CopyCoherent
  <2>3. Remembered(c)'
    BY <1>1, <1>2, <1>4, <2>2 DEF Remembered, Pending, ObjectsStay, Passes
  <2> QED
    BY <1>2, <2>1, <2>3, SoundIdle
<1> QED
  BY <1>3, <1>4

\* The informer delivers a KwokCluster: it is added unless it is held or has gone.
LEMMA SyncStep ==
    ASSUME TypeOK, Coherent, NEW c \in Clusters, Sync(c)
    PROVE  Coherent'
<1> SUFFICES ASSUME NEW n \in Clusters PROVE Sound(n)'
  BY CoherentParts
<1>1. /\ UNCHANGED <<kc, cp, cpSeen, last, slept, coming>> /\ news' = news \ {c}
      /\ seen' = [seen EXCEPT ![c] = kc[c]]
      /\ Passes(kc[c]) => Add(c)
      /\ Add(c) \/ UNCHANGED <<queue, work>>
  BY DEF Sync
<1>2. WorkStays(n) /\ Queued \subseteq Queued'
      /\ (Passes(kc[c]) => (c \in Queued' \/ Working(c)') /\ (Working(c)' => work'.again))
  <2>1. CASE Add(c)
    BY <2>1, SoundAdded
  <2>2. CASE UNCHANGED <<queue, work>> /\ ~Passes(kc[c])
    BY <2>2 DEF WorkStays, Working, Queued
  <2> QED
    BY <1>1, <2>1, <2>2
<1>3. Sound(n)
  BY CoherentParts
<1>4. CASE n # c
  <2>1. ObjectsStay(n)
    BY <1>1, <1>4 DEF ObjectsStay, TypeOK
  <2>2. Pending(n) => Pending(n)'
    BY <1>1, <1>2, <1>4 DEF Pending, WorkStays
  <2> QED
    BY <1>2, <1>3, <2>1, <2>2, SoundStays
<1>5. CASE n = c
  <2>1. seen'[c] = kc[c] /\ kc'[c] = kc[c]
    BY <1>1 DEF TypeOK
  <2>2. Carried(c)' = Carried(c)
    BY <1>2, <1>5 DEF Carried, WorkStays
  <2>3. Remembered(c)'
    BY <1>2, <2>1 DEF Remembered, Pending, Passes
  <2>4. CopyCoherent(c)'
    BY <1>2, <2>1 DEF CopyCoherent, Passes
  <2>5. EndpointCoherent(c)'
    BY <1>1, <1>3, <1>5, <2>2 DEF Sound, EndpointCoherent, NotBehind
  <2> QED
    BY <1>5, <2>3, <2>4, <2>5 DEF Sound
<1> QED
  BY <1>4, <1>5

\* The informer of control planes moves an endpoint one station on.
LEMMA SyncControlPlaneStep ==
    ASSUME TypeOK, Coherent, NEW c \in Clusters, SyncControlPlane(c)
    PROVE  Coherent'
<1> SUFFICES ASSUME NEW n \in Clusters PROVE Sound(n)'
  BY CoherentParts
<1>1. /\ UNCHANGED <<kc, news, seen, cp, last, queue, coming, work, slept>>
      /\ cpSeen' = [cpSeen EXCEPT ![c] = cp[c]]
  BY DEF SyncControlPlane, objectVars, queueVars
<1>2. cpSeen'[n] = cpSeen[n] \/ cpSeen'[n] = cp[n]
  BY <1>1 DEF TypeOK
<1>3. Working(n)' = Working(n) /\ Carried(n)' = Carried(n) /\ Queued' = Queued
  BY <1>1 DEF Working, Carried, Queued
<1>4. Sound(n)
  BY CoherentParts
<1>5. Remembered(n)'
  BY <1>1, <1>3, <1>4 DEF Sound, Remembered, Pending, Passes
<1>6. CopyCoherent(n)'
  BY <1>1, <1>3, <1>4 DEF Sound, CopyCoherent, Passes
<1>7. EndpointCoherent(n)'
  BY <1>1, <1>2, <1>3, <1>4, Numbers DEF Sound, EndpointCoherent, NotBehind
<1> QED
  BY <1>5, <1>6, <1>7 DEF Sound

\* The informers start afresh, and every KwokCluster that is not held is listed.
LEMMA RestartStep == TypeOK /\ Coherent /\ Restart => Coherent'
<1> SUFFICES ASSUME TypeOK, Coherent, Restart, NEW n \in Clusters PROVE Sound(n)'
  BY CoherentParts
<1>1. /\ kc'[n] = kc[n] /\ cp'[n] = cp[n] /\ last'[n] = last[n] /\ seen'[n] = kc[n]
      /\ cpSeen'[n] = cp[n] /\ (Passes(kc[n]) => n \in coming') /\ work' = Idle
  BY DEF Restart, Listed
<1>2. ~Working(n)' /\ Carried(n)' = 0
  BY <1>1 DEF Working, Carried
<1>3. Sound(n)
  BY CoherentParts
<1>4. Remembered(n)'
  BY <1>1 DEF Remembered, Pending, Passes
<1>5. CopyCoherent(n)'
  BY <1>1, <1>2 DEF CopyCoherent
<1>6. EndpointCoherent(n)'
  BY <1>1, <1>2, <1>3, Numbers DEF Sound, EndpointCoherent, NotBehind
<1> QED
  BY <1>4, <1>5, <1>6 DEF Sound

\* Others change a KwokCluster without setting an endpoint; a control plane
\* publishes one that is newer than all before.
LEMMA EnvironmentStep ==
    ASSUME TypeOK, Coherent, NEW c \in Clusters, Environment(c)
    PROVE  Coherent'
<1> SUFFICES ASSUME NEW n \in Clusters PROVE Sound(n)'
  BY CoherentParts
<1>1. UNCHANGED <<seen, cpSeen, queue, coming, work, slept>>
  BY DEF Environment, ChangeKwokCluster, SetOwner, SetPaused, CreateControlPlane, Publish,
         DeleteControlPlane, informerVars, queueVars
<1>2. Working(n)' = Working(n) /\ Carried(n)' = Carried(n) /\ Queued' = Queued
  BY <1>1 DEF Working, Carried, Queued
<1>3. Sound(n)
  BY CoherentParts
<1>4. CASE ChangeKwokCluster(c) \/ SetOwner(c)
  <2>1. UNCHANGED <<cp, last>>
    BY <1>4 DEF ChangeKwokCluster, SetOwner
  <2>2. \E o \in KwokClusters : Stored(c, o) /\ o.ep \in {kc[c].ep, 0}
    <3>1. kc[c] \in KwokClusters
      BY DEF TypeOK
    <3>2. \A spec \in SpecsOf[c] :
             /\ Fresh(spec) \in KwokClusters /\ Fresh(spec).ep = 0
             /\ [kc[c] EXCEPT !.spec = spec] \in KwokClusters
             /\ [kc[c] EXCEPT !.spec = spec].ep = kc[c].ep
      <4>1. ASSUME NEW spec \in SpecsOf[c]
            PROVE  /\ Fresh(spec) \in KwokClusters /\ Fresh(spec).ep = 0
                   /\ [kc[c] EXCEPT !.spec = spec] \in KwokClusters
                   /\ [kc[c] EXCEPT !.spec = spec].ep = kc[c].ep
        <5>1. spec \in Specs
          BY SpecsAssumption
        <5>2. Fresh(spec).ep = 0
          BY DEF Fresh
        <5>3. [kc[c] EXCEPT !.spec = spec].ep = kc[c].ep
          BY <3>1 DEF KwokClusters
        <5> QED
          BY <3>1, <5>1, <5>2, <5>3, ObjectTypes
      <4> QED
        BY <4>1
    <3>3. /\ [kc[c] EXCEPT !.held = ~@] \in KwokClusters
          /\ [kc[c] EXCEPT !.held = ~@].ep = kc[c].ep
          /\ [kc[c] EXCEPT !.owned = TRUE] \in KwokClusters
          /\ [kc[c] EXCEPT !.owned = TRUE].ep = kc[c].ep
      BY <3>1 DEF KwokClusters
    <3>4. Gone \in KwokClusters /\ Gone.ep = 0
      BY ObjectTypes DEF Gone, Fresh
    <3>5. CASE ChangeKwokCluster(c)
      BY <3>2, <3>3, <3>4, <3>5 DEF ChangeKwokCluster
    <3>6. CASE SetOwner(c)
      BY <3>3, <3>6 DEF SetOwner
    <3> QED
      BY <1>4, <3>5, <3>6
  <2>3. PICK o \in KwokClusters : Stored(c, o) /\ o.ep \in {kc[c].ep, 0}
    BY <2>2
  <2>4. /\ kc'[n].ep = kc[n].ep \/ kc'[n].ep = 0
        /\ n \notin news' => kc'[n] = kc[n] /\ n \notin news
    <3>1. kc' = [kc EXCEPT ![c] = o] /\ news' = IF o # kc[c] THEN news \union {c} ELSE news
      BY <2>3 DEF Stored
    <3>2. n = c => kc'[n] = o
      BY <3>1 DEF TypeOK
    <3>3. n # c => kc'[n] = kc[n]
      BY <3>1 DEF TypeOK
    <3> QED
      BY <2>3, <3>1, <3>2, <3>3
  <2>5. Remembered(n)'
    BY <1>1, <1>2, <1>3, <2>4 DEF Sound, Remembered, Pending, Passes
  <2>6. CopyCoherent(n)'
    BY <1>1, <1>2, <1>3, <2>4 DEF Sound, CopyCoherent, Passes
  <2>7. EndpointCoherent(n)'
    BY <1>1, <1>2, <1>3, <2>1, <2>4, Numbers DEF Sound, EndpointCoherent, NotBehind
  <2> QED
    BY <2>5, <2>6, <2>7 DEF Sound
<1>5. CASE SetPaused(c)
  <2>1. ObjectsStay(n) /\ WorkStays(n) /\ (Pending(n) => Pending(n)')
    BY <1>1, <1>2, <1>5 DEF SetPaused, ObjectsStay, WorkStays, Pending
  <2> QED
    BY <1>3, <2>1, SoundStays
<1>6. CASE CreateControlPlane(c) \/ Publish(c) \/ DeleteControlPlane(c)
  <2>1. UNCHANGED <<kc, news>>
    BY <1>6 DEF CreateControlPlane, Publish, DeleteControlPlane
  <2>2. \/ cp'[n].ep = cp[n].ep /\ last'[n] = last[n]
        \/ cp'[n].ep = 0 /\ last'[n] = last[n]
        \/ cp'[n].ep = last[n] + 1 /\ last'[n] = last[n] + 1
    <3>1. cp \in [Clusters -> ControlPlanes] /\ cp[c] \in ControlPlanes
          /\ last \in [Clusters -> Nat]
      BY DEF TypeOK
    <3>2. CASE CreateControlPlane(c)
      BY <3>1, <3>2 DEF CreateControlPlane
    <3>3. CASE Publish(c)
      BY <3>1, <3>3 DEF Publish, ControlPlanes
    <3>4. CASE DeleteControlPlane(c)
      BY <3>1, <3>4 DEF DeleteControlPlane, NoControlPlane
    <3> QED
      BY <1>6, <3>2, <3>3, <3>4
  <2>3. Remembered(n)'
    BY <1>1, <1>2, <1>3, <2>1 DEF Sound, Remembered, Pending, Passes
  <2>4. CopyCoherent(n)'
    BY <1>1, <1>2, <1>3, <2>1 DEF Sound, CopyCoherent, Passes
  <2>5. EndpointCoherent(n)'
    BY <1>1, <1>2, <1>3, <2>1, <2>2, Numbers DEF Sound, EndpointCoherent, NotBehind
  <2> QED
    BY <2>3, <2>4, <2>5 DEF Sound
<1> QED
  BY <1>4, <1>5, <1>6 DEF Environment

\* Every step keeps the invariant.
LEMMA StepCoherent == TypeOK /\ Coherent /\ [Next]_vars => Coherent'
<1> SUFFICES ASSUME TypeOK, Coherent, [Next]_vars PROVE Coherent'
  OBVIOUS
<1>1. CASE Worker
  BY <1>1, SkipStep, BeginStep, GetStep, PatchStep, WaitStep DEF Worker
<1>2. CASE \E c \in Clusters :
             Come(c) \/ Sync(c) \/ SyncControlPlane(c) \/ Resync(c) \/ Environment(c)
  BY <1>2, AddStep, SyncStep, SyncControlPlaneStep, EnvironmentStep
<1>3. CASE Restart
  BY <1>3, RestartStep
<1>4. CASE UNCHANGED vars
  BY <1>4 DEF Coherent, NoneForgotten, CopyCoherent, EndpointCoherent, NotBehind, Carried,
              Working, Passes, Queued, vars, objectVars, informerVars, queueVars
<1> QED
  BY <1>1, <1>2, <1>3, <1>4 DEF Next

\* The informer's copies, the reconcile in flight and the endpoints on their way
\* are coherent in every state.
THEOREM InductiveInvariant == Spec => []Coherent
<1> QED
  BY InitCoherent, StepCoherent, TypeCorrect, PTL DEF Spec

\* No early return, error, panic, failed patch, restart or change by others makes
\* the controller forget a KwokCluster that is not Ready, but for a paused Cluster.
THEOREM NobodyForgotten == Spec => []NoneForgotten
<1>1. Coherent => NoneForgotten
  BY DEF Coherent
<1> QED
  BY <1>1, InductiveInvariant, PTL

\* No step, whatever the informers lag behind, takes an endpoint back.
THEOREM EndpointsNeverGoBack == Spec => EndpointNeverGoesBack
<1> DEFINE Forward ==
      \A c \in Clusters :
         kc[c].exists /\ kc'[c].exists /\ kc'[c].ep # 0 => kc'[c].ep >= kc[c].ep
<1>1. TypeOK /\ Coherent /\ [Next]_vars => [Forward]_vars
  <2> SUFFICES ASSUME TypeOK, Coherent, [Next]_vars, NEW c \in Clusters, kc'[c].ep # 0
               PROVE  kc'[c].ep >= kc[c].ep
    OBVIOUS
  <2>1. Sound(c) /\ kc[c].ep \in Nat
    BY CoherentParts, Numbers
  <2>2. kc'[c].ep \in {kc[c].ep, 0} \/ (Working(c) /\ kc'[c].ep = work.ep)
    <3>1. CASE work # Idle /\ (PatchSpec \/ PatchStatus \/ PatchFails)
      <4>1. work.name = c => Working(c) /\ PatchEffect(c)
        BY <3>1, Patched DEF Working
      <4>2. work.name # c => kc'[c] = kc[c]
        BY <3>1, WorkStep DEF ObjectsStay
      <4> QED
        BY <4>1, <4>2 DEF PatchEffect
    <3>2. CASE kc' = kc
      BY <3>2
    <3>3. CASE \E n \in Clusters : ChangeKwokCluster(n) \/ SetOwner(n)
      <4>1. PICK n \in Clusters : ChangeKwokCluster(n) \/ SetOwner(n)
        BY <3>3
      <4>2. kc[n] \in KwokClusters
        BY DEF TypeOK
      <4>3. \E o : kc' = [kc EXCEPT ![n] = o] /\ o.ep \in {kc[n].ep, 0}
        BY <4>1, <4>2 DEF ChangeKwokCluster, SetOwner, Stored, Fresh, Gone, KwokClusters
      <4> QED
        BY <4>3 DEF TypeOK
    <3>4. kc' = kc \/ (work # Idle /\ (PatchSpec \/ PatchStatus \/ PatchFails))
          \/ \E n \in Clusters : ChangeKwokCluster(n) \/ SetOwner(n)
      BY DEF Next, Worker, Skip, Panic, Begin, Get, Wait, Come, Sync, SyncControlPlane, Resync,
             Restart, Environment, SetPaused, CreateControlPlane, Publish, DeleteControlPlane,
             vars, objectVars
    <3> QED
      BY <3>1, <3>2, <3>3, <3>4
  <2>3. CASE Working(c) /\ kc'[c].ep = work.ep
    BY <2>1, <2>3 DEF Sound, EndpointCoherent, NotBehind, Carried
  <2> QED
    BY <2>1, <2>2, <2>3
<1> QED
  BY <1>1, TypeCorrect, InductiveInvariant, PTL DEF Spec, EndpointNeverGoesBack

-----------------------------------------------------------------------------
(***************************************************************************)
(* The stations of an endpoint implement what is promised of it              *)
(***************************************************************************)

\* At every station an endpoint stays, goes, or is replaced by that of the station
\* before.
LEMMA StationMoves ==
    ASSUME TypeOK, [Next]_vars, NEW n \in Clusters
    PROVE  /\ Carried(n)' \in {Carried(n), 0, cpSeen[n].ep}
           /\ cpSeen'[n].ep \in {cpSeen[n].ep, cp[n].ep}
           /\ \/ last'[n] = last[n] /\ cp'[n].ep \in {cp[n].ep, 0}
              \/ last'[n] = last[n] + 1 /\ cp'[n].ep = last[n] + 1 /\ kc' = kc
<1>1. CASE \E c \in Clusters : Skip(c) \/ Panic(c) \/ Begin(c)
  <2>1. PICK c \in Clusters : Skip(c) \/ Panic(c) \/ Begin(c)
    BY <1>1
  <2>2. work = Idle /\ (work' = Idle \/ work'.ep = 0)
    BY <2>1 DEF Skip, Panic, Begin, Take
  <2>3. UNCHANGED <<cp, cpSeen, last>>
    BY <2>1 DEF Skip, Panic, Begin, objectVars, informerVars
  <2>4. Carried(n) = 0 /\ Carried(n)' = 0
    BY <2>2 DEF Carried, Working
  <2> QED
    BY <2>3, <2>4
<1>2. CASE work # Idle /\ (Get \/ PatchSpec \/ PatchStatus \/ PatchFails \/ Wait)
  <2>1. UNCHANGED <<cp, cpSeen, last>>
    BY <1>2 DEF Get, PatchSpec, PatchStatus, PatchFails, Wait, objectVars, informerVars
  <2>2. work \in Works /\ work.name \in Clusters
    BY <1>2, WorkStep
  <2>3. \/ work' = Idle
        \/ work'.name = work.name /\ work'.ep \in {work.ep, cpSeen[work.name].ep}
    <3>1. CASE Get
      <4>1. CASE Return(TRUE)
        BY <4>1 DEF Return
      <4>2. CASE work' = [work EXCEPT !.pc = "patchSpec", !.ep = cpSeen[work.name].ep]
        BY <2>2, <4>2 DEF Works
      <4> QED
        BY <3>1, <4>1, <4>2 DEF Get
    <3>2. CASE PatchSpec \/ PatchStatus \/ PatchFails \/ Wait
      BY <2>2, <3>2 DEF PatchSpec, PatchStatus, PatchFails, Wait, Return, Works
    <3> QED
      BY <1>2, <3>1, <3>2
  <2>4. Carried(n)' \in {Carried(n), 0, cpSeen[n].ep}
    BY <1>2, <2>3 DEF Carried, Working
  <2> QED
    BY <2>1, <2>4
<1>3. CASE \E c \in Clusters : Come(c) \/ Sync(c) \/ Resync(c)
  <2>1. PICK c \in Clusters : Come(c) \/ Sync(c) \/ Resync(c)
    BY <1>3
  <2>2. UNCHANGED <<cp, cpSeen, last>> /\ (Add(c) \/ work' = work)
    BY <2>1 DEF Come, Sync, Resync, objectVars, informerVars
  <2>3. Add(c) => WorkStays(n)
    BY SoundAdded
  <2>4. Carried(n)' = Carried(n)
    BY <2>2, <2>3 DEF WorkStays, Carried, Working
  <2> QED
    BY <2>2, <2>4
<1>4. CASE \E c \in Clusters : SyncControlPlane(c)
  BY <1>4 DEF SyncControlPlane, TypeOK, objectVars, queueVars, Carried, Working
<1>5. CASE \E c \in Clusters : Environment(c)
  <2>1. PICK c \in Clusters : Environment(c)
    BY <1>5
  <2>2. UNCHANGED <<cpSeen, work>>
    BY <2>1 DEF Environment, ChangeKwokCluster, SetOwner, SetPaused, CreateControlPlane,
                Publish, DeleteControlPlane, informerVars
  <2>3. \/ last'[n] = last[n] /\ cp'[n].ep \in {cp[n].ep, 0}
        \/ last'[n] = last[n] + 1 /\ cp'[n].ep = last[n] + 1 /\ kc' = kc
    <3>1. cp \in [Clusters -> ControlPlanes] /\ cp[c] \in ControlPlanes
          /\ last \in [Clusters -> Nat]
      BY DEF TypeOK
    <3>2. CASE ChangeKwokCluster(c) \/ SetOwner(c) \/ SetPaused(c)
      BY <3>2 DEF ChangeKwokCluster, SetOwner, SetPaused
    <3>3. CASE CreateControlPlane(c)
      BY <3>1, <3>3 DEF CreateControlPlane
    <3>4. CASE Publish(c)
      BY <3>1, <3>4 DEF Publish, ControlPlanes
    <3>5. CASE DeleteControlPlane(c)
      BY <3>1, <3>5 DEF DeleteControlPlane, NoControlPlane
    <3> QED
      BY <2>1, <3>2, <3>3, <3>4, <3>5 DEF Environment
  <2> QED
    BY <2>2, <2>3 DEF Carried, Working
<1>6. CASE Restart
  BY <1>6 DEF Restart, Carried, Working
<1>7. CASE UNCHANGED vars
  BY <1>7 DEF vars, objectVars, informerVars, Carried, Working
<1> QED
  BY <1>1, <1>2, <1>3, <1>4, <1>5, <1>6, <1>7 DEF Next, Worker

\* What may arrive next never becomes older.
LEMMA DueMoves ==
    ASSUME TypeOK, Coherent, [Next]_vars, NEW n \in Clusters
    PROVE  /\ Carried(n) \in {0, Due(n)} /\ Carried(n) <= last[n] /\ kc[n].ep <= last[n]
           /\ Due(n)' \in Due(n) .. (last'[n] + 1)
<1>1. EndpointCoherent(n) /\ EndpointCoherent(n)'
  BY CoherentParts, StepCoherent DEF Sound
<1>2. /\ kc[n].ep \in Nat /\ cp[n].ep \in Nat /\ cpSeen[n].ep \in Nat
      /\ Carried(n) \in Nat /\ last[n] \in Nat
  BY Numbers
<1>3. /\ cp'[n].ep \in Nat /\ cpSeen'[n].ep \in Nat /\ Carried(n)' \in Nat /\ last'[n] \in Nat
  BY <1>2, StationMoves
<1>4. Due(n)' = IF Carried(n)' # 0 THEN Carried(n)'
                ELSE IF cpSeen'[n].ep # 0 THEN cpSeen'[n].ep
                ELSE IF cp'[n].ep # 0 THEN cp'[n].ep
                ELSE last'[n] + 1
  BY DEF Due
<1>5. Due(n)' <= last'[n] + 1 /\ Due(n)' \in Nat /\ Due(n) \in Nat
  BY <1>1, <1>2, <1>3, <1>4 DEF EndpointCoherent, Due
<1>6. Due(n)' >= Due(n)
  BY <1>1, <1>2, <1>3, <1>4, StationMoves DEF Due, EndpointCoherent, NotBehind
<1> QED
  BY <1>1, <1>3, <1>5, <1>6 DEF Due, EndpointCoherent

\* A KwokCluster as its readers see it.
Shown(o) == [exists |-> o.exists, ep |-> o.ep, ready |-> o.ready]

\* It is created bare, deleted, or given what the reconcile in flight carries.
LEMMA KwokClusterMoves ==
    ASSUME TypeOK, [Next]_vars, NEW n \in Clusters
    PROVE  \/ Shown(kc'[n]) = Shown(kc[n])
           \/ ~kc[n].exists /\ Shown(kc'[n]) = Relay!Bare
           \/ Shown(kc'[n]) = Relay!Nothing
           \/ /\ kc[n].exists
              /\ \E ep \in {kc[n].ep, Carried(n)}, ready \in {TRUE, kc[n].ready} :
                    Shown(kc'[n]) = [exists |-> TRUE, ep |-> ep, ready |-> ready]
<1>1. CASE kc' = kc
  BY <1>1 DEF Shown
<1>2. CASE work # Idle /\ (PatchSpec \/ PatchStatus \/ PatchFails)
  <2> DEFINE name == work.name
  <2>1. name \in Clusters /\ Working(name) /\ kc[name] \in KwokClusters
        /\ kc \in [Clusters -> KwokClusters]
    BY <1>2, WorkStep DEF TypeOK
  <2>2. \/ kc' = kc
        \/ /\ kc[name].exists
           /\ kc' \in {[kc EXCEPT ![name] = [kc[name] EXCEPT !.ep = work.ep]],
                       [kc EXCEPT ![name] = [kc[name] EXCEPT !.ready = TRUE]]}
    <3>1. kc = [kc EXCEPT ![name] = kc[name]]
      BY <2>1
    <3> QED
      BY <1>2, <3>1 DEF PatchSpec, PatchStatus, PatchFails, Stored
  <2>3. CASE n = name /\ kc[name].exists /\ kc'[n] = [kc[n] EXCEPT !.ep = work.ep]
    BY <2>1, <2>3 DEF Shown, KwokClusters, Carried
  <2>4. CASE n = name /\ kc[name].exists /\ kc'[n] = [kc[n] EXCEPT !.ready = TRUE]
    BY <2>1, <2>4 DEF Shown, KwokClusters
  <2>5. CASE kc'[n] = kc[n]
    BY <2>5 DEF Shown
  <2> HIDE DEF name
  <2> QED
    BY <2>1, <2>2, <2>3, <2>4, <2>5
<1>3. CASE \E c \in Clusters : ChangeKwokCluster(c) \/ SetOwner(c)
  <2>1. PICK c \in Clusters : ChangeKwokCluster(c) \/ SetOwner(c)
    BY <1>3
  <2>2. kc \in [Clusters -> KwokClusters] /\ kc[c] \in KwokClusters
    BY DEF TypeOK
  <2>3. PICK o : /\ kc' = [kc EXCEPT ![c] = o]
                 /\ \/ Shown(o) = Shown(kc[c])
                    \/ ~kc[c].exists /\ Shown(o) = Relay!Bare
                    \/ Shown(o) = Relay!Nothing
    <3>1. CASE SetOwner(c)
      <4>1. Shown([kc[c] EXCEPT !.owned = TRUE]) = Shown(kc[c])
        BY <2>2 DEF Shown, KwokClusters
      <4> QED
        BY <3>1, <4>1 DEF SetOwner, Stored
    <3>2. CASE ChangeKwokCluster(c)
      <4>1. \A spec : Shown(Fresh(spec)) = Relay!Bare
        BY DEF Shown, Fresh, Relay!Bare
      <4>2. \A spec : Shown([kc[c] EXCEPT !.spec = spec]) = Shown(kc[c])
        BY <2>2 DEF Shown, KwokClusters
      <4>3. Shown([kc[c] EXCEPT !.held = ~@]) = Shown(kc[c])
        BY <2>2 DEF Shown, KwokClusters
      <4>4. Shown(Gone) = Relay!Nothing
        BY DEF Shown, Gone, Fresh, Relay!Nothing
      <4> QED
        BY <3>2, <4>1, <4>2, <4>3, <4>4 DEF ChangeKwokCluster, Stored
    <3> QED
      BY <2>1, <3>1, <3>2
  <2>4. kc'[n] = IF n = c THEN o ELSE kc[n]
    BY <2>2, <2>3
  <2> QED
    BY <2>3, <2>4
<1>4. kc' = kc \/ (work # Idle /\ (PatchSpec \/ PatchStatus \/ PatchFails))
      \/ \E c \in Clusters : ChangeKwokCluster(c) \/ SetOwner(c)
  BY DEF Next, Worker, Skip, Panic, Begin, Get, Wait, Come, Sync, SyncControlPlane, Resync,
         Restart, Environment, SetPaused, CreateControlPlane, Publish, DeleteControlPlane,
         vars, objectVars
<1> QED
  BY <1>1, <1>2, <1>3, <1>4

\* A step is one of the promised ones for every KwokCluster.
LEMMA StepImplementsRelay ==
    ASSUME TypeOK, Coherent, [Next]_vars
    PROVE  Relay!RelayNext
<1> SUFFICES ASSUME NEW n \in Clusters
             PROVE  /\ Relay!Forward(n)
                    /\ Relay!Publish(n) \/ Relay!Show(n) \/ Relay!Appear(n) \/ Relay!Vanish(n)
  BY DEF Relay!RelayNext
<1>1. Relay!Forward(n)
  BY DueMoves DEF Relay!Forward
<1>2. CASE last'[n] = last[n] + 1 /\ kc' = kc
  BY <1>1, <1>2 DEF Relay!Publish
<1>3. CASE last'[n] = last[n]
  <2>1. CASE Shown(kc'[n]) = Shown(kc[n])
    <3>1. CASE kc[n].exists
      <4>1. /\ kc[n].ep \in {0, kc[n].ep, Due(n)} /\ kc[n].ep <= last[n]
            /\ Shown(kc'[n]) = [exists |-> TRUE, ep |-> kc[n].ep, ready |-> kc[n].ready]
        <5>1. kc[n].exists = TRUE
          BY <3>1 DEF TypeOK, KwokClusters
        <5> QED
          BY <2>1, <5>1, DueMoves DEF Shown
      <4> QED
        BY <1>1, <1>3, <3>1, <4>1 DEF Relay!Show, Shown
    <3>2. CASE ~kc[n].exists
      BY <1>1, <1>3, <2>1, <3>2 DEF Relay!Appear, Shown
    <3> QED
      BY <3>1, <3>2
  <2>2. CASE ~kc[n].exists /\ Shown(kc'[n]) = Relay!Bare
    BY <1>1, <1>3, <2>2 DEF Relay!Appear, Shown
  <2>3. CASE Shown(kc'[n]) = Relay!Nothing
    BY <1>1, <1>3, <2>3 DEF Relay!Vanish, Shown
  <2>4. CASE /\ kc[n].exists
             /\ \E ep \in {kc[n].ep, Carried(n)}, ready \in {TRUE, kc[n].ready} :
                   Shown(kc'[n]) = [exists |-> TRUE, ep |-> ep, ready |-> ready]
    <3>1. PICK ep \in {kc[n].ep, Carried(n)}, ready \in {TRUE, kc[n].ready} :
                  Shown(kc'[n]) = [exists |-> TRUE, ep |-> ep, ready |-> ready]
      BY <2>4
    <3>2. ep <= last[n] /\ ep \in {0, kc[n].ep, Due(n)}
      BY <3>1, DueMoves
    <3> QED
      BY <1>1, <1>3, <2>4, <3>1, <3>2 DEF Relay!Show, Shown
  <2> QED
    BY <2>1, <2>2, <2>3, <2>4, KwokClusterMoves
<1> QED
  BY <1>2, <1>3, StationMoves

\* Through two informers, one worker for all clusters, reconciles that keep what
\* they have read, patches in halves, and restarts, the endpoints come to the
\* KwokClusters as EndpointRelay promises.
THEOREM ClustersImplementRelay == Spec => ImplementsRelay
<1>1. Init => Relay!RelayInit
  <2> SUFFICES ASSUME Init PROVE Relay!RelayInit
    OBVIOUS
  <2>1. \A c \in Clusters : Due(c) = 1
    <3> SUFFICES ASSUME NEW c \in Clusters PROVE Due(c) = 1
      OBVIOUS
    <3>1. cp[c].ep = 0 /\ cpSeen[c].ep = 0 /\ last[c] = 0
      BY DEF Init, NoControlPlane
    <3>2. Carried(c) = 0
      BY DEF Init, Carried, Working
    <3> QED
      BY <3>1, <3>2 DEF Due
  <2>2. \A c \in Clusters : [exists |-> kc[c].exists, ep |-> kc[c].ep, ready |-> kc[c].ready]
                               \in {Relay!Nothing, Relay!Bare}
    <3> DEFINE S == {Gone} \union {[Fresh(spec) EXCEPT !.owned = TRUE] : spec \in Specs}
    <3>1. \A o \in S : Shown(o) \in {Relay!Nothing, Relay!Bare}
      BY DEF Shown, Gone, Fresh, Relay!Nothing, Relay!Bare
    <3>2. \A c \in Clusters : kc[c] \in S
      BY DEF Init
    <3> HIDE DEF S
    <3> QED
      BY <3>1, <3>2 DEF Shown
  <2>3. last = [c \in Clusters |-> 0]
    BY DEF Init
  <2>4. [c \in Clusters |-> Due(c)] = [c \in Clusters |-> 1]
    BY <2>1
  <2>5. [c \in Clusters |-> [exists |-> kc[c].exists, ep |-> kc[c].ep, ready |-> kc[c].ready]]
           \in [Clusters -> {Relay!Nothing, Relay!Bare}]
    BY <2>2
  <2> QED
    BY <2>3, <2>4, <2>5 DEF Relay!RelayInit
<1>2. TypeOK /\ Coherent /\ [Next]_vars => [Relay!RelayNext]_Relay!relayVars
  BY StepImplementsRelay
<1> QED
  BY <1>1, <1>2, TypeCorrect, InductiveInvariant, PTL
     DEF Spec, ImplementsRelay, Relay!RelaySpec

\* Once a KwokCluster has shown an endpoint, no older one is ever shown under its
\* name, although it may show none in between, be deleted and be created again.
THEOREM NoOlderEndpoint ==
    ASSUME NEW c \in Clusters, NEW e \in Nat \ {0}
    PROVE  Spec => [](kc[c].ep = e => [](kc[c].ep # 0 => kc[c].ep >= e))
<1> DEFINE Passed == Due(c) >= e /\ (kc[c].ep # 0 => kc[c].ep >= e)
<1>1. TypeOK /\ Coherent /\ kc[c].ep = e => Passed
  <2> SUFFICES ASSUME TypeOK, Coherent, kc[c].ep = e PROVE Passed
    OBVIOUS
  <2>1. EndpointCoherent(c)
    BY CoherentParts DEF Sound
  <2> QED
    BY <2>1, Numbers DEF EndpointCoherent, NotBehind, Due
<1>2. TypeOK /\ Coherent /\ Passed /\ [Next]_vars => Passed'
  <2> SUFFICES ASSUME TypeOK, Coherent, Passed, [Next]_vars PROVE Passed'
    OBVIOUS
  <2>1. Due(c) \in Nat
    BY Numbers DEF Due
  <2>2. Due(c)' >= Due(c) /\ Due(c)' \in Nat /\ Carried(c) \in {0, Due(c)}
    BY <2>1, DueMoves
  <2>3. kc'[c].ep \in {0, kc[c].ep, Carried(c)}
    <3>1. Shown(kc[c]).ep = kc[c].ep /\ Shown(kc'[c]).ep = kc'[c].ep
      BY DEF Shown
    <3>2. \/ Shown(kc'[c]) \in {Shown(kc[c]), Relay!Bare, Relay!Nothing}
          \/ \E ep \in {kc[c].ep, Carried(c)}, ready \in {TRUE, kc[c].ready} :
                Shown(kc'[c]) = [exists |-> TRUE, ep |-> ep, ready |-> ready]
      BY KwokClusterMoves
    <3> QED
      BY <3>1, <3>2 DEF Relay!Bare, Relay!Nothing
  <2>4. kc'[c].ep # 0 => kc'[c].ep >= e
    BY <2>2, <2>3
  <2>5. Due(c)' >= e
    BY <2>1, <2>2
  <2> QED
    BY <2>4, <2>5
<1>3. Passed => (kc[c].ep # 0 => kc[c].ep >= e)
  OBVIOUS
<1> HIDE DEF Passed
<1> QED
  BY <1>1, <1>2, <1>3, TypeCorrect, InductiveInvariant, PTL DEF Spec
=============================================================================
