----------------------- MODULE KwokControlPlaneProofs -----------------------
(***************************************************************************)
(* Proofs about KwokControlPlane, for every bound on installations and      *)
(* faults: type correctness, the inductive invariant behind the safety      *)
(* properties, and that it implements the workload cluster that the         *)
(* machine controller's model assumes.                                      *)
(***************************************************************************)
EXTENDS KwokControlPlane, SequenceTheorems, TLAPS

(***************************************************************************)
(* Type correctness                                                         *)
(***************************************************************************)

\* Fields of the records a reconcile handles.
LEMMA ConstantTypes ==
    /\ 0 \in Gens
    /\ Gone \in Objects
    /\ Idle \in Works
    /\ <<>> \in Plans
    /\ <<"up", "readSecret">> \in Plans
    /\ <<"readSecret", "up", "readSecret">> \in Plans
    /\ <<"up">> \in Plans
    /\ <<"readSecret">> \in Plans
<1>1. 0 \in Gens
  BY BoundsAssumption DEF Gens
<1>2. Gone \in Objects
  BY <1>1 DEF Gone, Objects
<1>3. <<>> \in Plans
  BY DEF Plans
<1> QED
  BY <1>1, <1>2, <1>3 DEF Idle, Works, PCs, Plans

\* Going on with a plan leads to one of its calls, or to the deferred Close.
LEMMA ContinueType ==
    ASSUME NEW w \in Works, Continue(w)
    PROVE  /\ work' \in Works
           /\ work'.pc \in {"up", "readSecret", "patchSpec"}
           /\ work'.old = w.old /\ work'.new = w.new
<1>1. w.plan \in Seq({"up", "readSecret"})
  BY DEF Works, Plans
<1>2. CASE w.plan = <<>>
  BY <1>2 DEF Continue, Works, PCs
<1>3. CASE w.plan # <<>>
  <2>1. Head(w.plan) \in {"up", "readSecret"} /\ Tail(w.plan) \in Plans
    BY <1>1, <1>3, HeadTailProperties DEF Plans
  <2>2. work' = [w EXCEPT !.pc = Head(w.plan), !.plan = Tail(w.plan)]
    BY <1>3 DEF Continue
  <2> QED
    BY <2>1, <2>2 DEF Works, PCs
<1> QED
  BY <1>2, <1>3

\* An error ends the plan and keeps what was modified in memory.
LEMMA RetryType ==
    ASSUME work \in Works, Retry
    PROVE  /\ work' \in Works
           /\ work'.pc = "patchSpec"
           /\ work'.old = work.old /\ work'.new = work.new
<1>1. <<>> \in Plans
  BY ConstantTypes
<1>2. work' = [work EXCEPT !.pc = "patchSpec", !.plan = <<>>, !.again = TRUE]
  BY DEF Retry
<1> QED
  BY <1>1, <1>2 DEF Works, PCs

\* A patch stores an object of the type, or removes it.
LEMMA PatchType ==
    ASSUME cp \in Objects, work \in Works
    PROVE  SpecMerged \in Objects
BY DEF SpecMerged, Merge, Objects, Works

LEMMA FaultType ==
    ASSUME TypeOK, Fault
    PROVE  faults' \in 0 .. MaxFaults
BY BoundsAssumption DEF TypeOK, Fault

LEMMA InitTypeOK == Init => TypeOK
<1> SUFFICES ASSUME Init PROVE TypeOK
  OBVIOUS
<1>1. cp \in Objects /\ cache \in Objects /\ work \in Works /\ gen \in Gens /\ secret \in Gens
  BY ConstantTypes DEF Init
<1>2. kc \in KwokClusters
  BY ConstantTypes DEF Init, NoKwokCluster, KwokClusters
<1>3. faults \in 0 .. MaxFaults
  BY BoundsAssumption DEF Init
<1> QED
  BY <1>1, <1>2, <1>3 DEF Init, TypeOK

\* A step of the reconcile keeps every type.
LEMMA ReconcileTypeOK ==
    ASSUME TypeOK, Start \/ Progress
    PROVE  TypeOK'
<1> USE DEF TypeOK
<1> USE DEF clusterVars, secretVars, objectVars
<1>w. /\ work \in Works /\ cache \in Objects /\ cp \in Objects
      /\ work.old \in Objects /\ work.new \in Objects /\ work.plan \in Plans
  BY DEF Works
<1>1. CASE Skip
  BY <1>1 DEF Skip, Take
<1>2. CASE Begin
  <2>1. work' \in Works
    BY <1>2, <1>w, ConstantTypes DEF Begin, Works, Objects, PCs
  <2> QED
    BY <1>2, <2>1 DEF Begin, Take
<1>3. CASE PatchFinalizer
  <2>1. work' \in Works /\ cp' \in Objects
    BY <1>3, <1>w, RetryType DEF PatchFinalizer, Goto, Works, PCs, Objects
  <2> QED
    BY <1>3, <2>1 DEF PatchFinalizer
<1>4. CASE PatchFinalizerFails
  <2>1. cp' \in Objects
    BY <1>4, <1>w DEF PatchFinalizerFails, Objects
  <2> QED
    BY <1>4, <2>1, FaultType, RetryType DEF PatchFinalizerFails
<1>5. CASE CheckReady
  <2>1. [work EXCEPT !.new.ready = TRUE, !.plan = <<"readSecret">>] \in Works
    BY <1>w, ConstantTypes DEF Works, Objects
  <2>2. [work EXCEPT !.again = TRUE, !.plan = <<"up", "readSecret">>] \in Works
    BY <1>w, ConstantTypes DEF Works
  <2>3. [work EXCEPT !.again = TRUE, !.plan = <<"up">>] \in Works
    BY <1>w, ConstantTypes DEF Works
  <2>4. work' \in Works
    BY <1>5, <2>1, <2>2, <2>3, ContinueType DEF CheckReady
  <2> QED
    BY <1>5, <2>4 DEF CheckReady
<1>6. CASE SaveConfig
  BY <1>6, <1>w DEF SaveConfig, Goto, Works, PCs
<1>7. CASE Install
  <2>1. [work EXCEPT !.again = TRUE, !.plan = <<"up", "readSecret">>] \in Works
    BY <1>w, ConstantTypes DEF Works
  <2>2. [work EXCEPT !.again = TRUE, !.plan = <<"readSecret", "up", "readSecret">>] \in Works
    BY <1>w, ConstantTypes DEF Works
  <2>3. work' \in Works
    BY <1>7, <2>1, <2>2, ContinueType DEF Install
  <2>4. gen' \in Gens
    BY <1>7, BoundsAssumption DEF Install, Gens
  <2> QED
    BY <1>7, <2>3, <2>4 DEF Install
<1>8. CASE CreateFails
  BY <1>8, FaultType, RetryType DEF CreateFails
<1>9. CASE Up
  <2>1. work' \in Works
    BY <1>9, <1>w, RetryType, ContinueType DEF Up
  <2> QED
    BY <1>9, <2>1 DEF Up
<1>10. CASE ReadSecret
  <2>1. [work EXCEPT !.pc = "createSecret", !.new.ep = gen] \in Works
    BY <1>w DEF Works, Objects, PCs
  <2>2. work' \in Works
    BY <1>10, <1>w, <2>1, RetryType, ContinueType DEF ReadSecret
  <2> QED
    BY <1>10, <2>2 DEF ReadSecret
<1>11. CASE CreateSecret
  <2>1. work' \in Works
    BY <1>11, <1>w, ContinueType DEF CreateSecret, Goto, Works, PCs
  <2>2. orphan' \in BOOLEAN
    BY <1>11, <1>w DEF CreateSecret, SecretCreated, Objects
  <2> QED
    BY <1>11, <2>1, <2>2 DEF CreateSecret, SecretCreated
<1>12. CASE WriteFile
  BY <1>12, <1>w, ContinueType DEF WriteFile
<1>13. CASE KubeconfigFails
  <2>1. orphan' \in BOOLEAN /\ secret' \in Gens
    BY <1>13, <1>w DEF KubeconfigFails, SecretCreated, Objects
  <2> QED
    BY <1>13, <2>1, FaultType, RetryType DEF KubeconfigFails
<1>14. CASE Down
  BY <1>14, <1>w DEF Down, Goto, Works, PCs
<1>15. CASE Uninstall
  <2>1. work' \in Works
    BY <1>15, <1>w DEF Uninstall, Works, PCs, Objects
  <2> QED
    BY <1>15, <2>1 DEF Uninstall
<1>16. CASE DeleteFails
  BY <1>16, FaultType, RetryType DEF DeleteFails
<1>17. CASE PatchSpec
  <2>1. cp' \in Objects /\ orphan' \in BOOLEAN
    BY <1>17, <1>w, PatchType, ConstantTypes DEF PatchSpec, Store
  <2>2. work' \in Works
    <3>1. SpecChanged \in BOOLEAN /\ work.again \in BOOLEAN
      BY <1>w DEF SpecChanged, Works
    <3> QED
      BY <1>17, <1>w, <3>1 DEF PatchSpec, Works, PCs
  <2> QED
    BY <1>17, <2>1, <2>2 DEF PatchSpec
<1>18. CASE PatchStatus
  <2>1. cp' \in Objects
    BY <1>18, <1>w DEF PatchStatus, Objects
  <2>2. work' \in Works /\ queue' \in BOOLEAN
    BY <1>18, <1>w, ConstantTypes DEF PatchStatus, End, StatusChanged, Works
  <2> QED
    BY <1>18, <2>1, <2>2 DEF PatchStatus
<1>19. CASE PatchFails
  <2>1. work' \in Works /\ queue' \in BOOLEAN
    BY <1>19, <1>w, ConstantTypes DEF PatchFails, End, Works, PCs
  <2>2. [cp EXCEPT !.ready = work.new.ready] \in Objects
    BY <1>w DEF Objects
  <2>3. cp' \in Objects /\ orphan' \in BOOLEAN
    BY <1>19, <1>w, <2>2, PatchType, ConstantTypes DEF PatchFails, Store
  <2> QED
    BY <1>19, <2>1, <2>3, FaultType DEF PatchFails
<1> QED
  BY <1>1, <1>2, <1>3, <1>4, <1>5, <1>6, <1>7, <1>8, <1>9, <1>10, <1>11, <1>12,
     <1>13, <1>14, <1>15, <1>16, <1>17, <1>18, <1>19 DEF Start, Progress

\* So does everything else that happens.
LEMMA OtherTypeOK ==
    ASSUME TypeOK,
           \/ ReconcileKwokCluster \/ PatchKwokClusterFails
           \/ Sync \/ Resync \/ Restart \/ Environment \/ UNCHANGED vars
    PROVE  TypeOK'
<1> USE DEF TypeOK
<1> USE DEF clusterVars, secretVars, objectVars
<1>1. CASE ReconcileKwokCluster
  <2>1. kc' \in KwokClusters
    BY <1>1 DEF ReconcileKwokCluster, KwokClusters, Objects
  <2> QED
    BY <1>1, <2>1 DEF ReconcileKwokCluster, KwokClusterEvent, KwokClusters
<1>2. CASE PatchKwokClusterFails
  <2>1. kc' \in KwokClusters
    BY <1>2 DEF PatchKwokClusterFails, KwokClusters, Objects
  <2> QED
    BY <1>2, <2>1, FaultType DEF PatchKwokClusterFails, KwokClusterEvent, KwokClusters
<1>3. CASE Sync \/ Resync
  BY <1>3 DEF Sync, Resync
<1>4. CASE Restart
  BY <1>4, FaultType, ConstantTypes DEF Restart
<1>5. CASE CreateControlPlane \/ SetOwner
  <2>1. cp' \in Objects
    BY <1>5, ConstantTypes DEF CreateControlPlane, SetOwner, Objects
  <2> QED
    BY <1>5, <2>1 DEF CreateControlPlane, SetOwner
<1>6. CASE DeleteControlPlane
  <2>1. cp' \in Objects /\ orphan' \in BOOLEAN
    BY <1>6, ConstantTypes DEF DeleteControlPlane, Store, Objects
  <2> QED
    BY <1>6, <2>1 DEF DeleteControlPlane
<1>7. CASE ChangeKwokCluster
  <2>1. NoKwokCluster \in KwokClusters
    BY ConstantTypes DEF NoKwokCluster, KwokClusters
  <2>2. [NoKwokCluster EXCEPT !.exists = TRUE] \in KwokClusters
    BY <2>1 DEF KwokClusters
  <2>3. [kc EXCEPT !.owned = kc.exists] \in KwokClusters
    BY DEF KwokClusters
  <2>4. kc' \in KwokClusters
    BY <1>7, <2>1, <2>2, <2>3 DEF ChangeKwokCluster
  <2> QED
    BY <1>7, <2>4 DEF ChangeKwokCluster, KwokClusterEvent, KwokClusters
<1>8. CASE SetPaused \/ Outage
  BY <1>8 DEF SetPaused, Outage
<1>9. CASE CollectSecret
  BY <1>9, ConstantTypes DEF CollectSecret
<1>10. CASE UNCHANGED vars
  BY <1>10 DEF vars
<1> QED
  BY <1>1, <1>2, <1>3, <1>4, <1>5, <1>6, <1>7, <1>8, <1>9, <1>10 DEF Environment

LEMMA StepTypeOK == TypeOK /\ [Next]_vars => TypeOK'
BY ReconcileTypeOK, OtherTypeOK DEF Next

\* Every variable keeps its type.
THEOREM TypeCorrect == Spec => []TypeOK
<1>1. Init => TypeOK
  BY InitTypeOK
<1>2. TypeOK /\ [Next]_vars => TypeOK'
  BY StepTypeOK
<1> QED
  BY <1>1, <1>2, PTL DEF Spec

(***************************************************************************)
(* The inductive invariant                                                  *)
(***************************************************************************)

\* Nothing is stored, installed or in flight at the start.
LEMMA InitCoherent == Init => Coherent
BY DEF Init, Coherent, StoredCoherent, CacheCoherent, WorkCoherent, GenCoherent,
       Normal, Deletes, Held, Busy, Idle, Gone

\* A reconcile of a live control plane up to the deferred Close.
LEMMA NormalCoherent ==
    ASSUME TypeOK, Coherent,
           \/ CheckReady \/ SaveConfig \/ Install \/ CreateFails \/ Up
           \/ ReadSecret \/ CreateSecret \/ WriteFile \/ KubeconfigFails
    PROVE  Coherent'
<1> USE DEF clusterVars, secretVars, objectVars
<1>w. /\ work \in Works /\ work.old \in Objects /\ work.new \in Objects
      /\ cp \in Objects /\ cache \in Objects /\ orphan \in BOOLEAN /\ running \in BOOLEAN
  BY DEF TypeOK, Works
<1>n. work.pc \in Busy /\ Normal /\ ~Deletes /\ work.new.fin /\ cp.fin
  <2>1. work.pc \in Busy
    BY DEF CheckReady, SaveConfig, Install, CreateFails, Up, ReadSecret, CreateSecret,
           WriteFile, KubeconfigFails, Busy
  <2> QED
    BY <2>1 DEF Coherent, WorkCoherent, Normal, Deletes, Busy
<1> USE DEF Coherent, StoredCoherent, CacheCoherent, WorkCoherent, GenCoherent
<1>1. CASE CheckReady
  <2>1. [work EXCEPT !.new.ready = TRUE, !.plan = <<"readSecret">>] \in Works
    BY <1>w, ConstantTypes DEF Works, Objects
  <2>2. [work EXCEPT !.again = TRUE, !.plan = <<"up", "readSecret">>] \in Works
    BY <1>w, ConstantTypes DEF Works
  <2>3. [work EXCEPT !.again = TRUE, !.plan = <<"up">>] \in Works
    BY <1>w, ConstantTypes DEF Works
  <2>4. /\ work'.pc \in {"up", "readSecret", "patchSpec"} /\ work' \in Works
        /\ work'.old = work.old /\ work'.new.ep = work.new.ep /\ work'.new.fin = work.new.fin
        /\ work'.new.ready = work.new.ready \/ (work'.new.ready /\ conf = "installed")
    <3>1. CASE Answers
      <4> DEFINE w == [work EXCEPT !.new.ready = TRUE, !.plan = <<"readSecret">>]
      <4>1. Continue(w)
        BY <1>1, <3>1 DEF CheckReady
      <4>2. w.old = work.old /\ w.new = [work.new EXCEPT !.ready = TRUE]
        BY <1>w DEF Works
      <4>3. w.new.ep = work.new.ep /\ w.new.fin = work.new.fin /\ w.new.ready
        BY <1>w, <4>2 DEF Objects
      <4>4. conf = "installed"
        BY <3>1 DEF Answers
      <4> HIDE DEF w
      <4> QED
        BY <2>1, <4>1, <4>2, <4>3, <4>4, ContinueType DEF w
    <3>2. CASE ~Answers /\ ReadyFails
      <4>1. Continue([work EXCEPT !.again = TRUE, !.plan = <<"up", "readSecret">>])
        BY <1>1, <3>2 DEF CheckReady
      <4> QED
        BY <1>w, <2>2, <4>1, ContinueType DEF Works
    <3>3. CASE ~Answers /\ ~ReadyFails
      <4>1. Continue([work EXCEPT !.again = TRUE, !.plan = <<"up">>])
        BY <1>1, <3>3 DEF CheckReady
      <4> QED
        BY <1>w, <2>3, <4>1, ContinueType DEF Works
    <3> QED
      BY <3>1, <3>2, <3>3
  <2>5. UNCHANGED <<clusterVars, secretVars, cp, cache>>
    BY <1>1 DEF CheckReady
  <2> QED
    BY <1>n, <2>4, <2>5 DEF Normal, Deletes, Held, Busy
<1>2. CASE SaveConfig
  BY <1>2, <1>w, <1>n DEF SaveConfig, Goto, Works, Normal, Deletes, Held, Busy
<1>3. CASE Install
  <2>1. [work EXCEPT !.again = TRUE, !.plan = <<"up", "readSecret">>] \in Works
    BY <1>w, ConstantTypes DEF Works
  <2>2. [work EXCEPT !.again = TRUE, !.plan = <<"readSecret", "up", "readSecret">>] \in Works
    BY <1>w, ConstantTypes DEF Works
  <2>3. /\ work'.pc \in {"up", "readSecret", "patchSpec"} /\ work' \in Works
        /\ work'.old = work.old /\ work'.new = work.new
    BY <1>3, <1>w, <2>1, <2>2, ContinueType DEF Install, Works
  <2>4. /\ conf = "saved" /\ work.new.ep = work.old.ep /\ ~running
        /\ work.new.ready = work.old.ready
        /\ cp.ep = 0 /\ (secret = 0 \/ orphan)
    BY <1>3, <1>w, <1>n DEF Install
  <2>5. conf' = "installed" /\ UNCHANGED <<running, secretVars, cp, cache>>
    BY <1>3 DEF Install
  <2> QED
    BY <1>n, <2>3, <2>4, <2>5 DEF Normal, Deletes, Held, Busy
<1>4. CASE CreateFails
  <2>1. /\ work' \in Works /\ work'.pc = "patchSpec"
        /\ work'.old = work.old /\ work'.new = work.new
    BY <1>4, <1>w, RetryType DEF CreateFails
  <2>2. /\ conf = "none" \/ conf = "saved"
        /\ conf' \in {"none", "saved"}
        /\ UNCHANGED <<gen, running, secretVars, cp, cache>>
    BY <1>4, <1>w DEF CreateFails
  <2> QED
    BY <1>n, <2>1, <2>2 DEF Normal, Deletes, Held, Busy
<1>5. CASE Up
  <2>1. /\ work' \in Works /\ work'.pc \in {"up", "readSecret", "patchSpec"}
        /\ work'.old = work.old /\ work'.new = work.new
    BY <1>5, <1>w, RetryType, ContinueType DEF Up
  <2>2. /\ running' \in BOOLEAN /\ (running' /\ ~running => conf = "installed")
        /\ UNCHANGED <<gen, conf, secretVars, cp, cache>>
    BY <1>5, <1>w DEF Up
  <2> QED
    BY <1>n, <2>1, <2>2 DEF Normal, Deletes, Held, Busy
<1>6. CASE ReadSecret
  <2>1. UNCHANGED <<clusterVars, secretVars, cp, cache>>
    BY <1>6 DEF ReadSecret
  <2>2. CASE secret = 0 /\ KubeconfigReadable
    <3>1. /\ work'.pc = "createSecret" /\ work'.new.ep = gen
          /\ work'.new.fin = work.new.fin /\ work'.old = work.old
          /\ work'.new.ready = work.new.ready
      <4>1. work' = [work EXCEPT !.pc = "createSecret", !.new.ep = gen]
        BY <1>6, <2>2 DEF ReadSecret
      <4> QED
        BY <1>w, <4>1 DEF Works, Objects
    <3>2. conf = "installed"
      BY <2>2 DEF KubeconfigReadable
    <3> QED
      BY <1>n, <2>1, <2>2, <3>1, <3>2 DEF Normal, Deletes, Held, Busy
  <2>3. CASE ~(secret = 0 /\ KubeconfigReadable)
    <3>1. /\ work' \in Works /\ work'.pc \in {"up", "readSecret", "patchSpec"}
          /\ work'.old = work.old /\ work'.new = work.new
      BY <1>6, <1>w, <2>3, RetryType, ContinueType DEF ReadSecret
    <3> QED
      BY <1>n, <2>1, <3>1 DEF Normal, Deletes, Held, Busy
  <2> QED
    BY <2>2, <2>3
<1>7. CASE CreateSecret
  <2>1. /\ work'.pc \in {"writeFile", "up", "readSecret", "patchSpec"}
        /\ work'.old = work.old /\ work'.new = work.new
    BY <1>7, <1>w, ContinueType DEF CreateSecret, Goto, Works
  <2>2. conf = "installed" /\ secret' = gen /\ UNCHANGED <<clusterVars, cp, cache>>
    BY <1>7 DEF CreateSecret, SecretCreated
  <2> QED
    BY <1>n, <2>1, <2>2 DEF Normal, Deletes, Held, Busy
<1>8. CASE WriteFile
  <2>1. /\ work'.pc \in {"up", "readSecret", "patchSpec"}
        /\ work'.old = work.old /\ work'.new = work.new
    BY <1>8, <1>w, ContinueType DEF WriteFile
  <2>2. UNCHANGED <<gen, conf, running, secretVars, cp, cache>>
    BY <1>8 DEF WriteFile
  <2> QED
    BY <1>n, <2>1, <2>2 DEF Normal, Deletes, Held, Busy
<1>9. CASE KubeconfigFails
  <2>1. /\ work'.pc = "patchSpec"
        /\ work'.old = work.old /\ work'.new = work.new
    BY <1>9, <1>w, RetryType DEF KubeconfigFails
  <2>2. /\ UNCHANGED <<clusterVars, cp, cache>>
        /\ \/ UNCHANGED secretVars
           \/ conf = "installed" /\ secret' = gen
    BY <1>9, <1>n DEF KubeconfigFails, SecretCreated
  <2> QED
    BY <1>n, <2>1, <2>2 DEF Normal, Deletes, Held, Busy
<1> QED
  BY <1>1, <1>2, <1>3, <1>4, <1>5, <1>6, <1>7, <1>8, <1>9

\* The patch of the finalizer, and the removal of the cluster.
LEMMA FinalizerCoherent ==
    ASSUME TypeOK, Coherent,
           \/ PatchFinalizer \/ PatchFinalizerFails
           \/ Down \/ Uninstall \/ DeleteFails
    PROVE  Coherent'
<1> USE DEF clusterVars, secretVars, objectVars
<1>w. /\ work \in Works /\ work.old \in Objects /\ work.new \in Objects
      /\ cp \in Objects /\ cache \in Objects
  BY DEF TypeOK, Works
<1> USE DEF Coherent, StoredCoherent, CacheCoherent, WorkCoherent, GenCoherent
<1>1. CASE PatchFinalizer \/ PatchFinalizerFails
  <2>1. work.pc = "finalizer" /\ Normal /\ ~Deletes /\ work.new.fin
    BY <1>1 DEF PatchFinalizer, PatchFinalizerFails, Normal, Deletes
  <2>2. CASE cp' = cp /\ Retry
    <3>1. /\ work'.pc = "patchSpec"
          /\ work'.old = work.old /\ work'.new = work.new
      BY <1>w, <2>2, RetryType
    <3>2. UNCHANGED <<clusterVars, secretVars, cp, cache>>
      BY <1>1, <2>2 DEF PatchFinalizer, PatchFinalizerFails
    <3> QED
      BY <2>1, <3>1, <3>2 DEF Normal, Deletes, Held, Busy
  <2>3. CASE /\ cp.phase # "absent" /\ cp' = [cp EXCEPT !.fin = TRUE]
             /\ Goto("config") \/ Retry
    <3>1. /\ cp'.fin /\ cp'.phase = cp.phase /\ cp'.ep = cp.ep /\ cp'.ready = cp.ready
          /\ work'.pc \in {"config", "patchSpec"}
          /\ work'.old = work.old /\ work'.new = work.new
      BY <1>w, <2>3, RetryType DEF Goto, Works, Objects
    <3>2. UNCHANGED <<clusterVars, secretVars, cache>>
      BY <1>1 DEF PatchFinalizer, PatchFinalizerFails
    <3> QED
      BY <2>1, <2>3, <3>1, <3>2 DEF Normal, Deletes, Held, Busy
  <2> QED
    BY <1>1, <2>2, <2>3 DEF PatchFinalizer, PatchFinalizerFails
<1>2. CASE Down
  <2>1. /\ work'.pc = "uninstall" /\ work'.old = work.old /\ work'.new = work.new
        /\ ~running' /\ UNCHANGED <<gen, conf, secretVars, cp, cache>>
    BY <1>2, <1>w DEF Down, Goto, Works
  <2> QED
    BY <1>2, <2>1 DEF Down, Normal, Deletes, Held, Busy
<1>3. CASE Uninstall
  <2>1. work.pc = "uninstall" /\ Deletes /\ ~Normal /\ ~running /\ work.old.ep = work.new.ep
        /\ work.old.ready = work.new.ready
    BY <1>3, <1>w DEF Uninstall, Normal, Deletes, Busy, Objects
  <2>2. /\ work'.pc = "patchSpec" /\ work'.old = work.old
        /\ work'.new.fin = FALSE /\ work'.new.ep = work.new.ep
        /\ work'.new.ready = work.new.ready
    BY <1>3, <1>w DEF Uninstall, Works, Objects
  <2>3. conf' = "none" /\ UNCHANGED <<gen, running, secretVars, cp, cache>>
    BY <1>3 DEF Uninstall
  <2>4. conf # "none" => cp.phase = "deleting" /\ cache.phase = "deleting"
    BY <1>w, <2>1 DEF Objects, Held
  <2> QED
    BY <2>1, <2>2, <2>3, <2>4 DEF Normal, Deletes, Held, Busy
<1>4. CASE DeleteFails
  <2>1. Deletes /\ ~Normal /\ work.old.ep = work.new.ep /\ work.new.fin
        /\ work.old.ready = work.new.ready
    BY <1>4, <1>w DEF DeleteFails, Normal, Deletes, Busy, Objects
  <2>2. /\ work'.pc = "patchSpec"
        /\ work'.old = work.old /\ work'.new = work.new
    BY <1>4, <1>w, RetryType DEF DeleteFails
  <2>3. conf # "none" => cp.phase = "deleting" /\ cache.phase = "deleting"
    BY <1>w, <2>1 DEF Objects, Held
  <2>4. /\ UNCHANGED <<gen, secretVars, cp, cache>>
        /\ running' => running
        /\ conf' = conf \/ (conf' = "none" /\ ~running')
    BY <1>4, <2>1 DEF DeleteFails
  <2> QED
    BY <2>1, <2>2, <2>3, <2>4 DEF Normal, Deletes, Held, Busy
<1> QED
  BY <1>1, <1>2, <1>3, <1>4

\* What the two halves of the deferred patch do to the stored object.
LEMMA PatchEffect ==
    ASSUME cp \in Objects, work \in Works
    PROVE  /\ SpecMerged.phase = cp.phase
           /\ SpecMerged.fin = IF work.new.fin # work.old.fin THEN work.new.fin ELSE cp.fin
           /\ SpecMerged.ep = IF work.new.ep # work.old.ep THEN work.new.ep ELSE cp.ep
           /\ SpecMerged.ready = cp.ready
BY DEF SpecMerged, Merge, Objects, Works

\* The two halves of the deferred patch, with the failures of each.
SpecHalf == PatchSpec \/ (PatchFails /\ work.pc = "patchSpec")
StatusHalf == PatchStatus \/ (PatchFails /\ work.pc = "patchStatus")

LEMMA SpecHalfStep ==
    ASSUME TypeOK, SpecHalf
    PROVE  /\ work.pc = "patchSpec" /\ work'.pc = "patchStatus"
           /\ work'.old = work.old /\ work'.new = work.new
           /\ UNCHANGED <<clusterVars, secret, cache, kc>>
           /\ \/ UNCHANGED <<cp, orphan>>
              \/ cp.phase # "absent" /\ Store(SpecMerged)
<1>1. work \in Works
  BY DEF TypeOK
<1>2. CASE PatchSpec
  BY <1>1, <1>2 DEF PatchSpec, Works
<1>3. CASE PatchFails /\ work.pc = "patchSpec"
  BY <1>1, <1>3 DEF PatchFails, Works
<1> QED
  BY <1>2, <1>3 DEF SpecHalf

LEMMA StatusHalfStep ==
    ASSUME TypeOK, StatusHalf
    PROVE  /\ work' = Idle /\ UNCHANGED <<clusterVars, secretVars, cache, kc>>
           /\ cp'.phase = cp.phase /\ cp'.fin = cp.fin /\ cp'.ep = cp.ep
           /\ cp'.ready = cp.ready \/ (StatusChanged /\ cp'.ready = work.new.ready)
<1>1. cp \in Objects
  BY DEF TypeOK
<1>2. /\ work' = Idle /\ UNCHANGED <<clusterVars, secretVars, cache, kc>>
      /\ cp' = cp \/ (StatusChanged /\ cp' = [cp EXCEPT !.ready = work.new.ready])
  BY DEF StatusHalf, PatchStatus, PatchFails, End, secretVars
<1> QED
  BY <1>1, <1>2 DEF Objects

LEMMA PatchHalves == PatchSpec \/ PatchStatus \/ PatchFails <=> SpecHalf \/ StatusHalf
BY DEF SpecHalf, StatusHalf, PatchFails

\* The deferred patch: it drops the stored finalizer only with nothing left.
LEMMA PatchCoherent ==
    ASSUME TypeOK, Coherent, SpecHalf \/ StatusHalf
    PROVE  Coherent'
<1> USE DEF clusterVars, secretVars, objectVars
<1>w. /\ work \in Works /\ work.old \in Objects /\ work.new \in Objects
      /\ cp \in Objects /\ cache \in Objects /\ conf \in {"none", "saved", "installed"}
  BY DEF TypeOK, Works
<1>i. Idle.pc = "idle" /\ Idle.old.phase = "absent" /\ Idle.new = Idle.old
  BY DEF Idle, Gone
<1> USE DEF Coherent, StoredCoherent, CacheCoherent, WorkCoherent, GenCoherent
<1>1. CASE SpecHalf
  <2>1. /\ work.pc = "patchSpec" /\ work'.pc = "patchStatus"
        /\ work'.old = work.old /\ work'.new = work.new
    BY <1>1, SpecHalfStep
  <2>2. UNCHANGED <<clusterVars, secret, cache>>
    BY <1>1, SpecHalfStep
  <2>3. CASE UNCHANGED <<cp, orphan>>
    BY <1>w, <2>1, <2>2, <2>3 DEF Normal, Deletes, Held, Busy
  <2>4. CASE cp.phase # "absent" /\ Store(SpecMerged)
    <3>1. CASE SpecMerged.phase = "deleting" /\ ~SpecMerged.fin
      <4>1. cp' = Gone /\ orphan' = (secret # 0)
        BY <2>4, <3>1 DEF Store
      <4>2. Deletes /\ ~work.new.fin /\ ~Normal
        BY <1>w, <2>1, <3>1, PatchEffect DEF Normal, Deletes, Objects
      <4>3. conf = "none" /\ ~running
        BY <4>2
      <4> QED
        BY <1>w, <2>1, <2>2, <4>1, <4>2, <4>3 DEF Normal, Deletes, Held, Busy, Gone
    <3>2. CASE ~(SpecMerged.phase = "deleting" /\ ~SpecMerged.fin)
      <4>1. cp' = SpecMerged /\ UNCHANGED orphan
        BY <2>4, <3>2 DEF Store
      <4>2. /\ cp'.phase = cp.phase
            /\ cp'.fin = IF work.new.fin # work.old.fin THEN work.new.fin ELSE cp.fin
            /\ cp'.ep = IF work.new.ep # work.old.ep THEN work.new.ep ELSE cp.ep
            /\ cp'.ready = cp.ready
        BY <1>w, <4>1, PatchEffect
      <4>3. CASE Normal
        BY <1>w, <2>1, <2>2, <2>4, <3>2, <4>1, <4>2, <4>3 DEF Normal, Deletes, Held, Busy, Objects
      <4>4. CASE Deletes
        BY <1>w, <2>1, <2>2, <2>4, <3>2, <4>1, <4>2, <4>4 DEF Normal, Deletes, Held, Busy, Objects
      <4> QED
        BY <2>1, <4>3, <4>4
    <3> QED
      BY <3>1, <3>2
  <2> QED
    BY <1>1, <2>3, <2>4, SpecHalfStep
<1>2. CASE StatusHalf
  <2>1. /\ work' = Idle /\ UNCHANGED <<clusterVars, secretVars, cache>>
        /\ cp'.phase = cp.phase /\ cp'.fin = cp.fin /\ cp'.ep = cp.ep
    BY <1>2, StatusHalfStep
  <2>2. cp'.ready = cp.ready \/ conf = "installed"
    BY <1>2, StatusHalfStep DEF StatusChanged
  <2> QED
    BY <1>i, <1>w, <2>1, <2>2 DEF Normal, Deletes, Held, Busy
<1> QED
  BY <1>1, <1>2

\* A reconcile begins with a copy of which the invariant says enough.
LEMMA BeginCoherent ==
    ASSUME TypeOK, Coherent, Start
    PROVE  Coherent'
<1> USE DEF clusterVars, secretVars, objectVars
<1>w. cache \in Objects /\ cp \in Objects
  BY DEF TypeOK
<1> USE DEF Coherent, StoredCoherent, CacheCoherent, WorkCoherent, GenCoherent
<1>1. CASE Skip
  BY <1>1 DEF Skip, Take, Normal, Deletes, Held, Busy
<1>2. CASE Begin
  <2>1. /\ work = Idle /\ ~Normal /\ ~Deletes
        /\ UNCHANGED <<clusterVars, secretVars, cp, cache>>
    BY <1>2 DEF Begin, Take, Idle, Gone, Normal, Deletes
  <2>2. CASE cache.phase = "live"
    <3>1. work' = [[Idle EXCEPT !.old = cache, !.new = cache]
                     EXCEPT !.pc = IF cache.fin THEN "config" ELSE "finalizer", !.new.fin = TRUE]
      BY <1>2, <2>2 DEF Begin
    <3>2. /\ work'.old = cache /\ work'.new.fin /\ work'.new.ep = cache.ep
          /\ work'.new.ready = cache.ready
          /\ work'.pc = IF cache.fin THEN "config" ELSE "finalizer"
      BY <1>w, <3>1 DEF Idle, Objects
    <3> QED
      BY <2>1, <2>2, <3>2 DEF Normal, Deletes, Held, Busy
  <2>3. CASE cache.phase = "deleting" /\ conf = "none"
    <3>1. work' = [[Idle EXCEPT !.old = cache, !.new = cache]
                     EXCEPT !.pc = "patchSpec", !.new.fin = FALSE]
      BY <1>2, <2>3 DEF Begin
    <3>2. /\ work'.old = cache /\ ~work'.new.fin /\ work'.new.ep = cache.ep
          /\ work'.new.ready = cache.ready
          /\ work'.pc = "patchSpec"
      BY <1>w, <3>1 DEF Idle, Objects
    <3> QED
      BY <2>1, <2>3, <3>2 DEF Normal, Deletes, Held, Busy
  <2>4. CASE cache.phase = "deleting" /\ conf # "none"
    <3>1. work' = [[Idle EXCEPT !.old = cache, !.new = cache] EXCEPT !.pc = "down"]
      BY <1>2, <2>4 DEF Begin
    <3>2. work'.old = cache /\ work'.new = cache /\ work'.pc = "down"
      BY <1>w, <3>1 DEF Idle
    <3> QED
      BY <2>1, <2>4, <3>2 DEF Normal, Deletes, Held, Busy
  <2> QED
    BY <1>2, <1>w, <2>2, <2>3, <2>4 DEF Begin, Objects
<1> QED
  BY <1>1, <1>2 DEF Start

\* What the watch, restarts, users, outages and garbage collection do.
LEMMA OtherCoherent ==
    ASSUME TypeOK, Coherent,
           \/ ReconcileKwokCluster \/ PatchKwokClusterFails
           \/ Sync \/ Resync \/ Restart \/ Environment \/ UNCHANGED vars
    PROVE  Coherent'
<1> USE DEF clusterVars, secretVars, objectVars
<1>w. cache \in Objects /\ cp \in Objects /\ running \in BOOLEAN
  BY DEF TypeOK
<1> USE DEF Coherent, StoredCoherent, CacheCoherent, WorkCoherent, GenCoherent,
            Normal, Deletes, Held, Busy
<1>1. CASE UNCHANGED <<clusterVars, secretVars, cp, cache, work>>
  BY <1>1
<1>2. CASE ReconcileKwokCluster \/ PatchKwokClusterFails \/ Resync \/ ChangeKwokCluster
              \/ SetPaused \/ UNCHANGED vars
  BY <1>1, <1>2 DEF ReconcileKwokCluster, PatchKwokClusterFails, Resync, ChangeKwokCluster,
                    SetPaused, vars
<1>3. CASE Sync
  BY <1>3, <1>w DEF Sync, Objects
<1>4. CASE Restart
  BY <1>4, <1>w DEF Restart, Idle, Gone, Objects
<1>5. CASE CreateControlPlane
  BY <1>5, <1>w DEF CreateControlPlane, Gone
<1>6. CASE SetOwner
  <2>1. cp'.phase = cp.phase /\ cp'.fin = cp.fin /\ cp'.ep = cp.ep /\ cp'.ready = cp.ready
    BY <1>6, <1>w DEF SetOwner, Objects
  <2> QED
    BY <1>6, <2>1 DEF SetOwner
<1>7. CASE DeleteControlPlane
  <2>1. CASE cp.fin
    <3>1. /\ cp'.phase = "deleting" /\ cp'.fin = cp.fin /\ cp'.ep = cp.ep
          /\ cp'.ready = cp.ready /\ orphan' = orphan
      BY <1>7, <1>w, <2>1 DEF DeleteControlPlane, Store, Objects
    <3> QED
      BY <1>7, <2>1, <3>1 DEF DeleteControlPlane
  <2>2. CASE ~cp.fin
    <3>1. cp' = Gone /\ orphan' = (secret # 0)
      BY <1>7, <1>w, <2>2 DEF DeleteControlPlane, Store, Objects
    <3> QED
      BY <1>7, <1>w, <2>2, <3>1 DEF DeleteControlPlane, Gone
  <2> QED
    BY <2>1, <2>2
<1>8. CASE Outage
  BY <1>8 DEF Outage
<1>9. CASE CollectSecret
  BY <1>9 DEF CollectSecret
<1> QED
  BY <1>2, <1>3, <1>4, <1>5, <1>6, <1>7, <1>8, <1>9 DEF Environment

LEMMA StepCoherent == TypeOK /\ Coherent /\ [Next]_vars => Coherent'
BY BeginCoherent, FinalizerCoherent, NormalCoherent, PatchHalves, PatchCoherent,
   OtherCoherent
   DEF Next, Progress

\* The inductive invariant holds in every reachable state.
THEOREM InductiveInvariant == Spec => [](TypeOK /\ Coherent)
<1>1. Init => TypeOK /\ Coherent
  BY InitTypeOK, InitCoherent
<1>2. TypeOK /\ Coherent /\ [Next]_vars => (TypeOK /\ Coherent)'
  BY StepTypeOK, StepCoherent
<1> QED
  BY <1>1, <1>2, PTL DEF Spec

\* A cluster that is on disk or runs always has a control plane held by its
\* finalizer, for any number of failures, restarts and recreations.
THEOREM NoClusterIsOrphaned == Spec => []NoOrphanCluster
<1>1. Coherent => NoOrphanCluster
  BY DEF Coherent, StoredCoherent, NoOrphanCluster
<1> QED
  BY <1>1, InductiveInvariant, PTL

\* The published endpoint and the secret a control plane owns lead to the
\* cluster installed last, for any number of installations.
THEOREM AccessStaysCurrent == Spec => []AccessIsCurrent
<1>1. Coherent => AccessIsCurrent
  BY DEF Coherent, StoredCoherent, AccessIsCurrent
<1> QED
  BY <1>1, InductiveInvariant, PTL

\* Nothing is published of a live control plane without its installed cluster, for
\* any number of lives under one name and any stale copy.
THEOREM PublishedMeansInstalled == Spec => []PublishedIsInstalled
<1>1. Coherent => PublishedIsInstalled
  BY DEF Coherent, GenCoherent, PublishedIsInstalled
<1> QED
  BY <1>1, InductiveInvariant, PTL

\* What a step does to the stored control plane while it is there: Ready and an
\* endpoint are added by the deferred patch, with the cluster installed.
LEMMA StoredMoves ==
    ASSUME TypeOK, Coherent, [Next]_vars
    PROVE  /\ \/ cp'.ep = cp.ep
              \/ cp'.ep = 0 /\ (cp.phase = "absent" \/ cp'.phase = "absent")
              \/ cp'.ep = gen /\ conf = "installed" /\ gen' = gen /\ conf' = conf
           /\ cp'.ready = cp.ready \/ cp.phase = "absent" \/ cp'.phase = "absent"
              \/ cp'.ready
<1> USE DEF clusterVars, secretVars, objectVars
<1>w. cp \in Objects /\ work \in Works
  BY DEF TypeOK
<1>1. CASE cp' = cp
  BY <1>1
<1>2. CASE PatchFinalizer \/ PatchFinalizerFails \/ SetOwner
  BY <1>2, <1>w DEF PatchFinalizer, PatchFinalizerFails, SetOwner, Objects
<1>3. CASE SpecHalf
  <2>1. CASE cp' = SpecMerged
    <3>1. UNCHANGED <<gen, conf>>
      BY <1>3, SpecHalfStep
    <3>2. work.new.ep # work.old.ep => work.new.ep = gen /\ conf = "installed"
      BY DEF Coherent, WorkCoherent
    <3> QED
      BY <1>w, <2>1, <3>1, <3>2, PatchEffect
  <2>2. CASE cp' = Gone
    BY <2>2 DEF Gone
  <2> QED
    BY <1>1, <1>3, <2>1, <2>2, SpecHalfStep DEF Store
<1>4. CASE StatusHalf
  <2>1. StatusChanged => work.new.ready
    BY DEF Coherent, WorkCoherent, StatusChanged
  <2> QED
    BY <1>4, <1>w, <2>1, StatusHalfStep
<1>5. CASE CreateControlPlane
  BY <1>5 DEF CreateControlPlane, Gone
<1>6. CASE DeleteControlPlane
  <2>1. cp' = Gone \/ cp' = [cp EXCEPT !.phase = "deleting"]
    BY <1>6 DEF DeleteControlPlane, Store
  <2> QED
    BY <1>w, <2>1 DEF Gone, Objects
<1> QED
  BY <1>1, <1>2, <1>3, <1>4, <1>5, <1>6, PatchHalves
     DEF Next, Start, Progress, Environment, vars, Skip, Begin, CheckReady, SaveConfig,
         Install, CreateFails, Up, ReadSecret, CreateSecret, WriteFile, KubeconfigFails,
         Down, Uninstall, DeleteFails, ReconcileKwokCluster, PatchKwokClusterFails, Sync, Resync, Restart,
         ChangeKwokCluster, SetPaused, Outage, CollectSecret

\* No patch, whatever copy it was made from, takes back that a control plane is
\* Ready, or gives it another endpoint than it had.
THEOREM PublishedStays == Spec => PublishedIsKept
<1> DEFINE Kept ==
      cp.phase # "absent" /\ cp'.phase # "absent" =>
         /\ cp.ready => cp'.ready
         /\ cp.ep # 0 => cp'.ep = cp.ep
<1>1. TypeOK /\ Coherent /\ [Next]_vars => [Kept]_vars
  BY StoredMoves DEF Coherent, StoredCoherent
<1> QED
  BY <1>1, InductiveInvariant, PTL DEF Spec, PublishedIsKept

(***************************************************************************)
(* The control plane implements the machine controller's workload cluster   *)
(***************************************************************************)

\* A step of the workload cluster, or none.
WorkloadStep == [Workload!WorkloadSteps \/ Workload!WorkloadDown]_Workload!clientVars

\* A step that changes neither generation, secret nor server is none.
LEMMA Stutters ==
    ASSUME UNCHANGED <<gen, conf, running, secret>>
    PROVE  WorkloadStep
BY DEF WorkloadStep, Workload!clientVars, Server

\* Whatever starts or stops an installed cluster is a start or a stop.
LEMMA StartsOrStops ==
    ASSUME TypeOK, running' \in BOOLEAN,
           running => conf = "installed",
           running' => conf = "installed",
           UNCHANGED <<gen, conf, secret>>
    PROVE  WorkloadStep
<1>1. running \in BOOLEAN
  BY DEF TypeOK
<1>2. CASE running' = running
  BY <1>2, Stutters
<1>3. CASE running' /\ ~running
  <2>1. Server = "stopped" /\ Server' = "running"
    BY <1>3 DEF Server
  <2> QED
    BY <2>1 DEF WorkloadStep, Workload!WorkloadSteps, Workload!WorkloadStart, Workload!clientVars
<1>4. CASE ~running' /\ running
  <2>1. Server = "running" /\ Server' = "stopped"
    BY <1>4 DEF Server
  <2> QED
    BY <2>1 DEF WorkloadStep, Workload!WorkloadSteps, Workload!WorkloadStop, Workload!clientVars
<1> QED
  BY <1>1, <1>2, <1>3, <1>4

\* A secret is published for an installed cluster that has none.
LEMMA Publishes ==
    ASSUME conf = "installed", secret = 0, secret' = gen,
           UNCHANGED <<gen, conf, running>>
    PROVE  WorkloadStep
<1>1. Server # "none" /\ Server' = Server
  BY DEF Server
<1> QED
  BY <1>1 DEF WorkloadStep, Workload!WorkloadSteps, Workload!PublishKubeconfig

\* With its directory an installed cluster goes, running or not.
LEMMA Removes ==
    ASSUME TypeOK, conf' = "none", UNCHANGED <<gen, secret>>
    PROVE  WorkloadStep
<1>1. Server' = "none"
  BY DEF Server
<1>2. CASE conf = "installed"
  <2>1. Server # "none"
    BY <1>2 DEF Server
  <2> QED
    BY <1>1, <2>1 DEF WorkloadStep, Workload!WorkloadDown
<1>3. CASE conf # "installed"
  <2>1. Server = "none"
    BY <1>3 DEF Server
  <2> QED
    BY <1>1, <2>1 DEF WorkloadStep, Workload!clientVars
<1> QED
  BY <1>2, <1>3

LEMMA InitImplements == Init => Workload!ClientInit
BY DEF Init, Workload!ClientInit, Server

\* Every step of the reconcile is one of the workload cluster, or none.
LEMMA ReconcileImplements ==
    ASSUME TypeOK, Coherent, Coherent', TypeOK', Start \/ Progress
    PROVE  WorkloadStep
<1> USE DEF clusterVars, secretVars, objectVars
<1>c. /\ running => conf = "installed"
      /\ running' => conf' = "installed"
      /\ running \in BOOLEAN /\ running' \in BOOLEAN
      /\ work.pc = "install" => conf = "saved"
      /\ work.pc = "createSecret" => conf = "installed" /\ secret = 0
  BY DEF Coherent, StoredCoherent, WorkCoherent, TypeOK
<1>1. CASE \/ Skip \/ Begin \/ PatchFinalizer \/ PatchFinalizerFails
           \/ CheckReady \/ ReadSecret \/ WriteFile
           \/ PatchSpec \/ PatchStatus \/ PatchFails
  BY <1>1, Stutters DEF Skip, Begin, PatchFinalizer, PatchFinalizerFails, CheckReady,
     ReadSecret, WriteFile, PatchSpec, PatchStatus, PatchFails
<1>2. CASE SaveConfig \/ CreateFails
  <2>1. Server = "none" /\ Server' = "none" /\ UNCHANGED <<gen, secret>>
    BY <1>2, <1>c DEF SaveConfig, CreateFails, Server
  <2> QED
    BY <2>1 DEF WorkloadStep, Workload!clientVars
<1>3. CASE Install
  <2>1. Server = "none" /\ Server' = "stopped"
    BY <1>3, <1>c DEF Install, Server
  <2> QED
    BY <1>3, <2>1 DEF Install, WorkloadStep, Workload!WorkloadSteps, Workload!WorkloadInstall
<1>4. CASE Up \/ Down
  BY <1>4, <1>c, StartsOrStops DEF Up, Down
<1>5. CASE CreateSecret
  BY <1>5, <1>c, Publishes DEF CreateSecret, SecretCreated
<1>6. CASE KubeconfigFails
  BY <1>6, <1>c, Stutters, Publishes DEF KubeconfigFails, SecretCreated
<1>7. CASE Uninstall
  BY <1>7, Removes DEF Uninstall
<1>8. CASE DeleteFails
  BY <1>8, <1>c, Stutters, StartsOrStops, Removes DEF DeleteFails
<1> QED
  BY <1>1, <1>2, <1>3, <1>4, <1>5, <1>6, <1>7, <1>8 DEF Start, Progress

\* So is whatever else happens.
LEMMA OtherImplements ==
    ASSUME TypeOK, Coherent, Coherent', TypeOK',
           \/ ReconcileKwokCluster \/ PatchKwokClusterFails
           \/ Sync \/ Resync \/ Restart \/ Environment \/ UNCHANGED vars
    PROVE  WorkloadStep
<1> USE DEF clusterVars, secretVars, objectVars
<1>c. /\ running => conf = "installed"
      /\ running' => conf' = "installed"
      /\ running' \in BOOLEAN
  BY DEF Coherent, StoredCoherent, TypeOK
<1>1. CASE \/ ReconcileKwokCluster \/ PatchKwokClusterFails \/ Sync \/ Resync
           \/ CreateControlPlane \/ SetOwner \/ DeleteControlPlane
           \/ ChangeKwokCluster \/ SetPaused \/ UNCHANGED vars
  BY <1>1, Stutters DEF ReconcileKwokCluster, PatchKwokClusterFails, Sync, Resync,
     CreateControlPlane, SetOwner, DeleteControlPlane, ChangeKwokCluster, SetPaused, vars
<1>2. CASE Restart \/ Outage
  BY <1>2, <1>c, StartsOrStops DEF Restart, Outage
<1>3. CASE CollectSecret
  <2>1. Server' = Server /\ secret' = 0 /\ UNCHANGED gen
    BY <1>3 DEF CollectSecret, Server
  <2> QED
    BY <2>1 DEF WorkloadStep, Workload!WorkloadSteps, Workload!CollectKubeconfig,
                Workload!clientVars
<1> QED
  BY <1>1, <1>2, <1>3 DEF Environment

\* The controller, its failures and restarts included, makes the workload
\* cluster live as WorkloadClient's abstract specification says: a new
\* generation per installation, one secret per cluster, never updated.
THEOREM ControlPlaneImplementsWorkload == Spec => ImplementsWorkload
<1>1. Init => Workload!ClientInit
  BY InitImplements
<1>2. (TypeOK /\ Coherent) /\ (TypeOK /\ Coherent)' /\ [Next]_vars
         => [Workload!WorkloadSteps \/ Workload!WorkloadDown]_Workload!clientVars
  BY ReconcileImplements, OtherImplements DEF Next, WorkloadStep
<1> QED
  BY <1>1, <1>2, InductiveInvariant, PTL DEF Spec, ImplementsWorkload, Workload!WorkloadSpec

(***************************************************************************)
(* Control plane and KwokCluster implement what is promised of endpoints    *)
(***************************************************************************)

\* Installations are counted one by one, and removed ones stay removed.
LEMMA InstallMoves ==
    ASSUME TypeOK, Coherent, [Next]_vars
    PROVE  \/ gen' = gen /\ (conf' = "installed" => conf = "installed") /\ kc' = kc
           \/ gen' = gen /\ UNCHANGED <<conf, cp, cache>>
           \/ gen' = gen + 1 /\ conf # "installed" /\ conf' = "installed"
              /\ UNCHANGED <<cp, cache, kc>>
<1> USE DEF clusterVars, secretVars, objectVars
<1>1. CASE Install
  BY <1>1 DEF Install, Coherent, WorkCoherent
<1>2. CASE SaveConfig \/ CreateFails \/ Uninstall \/ DeleteFails
  BY <1>2 DEF SaveConfig, CreateFails, Uninstall, DeleteFails
<1>3. CASE ReconcileKwokCluster \/ PatchKwokClusterFails \/ ChangeKwokCluster
  BY <1>3 DEF ReconcileKwokCluster, PatchKwokClusterFails, ChangeKwokCluster
<1>4. CASE UNCHANGED <<gen, conf, kc>>
  BY <1>4
<1> QED
  BY <1>1, <1>2, <1>3, <1>4
     DEF Next, Start, Progress, Environment, vars, Skip, Begin, PatchFinalizer,
         PatchFinalizerFails, CheckReady, Up, ReadSecret, CreateSecret, WriteFile,
         KubeconfigFails, Down, PatchSpec, PatchStatus, PatchFails, Sync, Resync, Restart,
         CreateControlPlane, SetOwner, DeleteControlPlane, SetPaused, Outage, CollectSecret

\* The informer shows what it showed, or what is stored.
LEMMA CacheMoves ==
    ASSUME [Next]_vars
    PROVE  cache' = cache \/ (cache' = cp /\ UNCHANGED <<gen, conf, cp, kc>>)
BY DEF Next, Start, Progress, Environment, vars, clusterVars, secretVars, objectVars, Skip,
       Begin, PatchFinalizer, PatchFinalizerFails, CheckReady, SaveConfig, Install,
       CreateFails, Up, ReadSecret, CreateSecret, WriteFile, KubeconfigFails, Down,
       Uninstall, DeleteFails, PatchSpec, PatchStatus, PatchFails, ReconcileKwokCluster,
       PatchKwokClusterFails, Sync, Resync, Restart, CreateControlPlane, SetOwner,
       DeleteControlPlane, ChangeKwokCluster, SetPaused, Outage, CollectSecret

\* The KwokCluster as its readers see it.
Shown == [exists |-> kc.exists, ep |-> kc.ep, ready |-> kc.ready]

\* It is created bare, deleted, or given what the informer shows.
LEMMA KwokClusterMoves ==
    ASSUME TypeOK, [Next]_vars
    PROVE  \/ Shown' = Shown
           \/ ~kc.exists /\ Shown' = Relay!Bare
           \/ Shown' = Relay!Nothing
           \/ /\ kc.exists
              /\ \E ep \in {kc.ep, cache.ep}, ready \in {TRUE, kc.ready} :
                    Shown' = [exists |-> TRUE, ep |-> ep, ready |-> ready]
<1> USE DEF clusterVars, secretVars, objectVars
<1>w. kc \in KwokClusters
  BY DEF TypeOK
<1>1. CASE kc' = kc
  BY <1>1 DEF Shown
<1>2. CASE ReconcileKwokCluster \/ PatchKwokClusterFails
  BY <1>2, <1>w DEF ReconcileKwokCluster, PatchKwokClusterFails, Shown, KwokClusters
<1>3. CASE ChangeKwokCluster
  <2>1. CASE ~kc.exists /\ kc' = [NoKwokCluster EXCEPT !.exists = TRUE]
    BY <2>1 DEF Shown, NoKwokCluster, Relay!Bare
  <2>2. CASE kc' = [kc EXCEPT !.owned = kc.exists]
    BY <1>w, <2>2 DEF Shown, KwokClusters
  <2>3. CASE kc' = NoKwokCluster
    BY <2>3 DEF Shown, NoKwokCluster, Relay!Nothing
  <2> QED
    BY <1>3, <2>1, <2>2, <2>3 DEF ChangeKwokCluster
<1> QED
  BY <1>1, <1>2, <1>3
     DEF Next, Start, Progress, Environment, vars, Skip, Begin, PatchFinalizer,
         PatchFinalizerFails, CheckReady, SaveConfig, Install, CreateFails, Up, ReadSecret,
         CreateSecret, WriteFile, KubeconfigFails, Down, Uninstall, DeleteFails, PatchSpec,
         PatchStatus, PatchFails, Sync, Resync, Restart, CreateControlPlane, SetOwner,
         DeleteControlPlane, SetPaused, Outage, CollectSecret

\* The numbers of installations.
LEMMA Numbers ==
    /\ TypeOK => gen \in Nat /\ cp.ep \in Nat /\ cache.ep \in Nat /\ kc.ep \in Nat
    /\ TypeOK' => gen' \in Nat /\ cp'.ep \in Nat /\ cache'.ep \in Nat /\ kc'.ep \in Nat
BY BoundsAssumption DEF TypeOK, Gens, Objects, KwokClusters

\* Nothing shows an endpoint before its cluster is installed.
LEMMA StepKnown ==
    ASSUME TypeOK, Coherent, EndpointsKnown, [Next]_vars
    PROVE  EndpointsKnown'
<1>1. cp.ep <= gen /\ gen <= gen'
  BY Numbers, InstallMoves DEF Coherent, StoredCoherent
<1>2. cache'.ep <= gen
  BY <1>1, CacheMoves DEF EndpointsKnown
<1>3. kc'.ep \in {kc.ep, 0, cache.ep}
  <2>1. Shown.ep = kc.ep /\ Shown'.ep = kc'.ep
    BY DEF Shown
  <2> QED
    BY <2>1, KwokClusterMoves DEF Relay!Bare, Relay!Nothing
<1> QED
  BY <1>1, <1>2, <1>3, Numbers, StepTypeOK DEF EndpointsKnown

\* However far informer and KwokCluster lag behind, they show no endpoint of a
\* cluster that has yet to be installed.
THEOREM EndpointsAreKnown == Spec => []EndpointsKnown
<1>1. Init => EndpointsKnown
  BY DEF Init, EndpointsKnown, Gone, NoKwokCluster
<1> QED
  BY <1>1, StepKnown, InductiveInvariant, PTL DEF Spec

\* Between two numbers.
LEMMA Between ==
    \A d, e, g : d \in Nat /\ e \in Nat /\ g \in Nat /\ e >= d /\ e <= g => e \in d .. g
OBVIOUS

\* What may arrive next never becomes older.
LEMMA DueMoves ==
    ASSUME TypeOK, Coherent, EndpointsKnown, [Next]_vars
    PROVE  Due' \in Due .. (gen' + 1)
<1>1. TypeOK' /\ Coherent' /\ EndpointsKnown'
  BY StepTypeOK, StepCoherent, StepKnown
<1>2. /\ gen \in Nat /\ cp.ep \in {0, gen} /\ cache.ep \in Nat /\ cache.ep <= gen
      /\ gen' \in Nat /\ cp'.ep \in {0, gen'} /\ cache'.ep \in Nat /\ cache'.ep <= gen'
  BY <1>1, Numbers DEF Coherent, StoredCoherent, EndpointsKnown
<1>3. gen' + 1 \in Nat
  <2>1. gen' = gen \/ gen' = gen + 1
    BY InstallMoves
  <2>2. gen + 1 \in Nat /\ (gen + 1) + 1 \in Nat
    BY <1>2
  <2> QED
    BY <2>1, <2>2, Zenon
<1>4. Due \in Nat
  BY <1>2 DEF Due
<1>5. Due' = cache'.ep \/ Due' = cp'.ep \/ Due' = gen' \/ Due' = gen' + 1
  BY DEF Due
<1>6. Due' \in Nat
  BY <1>1, <1>2, <1>3, <1>5, Numbers, Zenon
<1>7. Due' <= gen' + 1
  BY <1>2 DEF Due
<1>8. Due' >= Due
  <2>1. CASE cache' = cp /\ UNCHANGED <<gen, conf, cp>>
    BY <1>2, <2>1 DEF Due
  <2>2. CASE cache' = cache
    <3>1. CASE cache.ep # 0
      BY <1>2, <2>2, <3>1 DEF Due
    <3>2. CASE cache.ep = 0 /\ gen' = gen + 1 /\ conf # "installed" /\ conf' = "installed"
      BY <1>2, <2>2, <3>2 DEF Due
    <3>3. CASE cache.ep = 0 /\ gen' = gen /\ (conf' = "installed" => conf = "installed")
      BY <1>2, <2>2, <3>3, StoredMoves DEF Due
    <3> QED
      BY <3>1, <3>2, <3>3, InstallMoves
  <2> QED
    BY <2>1, <2>2, CacheMoves
<1> QED
  BY <1>3, <1>4, <1>6, <1>7, <1>8, Between, Zenon

\* A step is one of the promised ones, or none.
LEMMA StepImplementsRelay ==
    ASSUME TypeOK, Coherent, EndpointsKnown, [Next]_vars
    PROVE  Relay!RelayNext
<1> DEFINE K == {"cluster"}
<1> SUFFICES ASSUME NEW c \in K
             PROVE  /\ Relay!Forward(c)
                    /\ Relay!Publish(c) \/ Relay!Show(c) \/ Relay!Appear(c) \/ Relay!Vanish(c)
  BY DEF Relay!RelayNext
<1>1. Relay!Forward(c)
  BY DueMoves DEF Relay!Forward
<1>2. CASE gen' = gen + 1 /\ kc' = kc
  BY <1>1, <1>2 DEF Relay!Publish
<1>3. CASE gen' = gen
  <2>1. CASE Shown' = Shown
    <3>1. CASE kc.exists
      BY <1>1, <1>3, <2>1, <3>1 DEF Relay!Show, Shown, EndpointsKnown
    <3>2. CASE ~kc.exists
      BY <1>1, <1>3, <2>1, <3>2 DEF Relay!Appear, Shown
    <3> QED
      BY <3>1, <3>2
  <2>2. CASE ~kc.exists /\ Shown' = Relay!Bare
    BY <1>1, <1>3, <2>2 DEF Relay!Appear, Shown
  <2>3. CASE Shown' = Relay!Nothing
    BY <1>1, <1>3, <2>3 DEF Relay!Vanish, Shown
  <2>4. CASE /\ kc.exists
             /\ \E ep \in {kc.ep, cache.ep}, ready \in {TRUE, kc.ready} :
                   Shown' = [exists |-> TRUE, ep |-> ep, ready |-> ready]
    <3>1. PICK ep \in {kc.ep, cache.ep}, ready \in {TRUE, kc.ready} :
                  Shown' = [exists |-> TRUE, ep |-> ep, ready |-> ready]
      BY <2>4
    <3>2. ep <= gen /\ ep \in {0, kc.ep, Due}
      BY <3>1, Numbers DEF EndpointsKnown, Due
    <3> QED
      BY <1>1, <1>3, <2>4, <3>1, <3>2 DEF Relay!Show, Shown
  <2> QED
    BY <2>1, <2>2, <2>3, <2>4, KwokClusterMoves
<1> QED
  BY <1>1, <1>2, <1>3, InstallMoves

\* Installations, removals and recreations of a control plane, with an informer
\* and a KwokCluster that lag behind, pass endpoints on as EndpointRelay promises.
THEOREM ControlPlaneImplementsRelay == Spec => ImplementsRelay
<1>1. Init => Relay!RelayInit
  <2> SUFFICES ASSUME Init PROVE Relay!RelayInit
    OBVIOUS
  <2>1. gen = 0 /\ Due = 1
    BY DEF Init, Due, Gone
  <2>2. [exists |-> kc.exists, ep |-> kc.ep, ready |-> kc.ready] = Relay!Nothing
    BY DEF Init, NoKwokCluster, Relay!Nothing
  <2> QED
    BY <2>1, <2>2 DEF Relay!RelayInit
<1>2. TypeOK /\ Coherent /\ EndpointsKnown /\ [Next]_vars
         => [Relay!RelayNext]_Relay!relayVars
  BY StepImplementsRelay
<1> QED
  BY <1>1, <1>2, InductiveInvariant, EndpointsAreKnown, PTL
     DEF Spec, ImplementsRelay, Relay!RelaySpec
=============================================================================
