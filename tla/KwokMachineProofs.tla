------------------------- MODULE KwokMachineProofs -------------------------
(***************************************************************************)
(* Proofs about KwokMachine, for every set of machines, every bound on      *)
(* faults and on rebuilt clusters: type correctness, the inductive          *)
(* invariant behind ProvisionedHasNode, and the two action properties.      *)
(***************************************************************************)
EXTENDS KwokMachine, TLAPS

(***************************************************************************)
(* Type correctness                                                         *)
(***************************************************************************)

\* A KwokMachine stays of its type through what a reconcile patches into it.
LEMMA PatchType ==
    ASSUME NEW o \in Objects, NEW w \in Works
    PROVE  /\ SpecMerged(o, w) \in Objects
           /\ StatusMerged(o, w) \in Objects
           /\ Stored(o) \in Objects
BY DEF SpecMerged, StatusMerged, Merge, Stored, Objects, Works, Gone, Phases

\* The records the module starts from have the types it declares.
LEMMA ConstantTypes == Gone \in Objects /\ Idle \in Works
BY MaxGenAssumption DEF Gone, Objects, Phases, Idle, Works, PCs, Calls, Gens

LEMMA InitTypeOK == Init => TypeOK
<1> SUFFICES ASSUME Init PROVE TypeOK
  OBVIOUS
<1>1. ClientTypeOK
  <2>1. 0 \in Gens
    BY MaxGenAssumption DEF Gens
  <2> QED
    BY <2>1 DEF Init, ClientInit, ClientTypeOK, ServerStates
<1>2. /\ km \in [Machines -> Objects] /\ cache \in [Machines -> Objects]
      /\ work \in [Machines -> Works]
  BY ConstantTypes DEF Init
<1>3. faults \in 0 .. MaxFaults
  BY FaultsAssumption DEF Init
<1> QED
  BY <1>1, <1>2, <1>3 DEF Init, TypeOK

\* A reconcile that got its client goes on at a known step.
LEMMA HaveClientType ==
    ASSUME TypeOK, NEW m \in Machines, NEW c \in Gens, HaveClient(m, c)
    PROVE  work' \in [Machines -> Works]
<1> DEFINE pc == AfterClient(work[m])
<1>1. pc \in PCs
  BY DEF AfterClient, Provisions, Renews, Deletes, PCs, Calls
<1> DEFINE held == work[m].new.fin /\ pc # "patchSpec"
<1>2. work' = [work EXCEPT ![m].pc = pc, ![m].cli = c, ![m].new.fin = held]
  BY DEF HaveClient, TypeOK
<1>3. work[m] \in Works
  BY DEF TypeOK
<1>5. held \in BOOLEAN
  BY <1>3 DEF Works, Objects
<1> HIDE DEF pc, held
<1>4. [work[m] EXCEPT !.pc = pc, !.cli = c, !.new.fin = held] \in Works
  BY <1>1, <1>3, <1>5 DEF Works, Objects
<1> QED
  BY <1>2, <1>4 DEF TypeOK

\* Each of the reconcile's jumps keeps the type of work.
LEMMA JumpTypes ==
    ASSUME TypeOK, NEW m \in Machines
    PROVE  /\ \A pc \in PCs : Goto(m, pc) => work' \in [Machines -> Works]
           /\ Retry(m) => work' \in [Machines -> Works]
           /\ \A a \in BOOLEAN : End(m, a) => work' \in [Machines -> Works]
                                              /\ queue' \in SUBSET Machines
BY ConstantTypes DEF TypeOK, Goto, Retry, End, Works, PCs

LEMMA FaultType ==
    ASSUME TypeOK, Fault
    PROVE  faults' \in 0 .. MaxFaults
BY FaultsAssumption DEF TypeOK, Fault

\* One step of the reconcile of m keeps every type.
LEMMA ReconcileTypeOK ==
    ASSUME TypeOK, NEW m \in Machines, Start(m) \/ Progress(m)
    PROVE  TypeOK'
<1> USE DEF TypeOK
<1>w. work[m] \in Works
  OBVIOUS
<1>c. /\ cache[m] \in Objects /\ km[m] \in Objects
      /\ client \in Gens /\ secret \in Gens /\ work[m].cli \in Gens
  BY <1>w DEF ClientTypeOK, Works
<1>1. CASE Skip(m)
  BY <1>1 DEF Skip, Take, clientVars, nodeVars, ClientTypeOK
<1>2. CASE Begin(m)
  <2> DEFINE ready == cache[m].ready \/ (cache[m].phase = "live" /\ cache[m].pid)
             pc == IF cache[m].phase = "live" /\ ~cache[m].pid /\ m \notin boot
                     THEN "patchSpec" ELSE "getClient"
             new == [cache[m] EXCEPT !.fin = TRUE, !.ready = ready]
             begun == [Idle EXCEPT !.pc = pc, !.old = cache[m], !.new = new]
  <2>1. new \in Objects
    <3>1. ready \in BOOLEAN
      BY <1>c DEF Objects
    <3> HIDE DEF ready
    <3> QED
      BY <1>c, <3>1 DEF Objects
  <2>2. pc \in PCs
    BY DEF PCs
  <2>3. work' = [work EXCEPT ![m] = begun]
    BY <1>2 DEF Begin
  <2> HIDE DEF pc, new
  <2>4. begun \in Works
    BY <2>1, <2>2, <1>c, ConstantTypes DEF Works
  <2> HIDE DEF begun
  <2>5. work' \in [Machines -> Works]
    BY <2>3, <2>4
  <2>6. queue' \in SUBSET Machines
    BY <1>2 DEF Begin, Take
  <2> QED
    BY <1>2, <2>5, <2>6 DEF Begin, clientVars, nodeVars, ClientTypeOK
<1>3. CASE LookupClient(m)
  BY <1>3, <1>c, HaveClientType, JumpTypes DEF LookupClient, clientVars, mgmtVars, nodeVars, ClientTypeOK, PCs
<1>4. CASE ReadSecret(m)
  <2> PICK endpoint \in 1 .. secret :
             work' = [work EXCEPT ![m].pc = "storeClient", ![m].cli = endpoint]
    BY <1>4 DEF ReadSecret
  <2>1. endpoint \in Gens
    <3>1. secret \in Nat /\ secret <= MaxGen /\ MaxGen \in Nat
      BY <1>c, MaxGenAssumption DEF Gens
    <3> QED
      BY <3>1, MaxGenAssumption DEF Gens
  <2>2. [work[m] EXCEPT !.pc = "storeClient", !.cli = endpoint] \in Works
    BY <2>1, <1>w DEF Works, PCs
  <2> QED
    BY <1>4, <2>2 DEF ReadSecret, clientVars, mgmtVars, nodeVars, ClientTypeOK
<1>5. CASE Store(m)
  BY <1>5, <1>c, HaveClientType DEF Store, StoreClient, mgmtVars, nodeVars, ClientTypeOK
<1>6. CASE NoClient(m)
  <2>1. work' \in [Machines -> Works]
    <3>1. [work[m] EXCEPT !.pc = "patchSpec", !.new.fin = FALSE] \in Works
      BY <1>w DEF Works, Objects, PCs
    <3>2. CASE Deletes(work[m])
      BY <1>6, <3>1, <3>2 DEF NoClient
    <3>3. CASE ~Deletes(work[m])
      BY <1>6, <3>3, JumpTypes DEF NoClient
    <3> QED
      BY <3>2, <3>3
  <2>2. faults' \in 0 .. MaxFaults
    BY <1>6, FaultType DEF NoClient
  <2> QED
    BY <1>6, <2>1, <2>2 DEF NoClient, clientVars, mgmtVars, nodeVars, ClientTypeOK
<1>7. CASE CreateNode(m)
  BY <1>7, JumpTypes DEF CreateNode, clientVars, mgmtVars, ClientTypeOK, PCs, Calls
<1>8. CASE GetNode(m)
  BY <1>8, JumpTypes DEF GetNode, clientVars, mgmtVars, nodeVars, ClientTypeOK, PCs, Calls
<1>9. CASE UpdateNodeStatus(m)
  BY <1>9, JumpTypes DEF UpdateNodeStatus, StatusWritten, clientVars, mgmtVars, ClientTypeOK, PCs, Calls
<1>10. CASE EnsureNodeLease(m)
  BY <1>10, <1>w DEF EnsureNodeLease, clientVars, mgmtVars, ClientTypeOK, Works, Objects, PCs
<1>11. CASE DeleteNode(m)
  BY <1>11, <1>w DEF DeleteNode, clientVars, mgmtVars, ClientTypeOK, Works, Objects, PCs
<1>12. CASE CallFails(m)
  <2>1. node' \in [Machines -> {"none", "bare", "ready"}] /\ lease' \in SUBSET Machines
    BY <1>12 DEF CallFails, Effect, StatusWritten
  <2> QED
    BY <1>12, <2>1, JumpTypes, FaultType DEF CallFails, clientVars, mgmtVars, ClientTypeOK
<1>13. CASE PatchSpec(m)
  <2>1. km' \in [Machines -> Objects]
    <3>1. Stored(SpecMerged(km[m], work[m])) \in Objects
      BY <1>c, <1>w, PatchType
    <3> QED
      BY <1>13, <3>1 DEF PatchSpec
  <2> QED
    BY <1>13, <2>1, <1>w, JumpTypes DEF PatchSpec, clientVars, nodeVars, ClientTypeOK, Works, PCs
<1>14. CASE PatchStatus(m)
  <2>1. km' \in [Machines -> Objects]
    BY <1>14, <1>c, <1>w, PatchType DEF PatchStatus
  <2>2. work[m].again \in BOOLEAN /\ (work[m].again \/ StatusChanged(work[m])) \in BOOLEAN
    BY <1>w DEF Works, StatusChanged
  <2>3. work' \in [Machines -> Works] /\ queue' \in SUBSET Machines
    BY <1>14, <2>2, JumpTypes DEF PatchStatus
  <2> QED
    BY <1>14, <2>1, <2>3 DEF PatchStatus, clientVars, nodeVars, ClientTypeOK
<1>15. CASE PatchFails(m)
  <2>1. faults' \in 0 .. MaxFaults
    BY <1>15, FaultType DEF PatchFails
  <2>2. work' \in [Machines -> Works] /\ queue' \in SUBSET Machines
    <3>1. [work[m] EXCEPT !.pc = "patchStatus", !.again = TRUE] \in Works
      BY <1>w DEF Works, PCs
    <3>2. CASE work[m].pc = "patchSpec"
      BY <1>15, <3>1, <3>2 DEF PatchFails
    <3>3. CASE work[m].pc = "patchStatus"
      BY <1>15, <3>3, JumpTypes DEF PatchFails
    <3> QED
      BY <1>15, <3>2, <3>3 DEF PatchFails
  <2>3. km' \in [Machines -> Objects]
    <3>1. /\ Stored(SpecMerged(km[m], work[m])) \in Objects
          /\ StatusMerged(km[m], work[m]) \in Objects
      BY <1>c, <1>w, PatchType
    <3>2. \/ km' = km
          \/ km' = [km EXCEPT ![m] = Stored(SpecMerged(km[m], work[m]))]
          \/ km' = [km EXCEPT ![m] = StatusMerged(km[m], work[m])]
      BY <1>15 DEF PatchFails
    <3> QED
      BY <3>1, <3>2
  <2> QED
    BY <1>15, <2>1, <2>2, <2>3 DEF PatchFails, clientVars, nodeVars, ClientTypeOK
<1> QED
  BY <1>1, <1>2, <1>3, <1>4, <1>5, <1>6, <1>7, <1>8, <1>9, <1>10, <1>11, <1>12, <1>13, <1>14, <1>15
     DEF Start, Progress

\* So does every other step of the system.
LEMMA WorldTypeOK ==
    ASSUME TypeOK,
           \/ \E m \in Machines : Sync(m) \/ Resync(m)
           \/ Environment
           \/ Restart
    PROVE  TypeOK'
<1> USE DEF TypeOK
<1>1. ASSUME NEW m \in Machines, Sync(m) \/ Resync(m) PROVE TypeOK'
  BY <1>1 DEF Sync, Resync, clientVars, nodeVars, ClientTypeOK
<1>2. ASSUME NEW m \in Machines, CreateMachine(m) PROVE TypeOK'
  BY <1>2 DEF CreateMachine, clientVars, nodeVars, ClientTypeOK, Gone, Objects, Phases
<1>3. ASSUME NEW m \in Machines, SetOwner(m) \/ SetBootstrap(m) PROVE TypeOK'
  <2>0. km[m] \in Objects
    OBVIOUS
  <2>1. [km[m] EXCEPT !.owned = TRUE] \in Objects
    BY <2>0 DEF Objects
  <2>2. CASE SetOwner(m)
    BY <2>1, <2>2 DEF SetOwner, clientVars, nodeVars, ClientTypeOK
  <2>3. CASE SetBootstrap(m)
    BY <2>3 DEF SetBootstrap, clientVars, nodeVars, ClientTypeOK
  <2> QED
    BY <1>3, <2>2, <2>3
<1>4. ASSUME NEW m \in Machines, DeleteMachine(m) PROVE TypeOK'
  <2>1. Stored([km[m] EXCEPT !.phase = "deleting"]) \in Objects
    BY DEF Stored, Objects, Phases, Gone
  <2> QED
    BY <1>4, <2>1 DEF DeleteMachine, clientVars, nodeVars, ClientTypeOK
<1>5. ASSUME NEW m \in Machines, RemoveNode(m) PROVE TypeOK'
  BY <1>5, FaultType DEF RemoveNode, clientVars, mgmtVars, ClientTypeOK
<1>6. CASE SetPaused
  BY <1>6, Zenon DEF SetPaused, clientVars, nodeVars, ClientTypeOK
<1>7. CASE ClusterDown
  <2>1. ClientTypeOK'
    BY <1>7 DEF ClusterDown, WorkloadDown, ClientTypeOK, ServerStates
  <2> QED
    BY <1>7, <2>1 DEF ClusterDown, mgmtVars
<1>8. CASE ClusterSteps
  <2>1. ClientTypeOK'
    <3>1. CASE WorkloadInstall
      BY <3>1, MaxGenAssumption DEF WorkloadInstall, ClientTypeOK, Gens, ServerStates
    <3>2. CASE PublishKubeconfig
      BY <3>2 DEF PublishKubeconfig, ClientTypeOK
    <3>3. CASE CollectKubeconfig
      BY <3>3, MaxGenAssumption DEF CollectKubeconfig, ClientTypeOK, Gens
    <3>4. CASE WorkloadStart \/ WorkloadStop
      BY <3>4 DEF WorkloadStart, WorkloadStop, ClientTypeOK, ServerStates
    <3> QED
      BY <1>8, <3>1, <3>2, <3>3, <3>4 DEF ClusterSteps, WorkloadSteps
  <2> QED
    BY <1>8, <2>1 DEF ClusterSteps, mgmtVars, nodeVars
<1>9. CASE Restart
  <2>1. faults' \in 0 .. MaxFaults
    BY <1>9, FaultType DEF Restart
  <2>2. ClientTypeOK'
    BY <1>9, MaxGenAssumption DEF Restart, ClientTypeOK, Gens
  <2> QED
    BY <1>9, <2>1, <2>2, ConstantTypes DEF Restart, nodeVars
<1> QED
  BY <1>1, <1>2, <1>3, <1>4, <1>5, <1>6, <1>7, <1>8, <1>9 DEF Environment

LEMMA StepTypeOK ==
    ASSUME TypeOK, [Next]_vars
    PROVE  TypeOK'
<1>1. CASE UNCHANGED vars
  BY <1>1 DEF vars, clientVars, mgmtVars, nodeVars, TypeOK, ClientTypeOK
<1>2. CASE Next
  BY <1>2, ReconcileTypeOK, WorldTypeOK DEF Next, Controller
<1> QED
  BY <1>1, <1>2

\* Every variable keeps its type, whatever the machines and the bounds.
THEOREM TypeCorrect == Spec => []TypeOK
BY InitTypeOK, StepTypeOK, PTL DEF Spec

(***************************************************************************)
(* The inductive invariant                                                  *)
(***************************************************************************)

CoherentFor(n) == StoredCoherent(n) /\ WorkCoherent(n) /\ CacheCoherent(n)

\* A step leaves everything about machine n as it is.
Untouched(n) ==
    /\ km'[n] = km[n] /\ cache'[n] = cache[n]
    /\ work'[n] = work[n] /\ node'[n] = node[n]
    /\ (n \in lease') = (n \in lease)
    /\ (n \in lost') = (n \in lost)

LEMMA Frame ==
    ASSUME NEW n \in Machines, CoherentFor(n), Untouched(n)
    PROVE  CoherentFor(n)'
BY DEF CoherentFor, Untouched, StoredCoherent, WorkCoherent, CacheCoherent,
       Registered, Published, Provisions, Deletes

\* What a reconcile, the watch or a user does to m touches no other machine.
LEMMA OthersUntouched ==
    ASSUME TypeOK, NEW m \in Machines, NEW n \in Machines, n # m,
           \/ Start(m) \/ Progress(m) \/ Sync(m) \/ Resync(m)
           \/ CreateMachine(m) \/ SetOwner(m) \/ SetBootstrap(m)
           \/ DeleteMachine(m) \/ RemoveNode(m)
    PROVE  Untouched(n)
<1> USE DEF TypeOK, Untouched
<1>1. CASE Start(m)
  BY <1>1 DEF Start, Skip, Begin, Take, nodeVars
<1>2. CASE LookupClient(m) \/ ReadSecret(m) \/ Store(m) \/ NoClient(m)
  BY <1>2 DEF LookupClient, ReadSecret, Store, NoClient, HaveClient, Goto, Retry, mgmtVars, nodeVars
<1>3. CASE CreateNode(m) \/ GetNode(m) \/ UpdateNodeStatus(m)
  BY <1>3 DEF CreateNode, GetNode, UpdateNodeStatus, StatusWritten, Goto, Retry, mgmtVars, nodeVars
<1>4. CASE EnsureNodeLease(m) \/ DeleteNode(m)
  BY <1>4 DEF EnsureNodeLease, DeleteNode, mgmtVars
<1>5. CASE CallFails(m)
  BY <1>5 DEF CallFails, Effect, StatusWritten, Retry, mgmtVars
<1>6. CASE PatchSpec(m) \/ PatchStatus(m) \/ PatchFails(m)
  BY <1>6 DEF PatchSpec, PatchStatus, PatchFails, Goto, End, nodeVars
<1>7. CASE Sync(m) \/ Resync(m)
  BY <1>7 DEF Sync, Resync, nodeVars
<1>8. CASE CreateMachine(m) \/ SetOwner(m) \/ SetBootstrap(m) \/ DeleteMachine(m)
  BY <1>8 DEF CreateMachine, SetOwner, SetBootstrap, DeleteMachine, nodeVars
<1>9. CASE RemoveNode(m)
  BY <1>9 DEF RemoveNode, mgmtVars
<1> QED
  BY <1>1, <1>2, <1>3, <1>4, <1>5, <1>6, <1>7, <1>8, <1>9 DEF Progress

\* What the two halves of the patch can make of a stored object: the status
\* half only ever publishes readiness it changed, the spec half only a
\* ProviderID it changed, and it releases an object that is being deleted only
\* when the reconcile dropped the finalizer or nothing held the object.
LEMMA StatusPatch ==
    ASSUME NEW o \in Objects, NEW w \in Works
    PROVE  LET p == StatusMerged(o, w) IN
           /\ p.phase = o.phase /\ p.fin = o.fin /\ p.pid = o.pid
           /\ p.ready => o.ready \/ (w.new.ready /\ ~w.old.ready)
BY DEF StatusMerged, Merge, Objects, Works

LEMMA SpecPatch ==
    ASSUME NEW o \in Objects, NEW w \in Works
    PROVE  LET p == Stored(SpecMerged(o, w)) IN
           \/ /\ p = Gone /\ o.phase = "deleting"
              /\ ~w.new.fin \/ ~o.fin
           \/ /\ p.phase = o.phase /\ p.ready = o.ready
              /\ p.phase = "deleting" => p.fin
              /\ p.pid => o.pid \/ (w.new.pid /\ ~w.old.pid)
BY DEF Stored, SpecMerged, Merge, Gone, Objects, Works

\* The two halves of the patch, with the failures of each.
SpecHalf(m) == PatchSpec(m) \/ (PatchFails(m) /\ work[m].pc = "patchSpec")
StatusHalf(m) == PatchStatus(m) \/ (PatchFails(m) /\ work[m].pc = "patchStatus")

LEMMA SpecHalfStep ==
    ASSUME TypeOK, NEW m \in Machines, SpecHalf(m)
    PROVE  /\ cache' = cache /\ node' = node /\ lease' = lease /\ lost' = lost
           /\ work[m].pc = "patchSpec" /\ work'[m].pc = "patchStatus"
           /\ work'[m].old = work[m].old /\ work'[m].new = work[m].new
           /\ work'[m].cli = work[m].cli
           /\ \/ km'[m] = km[m]
              \/ km'[m] = Stored(SpecMerged(km[m], work[m])) /\ km[m].phase # "absent"
<1>1. work \in [Machines -> Works] /\ km \in [Machines -> Objects]
  BY DEF TypeOK
<1>2. CASE PatchSpec(m)
  <2>1. \/ work' = [work EXCEPT ![m].pc = "patchStatus", ![m].again = TRUE]
        \/ work' = [work EXCEPT ![m].pc = "patchStatus"]
    BY <1>2 DEF PatchSpec, Goto
  <2> QED
    BY <1>1, <1>2, <2>1 DEF PatchSpec, nodeVars, Works
<1>3. CASE PatchFails(m) /\ work[m].pc = "patchSpec"
  <2>1. work' = [work EXCEPT ![m].pc = "patchStatus", ![m].again = TRUE]
    BY <1>3 DEF PatchFails
  <2> QED
    BY <1>1, <1>3, <2>1 DEF PatchFails, nodeVars, Works
<1> QED
  BY <1>2, <1>3 DEF SpecHalf

LEMMA StatusHalfStep ==
    ASSUME TypeOK, NEW m \in Machines, StatusHalf(m)
    PROVE  /\ cache' = cache /\ node' = node /\ lease' = lease /\ lost' = lost
           /\ work[m].pc = "patchStatus" /\ work'[m] = Idle
           /\ \/ km'[m] = km[m]
              \/ km'[m] = StatusMerged(km[m], work[m]) /\ km[m].phase # "absent"
<1>1. work \in [Machines -> Works] /\ km \in [Machines -> Objects]
  BY DEF TypeOK
<1>2. CASE PatchStatus(m)
  BY <1>1, <1>2 DEF PatchStatus, End, nodeVars
<1>3. CASE PatchFails(m) /\ work[m].pc = "patchStatus"
  BY <1>1, <1>3 DEF PatchFails, End, nodeVars
<1> QED
  BY <1>2, <1>3 DEF StatusHalf

LEMMA PatchHalves ==
    ASSUME NEW m \in Machines, PatchSpec(m) \/ PatchStatus(m) \/ PatchFails(m)
    PROVE  SpecHalf(m) \/ StatusHalf(m)
BY DEF SpecHalf, StatusHalf, PatchFails

\* A step of the reconcile of m keeps what the invariant says of m.
LEMMA ReconcileCoherent ==
    ASSUME TypeOK, NEW m \in Machines, CoherentFor(m), Start(m) \/ Progress(m)
    PROVE  CoherentFor(m)'
<1> USE DEF CoherentFor, StoredCoherent, WorkCoherent, CacheCoherent,
            Registered, Published, Provisions, Deletes
<1>t. /\ work[m] \in Works /\ km[m] \in Objects /\ cache[m] \in Objects
      /\ work \in [Machines -> Works] /\ km \in [Machines -> Objects]
      /\ node \in [Machines -> {"none", "bare", "ready"}]
  BY DEF TypeOK
<1>r. [work[m] EXCEPT !.pc = "patchSpec", !.again = TRUE] \in Works
  BY <1>t DEF Works, PCs
<1>1. CASE Skip(m)
  BY <1>1, <1>t DEF Skip, Take, nodeVars
<1>2. CASE Begin(m)
  BY <1>2, <1>t DEF Begin, Take, nodeVars, Idle, Gone, Works, Objects, Phases, Calls
<1>3. CASE LookupClient(m)
  BY <1>3, <1>t DEF LookupClient, HaveClient, AfterClient, Renews, Goto, mgmtVars, nodeVars, Works, Objects, Phases, Calls
<1>4. CASE ReadSecret(m)
  <2> PICK endpoint \in 1 .. secret :
             work' = [work EXCEPT ![m].pc = "storeClient", ![m].cli = endpoint]
    BY <1>4 DEF ReadSecret
  <2>1. /\ work'[m].old = work[m].old /\ work'[m].new = work[m].new
        /\ work'[m].pc = "storeClient" /\ work[m].pc = "readSecret"
    BY <1>4, <1>t DEF ReadSecret, Works
  <2> QED
    BY <1>4, <2>1 DEF ReadSecret, mgmtVars, nodeVars, Calls
<1>5. CASE Store(m)
  <2>1. /\ km' = km /\ cache' = cache /\ node' = node /\ lease' = lease /\ lost' = lost
    BY <1>5 DEF Store, mgmtVars, nodeVars
  <2>2. /\ work[m].pc = "storeClient"
        /\ work' = [work EXCEPT ![m].pc = AfterClient(work[m]), ![m].cli = work[m].cli,
                                ![m].new.fin = (AfterClient(work[m]) # "patchSpec")]
    BY <1>5 DEF Store, HaveClient
  <2>3. /\ work'[m].old = work[m].old
        /\ work'[m].new = [work[m].new EXCEPT !.fin = (AfterClient(work[m]) # "patchSpec")]
        /\ work'[m].pc = AfterClient(work[m])
    BY <2>2, <1>t DEF Works
  <2>4. /\ work[m].new.fin
        /\ work[m].old.phase \in {"live", "deleting"}
    BY <2>2, <1>t DEF Works, Objects, Phases
  <2>5. AfterClient(work[m]) =
          IF Deletes(work[m])
            THEN IF work[m].old.pid THEN "deleteNode" ELSE "patchSpec"
            ELSE IF work[m].old.pid THEN "getNode" ELSE "createNode"
    BY <2>4 DEF AfterClient, Renews
  <2>6. work[m].new \in Objects /\ work'[m].cli = work[m].cli
    BY <2>2, <1>t DEF Works
  <2>7. LET new == work[m].new
            new2 == work'[m].new IN
        /\ new2.pid = new.pid /\ new2.ready = new.ready /\ new2.addr = new.addr
        /\ new2.fin = (work'[m].pc # "patchSpec")
    BY <2>3, <2>6 DEF Objects
  <2>8. StoredCoherent(m)' /\ CacheCoherent(m)'
    BY <2>1, <2>3
  <2>9. WorkCoherent(m)'
    <3>1. CASE work[m].old.phase = "live"
      BY <2>1, <2>2, <2>3, <2>4, <2>5, <2>6, <2>7, <3>1 DEF Calls
    <3>2. CASE work[m].old.phase = "deleting"
      BY <2>1, <2>2, <2>3, <2>4, <2>5, <2>6, <2>7, <3>2 DEF Calls
    <3> QED
      BY <2>4, <3>1, <3>2
  <2> QED
    BY <2>8, <2>9
<1>6. CASE NoClient(m)
  BY <1>6, <1>t DEF NoClient, Retry, mgmtVars, nodeVars, Works, Objects, Calls
<1>7. CASE CreateNode(m)
  <2>1. /\ km' = km /\ cache' = cache /\ lease' = lease /\ lost' = lost
        /\ work[m].pc = "createNode"
    BY <1>7 DEF CreateNode, CallReaches, mgmtVars
  <2>2. ~Deletes(work[m]) \/ work[m].new.fin
    BY <2>1 DEF Calls
  <2>3. CASE node[m] = "none"
    BY <1>7, <2>1, <2>2, <2>3, <1>t DEF CreateNode, Goto, Works, Objects, Calls
  <2>4. CASE node[m] # "none"
    BY <1>7, <2>1, <2>2, <2>4, <1>t DEF CreateNode, Goto, Works, Objects, Calls
  <2> QED
    BY <2>3, <2>4
<1>8. CASE GetNode(m)
  BY <1>8, <1>t DEF GetNode, CallReaches, Goto, Retry, mgmtVars, nodeVars, Works, Objects, Calls
<1>9. CASE UpdateNodeStatus(m)
  BY <1>9, <1>t DEF UpdateNodeStatus, StatusWritten, CallReaches, Goto, Retry, mgmtVars, Works, Objects, Calls
<1>10. CASE EnsureNodeLease(m)
  <2>1. /\ km' = km /\ cache' = cache /\ node' = node /\ work[m].pc = "lease"
        /\ lease' = lease \union {m}
        /\ lost' = IF node[m] = "ready" THEN lost \ {m} ELSE lost
    BY <1>10 DEF EnsureNodeLease, CallReaches, mgmtVars
  <2>2. Registered(m) => Registered(m)'
    BY <2>1
  <2>3. CASE Provisions(work[m])
    <3>1. work' = [work EXCEPT ![m] =
            [work[m] EXCEPT !.pc = "patchSpec", !.again = TRUE,
               !.new = [work[m].new EXCEPT !.pid = TRUE, !.ready = TRUE, !.addr = TRUE]]]
      BY <1>10, <2>3 DEF EnsureNodeLease
    <3>2. Registered(m)'
      BY <2>1, <2>3
    <3> QED
      BY <2>1, <2>2, <2>3, <3>1, <3>2, <1>t DEF Works, Objects, Calls
  <2>4. CASE ~Provisions(work[m])
    <3>1. work' = [work EXCEPT ![m] =
            [work[m] EXCEPT !.pc = "patchSpec", !.again = TRUE, !.new = work[m].new]]
      BY <1>10, <2>4 DEF EnsureNodeLease
    <3> QED
      BY <2>1, <2>2, <2>4, <3>1, <1>t DEF Works, Objects, Calls
  <2> QED
    BY <2>3, <2>4
<1>11. CASE DeleteNode(m)
  BY <1>11, <1>t DEF DeleteNode, CallReaches, mgmtVars, Works, Objects, Calls
<1>12. CASE CallFails(m)
  BY <1>12, <1>t DEF CallFails, Effect, StatusWritten, Retry, mgmtVars, Works, Objects, Calls
<1>13. CASE SpecHalf(m)
  <2>1. /\ cache' = cache /\ node' = node /\ lease' = lease /\ lost' = lost
        /\ work[m].pc = "patchSpec"
    BY <1>13, SpecHalfStep
  <2>4. /\ work'[m].old = work[m].old /\ work'[m].new = work[m].new
        /\ work'[m].cli = work[m].cli /\ work'[m].pc = "patchStatus"
    BY <1>13, SpecHalfStep
  <2>3. /\ work[m].old.phase = "live" => work[m].new.fin
        /\ work[m].old.phase = "deleting" =>
              /\ ~Published(km[m])
              /\ work[m].new.pid = work[m].old.pid /\ work[m].new.ready = work[m].old.ready
        /\ work[m].old.phase \in {"live", "deleting"}
        /\ km[m].phase = "deleting" => km[m].fin
    BY <2>1, <1>t DEF Works, Objects, Phases
  <2>5. \/ km'[m] = km[m]
        \/ km'[m] = Stored(SpecMerged(km[m], work[m])) /\ km[m].phase # "absent"
    BY <1>13, SpecHalfStep
  <2>6. /\ Published(km'[m]) => Published(km[m]) \/ (work[m].old.phase = "live" /\ work[m].new.pid)
        /\ km'[m].phase = "deleting" => km'[m].fin /\ km[m].phase = "deleting"
        /\ Deletes(work[m]) => ~Published(km'[m])
        /\ km[m].phase = "deleting" /\ work[m].old.phase = "live" => km'[m].phase = "deleting"
    <3> HIDE DEF CoherentFor, StoredCoherent, WorkCoherent, CacheCoherent, Registered
    <3>1. CASE km'[m] = km[m]
      BY <2>3, <3>1, <1>t
    <3>2. CASE km'[m] = Stored(SpecMerged(km[m], work[m])) /\ km[m].phase # "absent"
      BY <2>3, <3>2, <1>t, SpecPatch DEF Gone
    <3> QED
      BY <2>5, <3>1, <3>2
  <2>7. StoredCoherent(m)'
    BY <2>1, <2>6
  <2>8. WorkCoherent(m)'
    BY <2>1, <2>4, <2>6, <1>t DEF Calls
  <2>9. CacheCoherent(m)'
    BY <2>1, <2>4, <2>6, <1>t DEF Works, Objects, Phases
  <2> QED
    BY <2>7, <2>8, <2>9
<1>14. CASE StatusHalf(m)
  <2>1. /\ cache' = cache /\ node' = node /\ lease' = lease /\ lost' = lost
        /\ work[m].pc = "patchStatus" /\ work'[m] = Idle
    BY <1>14, StatusHalfStep
  <2>2. \/ km'[m] = km[m]
        \/ km'[m] = StatusMerged(km[m], work[m]) /\ km[m].phase # "absent"
    BY <1>14, StatusHalfStep
  <2>3. /\ work[m].old.phase = "live" => work[m].new.fin
        /\ work[m].old.phase = "deleting" =>
              /\ ~Published(km[m])
              /\ work[m].new.pid = work[m].old.pid /\ work[m].new.ready = work[m].old.ready
        /\ work[m].old.phase \in {"live", "deleting"}
        /\ km[m].phase = "deleting" => km[m].fin
    BY <2>1, <1>t DEF Works, Objects, Phases
  <2>7. /\ Published(km'[m]) => Published(km[m]) \/ (work[m].old.phase = "live" /\ work[m].new.ready)
        /\ km'[m].phase = km[m].phase /\ km'[m].fin = km[m].fin
        /\ Deletes(work[m]) => ~Published(km'[m])
    <3> HIDE DEF CoherentFor, StoredCoherent, WorkCoherent, CacheCoherent, Registered
    <3>1. CASE km'[m] = km[m]
      BY <2>3, <3>1, <1>t
    <3>2. CASE km'[m] = StatusMerged(km[m], work[m]) /\ km[m].phase # "absent"
      BY <2>3, <3>2, <1>t, StatusPatch
    <3> QED
      BY <2>2, <3>1, <3>2
  <2>4. StoredCoherent(m)'
    BY <2>1, <2>7
  <2>5. WorkCoherent(m)'
    BY <2>1 DEF Idle, Gone, Calls
  <2>6. CacheCoherent(m)'
    BY <2>1, <2>3, <2>7, <1>t DEF Idle, Gone
  <2> QED
    BY <2>4, <2>5, <2>6
<1> QED
  BY <1>1, <1>2, <1>3, <1>4, <1>5, <1>6, <1>7, <1>8, <1>9, <1>10, <1>11, <1>12, <1>13, <1>14,
     PatchHalves DEF Start, Progress

\* So do the watch and what users and Cluster API do to m.
LEMMA EventCoherent ==
    ASSUME TypeOK, NEW m \in Machines, CoherentFor(m),
           \/ Sync(m) \/ Resync(m) \/ CreateMachine(m) \/ SetOwner(m)
           \/ SetBootstrap(m) \/ DeleteMachine(m) \/ RemoveNode(m)
    PROVE  CoherentFor(m)'
<1> USE DEF CoherentFor, StoredCoherent, WorkCoherent, CacheCoherent,
            Registered, Published, Provisions, Deletes
<1>t. /\ work[m] \in Works /\ km[m] \in Objects /\ cache[m] \in Objects
      /\ cache \in [Machines -> Objects] /\ km \in [Machines -> Objects]
      /\ node \in [Machines -> {"none", "bare", "ready"}]
  BY DEF TypeOK
<1>1. CASE Sync(m)
  BY <1>1, <1>t DEF Sync, nodeVars
<1>2. CASE Resync(m) \/ SetBootstrap(m)
  BY <1>2 DEF Resync, SetBootstrap, nodeVars
<1>3. CASE CreateMachine(m)
  BY <1>3, <1>t DEF CreateMachine, nodeVars, Gone
<1>4. CASE SetOwner(m)
  BY <1>4, <1>t DEF SetOwner, nodeVars, Objects
<1>5. CASE DeleteMachine(m)
  BY <1>5, <1>t DEF DeleteMachine, Stored, nodeVars, Gone, Objects
<1>6. CASE RemoveNode(m)
  BY <1>6, <1>t DEF RemoveNode, mgmtVars
<1> QED
  BY <1>1, <1>2, <1>3, <1>4, <1>5, <1>6

\* A restart or a change of the workload cluster keeps it for every machine.
LEMMA GlobalCoherent ==
    ASSUME TypeOK, NEW n \in Machines, CoherentFor(n),
           Restart \/ SetPaused \/ ClusterDown \/ ClusterSteps \/ UNCHANGED vars
    PROVE  CoherentFor(n)'
<1>1. CASE Restart
  BY <1>1 DEF Restart, nodeVars, Idle, Gone, Calls, CoherentFor, StoredCoherent,
              WorkCoherent, CacheCoherent, Registered, Published, Provisions, Deletes
<1>2. CASE ClusterDown
  BY <1>2 DEF ClusterDown, mgmtVars, CoherentFor, StoredCoherent, WorkCoherent,
              CacheCoherent, Registered, Published, Provisions, Deletes
<1>3. CASE SetPaused \/ ClusterSteps \/ UNCHANGED vars
  <2>1. Untouched(n)
    BY <1>3 DEF SetPaused, ClusterSteps, vars, mgmtVars, nodeVars, Untouched
  <2> QED
    BY <2>1, Frame
<1> QED
  BY <1>1, <1>2, <1>3

\* Nothing is stored, cached or in flight at the start.
LEMMA InitCoherent == Init => Coherent
BY DEF Init, Coherent, StoredCoherent, WorkCoherent, CacheCoherent, Registered,
       Published, Provisions, Deletes, Idle, Gone, Calls

LEMMA StepCoherent ==
    ASSUME TypeOK, Coherent, [Next]_vars
    PROVE  Coherent'
<1> SUFFICES ASSUME NEW n \in Machines PROVE CoherentFor(n)'
  BY DEF Coherent, CoherentFor
<1>c. \A m \in Machines : CoherentFor(m)
  BY DEF Coherent, CoherentFor
<1>1. ASSUME NEW m \in Machines, Start(m) \/ Progress(m)
      PROVE  CoherentFor(n)'
  BY <1>1, <1>c, ReconcileCoherent, OthersUntouched, Frame
<1>2. ASSUME NEW m \in Machines,
             \/ Sync(m) \/ Resync(m) \/ CreateMachine(m) \/ SetOwner(m)
             \/ SetBootstrap(m) \/ DeleteMachine(m) \/ RemoveNode(m)
      PROVE  CoherentFor(n)'
  BY <1>2, <1>c, EventCoherent, OthersUntouched, Frame
<1>3. CASE Restart \/ SetPaused \/ ClusterDown \/ ClusterSteps \/ UNCHANGED vars
  BY <1>3, <1>c, GlobalCoherent
<1> QED
  BY <1>1, <1>2, <1>3 DEF Next, Controller, Environment

\* The inductive invariant holds in every reachable state.
THEOREM InductiveInvariant == Spec => [](TypeOK /\ Coherent)
<1>1. Init => TypeOK /\ Coherent
  BY InitTypeOK, InitCoherent
<1>2. TypeOK /\ Coherent /\ [Next]_vars => (TypeOK /\ Coherent)'
  BY StepTypeOK, StepCoherent
<1> QED
  BY <1>1, <1>2, PTL DEF Spec

\* A machine that published a ProviderID or Ready has a registered Node unless
\* somebody else took it away, for any machines, workers, faults and rebuilds.
THEOREM ProvisionedMachinesHaveNodes == Spec => []ProvisionedHasNode
<1>1. Coherent => ProvisionedHasNode
  BY DEF Coherent, StoredCoherent, Registered, Published, ProvisionedHasNode
<1> QED
  BY <1>1, InductiveInvariant, PTL

\* Only the spec half of a patch ends a deletion.
LEMMA OnlyPatchReleases ==
    ASSUME TypeOK, [Next]_vars, NEW m \in Machines,
           km[m].phase = "deleting", km'[m].phase = "absent"
    PROVE  SpecHalf(m)
<1>1. ASSUME NEW n \in Machines, n # m,
             \/ Start(n) \/ Progress(n) \/ Sync(n) \/ Resync(n)
             \/ CreateMachine(n) \/ SetOwner(n) \/ SetBootstrap(n)
             \/ DeleteMachine(n) \/ RemoveNode(n)
      PROVE  km'[m] = km[m]
  BY <1>1, OthersUntouched DEF Untouched
<1>2. CASE Start(m) \/ Progress(m)
  <2>1. CASE StatusHalf(m)
    <3>1. km'[m] = km[m] \/ km'[m] = StatusMerged(km[m], work[m])
      BY <2>1, StatusHalfStep
    <3>2. km[m] \in Objects /\ work[m] \in Works
      BY DEF TypeOK
    <3> QED
      BY <3>1, <3>2, StatusPatch
  <2>2. PatchSpec(m) \/ PatchStatus(m) \/ PatchFails(m) \/ km' = km
    BY <1>2 DEF Start, Progress, Skip, Begin, LookupClient, ReadSecret, Store, NoClient,
          CreateNode, GetNode, UpdateNodeStatus, EnsureNodeLease, DeleteNode, CallFails, mgmtVars
  <2> QED
    BY <2>1, <2>2, PatchHalves
<1>3. CASE Sync(m) \/ Resync(m) \/ SetBootstrap(m) \/ RemoveNode(m)
  BY <1>3 DEF Sync, Resync, SetBootstrap, RemoveNode, mgmtVars
<1>4. CASE CreateMachine(m) \/ SetOwner(m) \/ DeleteMachine(m)
  BY <1>4 DEF CreateMachine, SetOwner, DeleteMachine, TypeOK, Objects
<1>5. CASE Restart \/ SetPaused \/ ClusterDown \/ ClusterSteps \/ UNCHANGED vars
  BY <1>5 DEF Restart, SetPaused, ClusterDown, ClusterSteps, vars, mgmtVars
<1> QED
  BY <1>1, <1>2, <1>3, <1>4, <1>5 DEF Next, Controller, Environment

\* A deletion that read the ProviderID and got a client never lets the machine
\* go while its Node is there.
THEOREM ReleaseOnlyAfterNode == Spec => ReleaseAfterNode
<1> DEFINE Release == \A m \in Machines :
              (/\ km[m].phase = "deleting" /\ km'[m].phase = "absent"
               /\ work[m].old.pid /\ work[m].cli # 0)
                  => node[m] = "none"
<1>1. ASSUME TypeOK, Coherent, [Next]_vars PROVE Release
  <2> SUFFICES ASSUME NEW m \in Machines,
                      km[m].phase = "deleting", km'[m].phase = "absent",
                      work[m].old.pid, work[m].cli # 0
               PROVE  node[m] = "none"
    OBVIOUS
  <2>1. SpecHalf(m)
    BY <1>1, OnlyPatchReleases
  <2>2. km[m] \in Objects /\ work[m] \in Works
    BY <1>1 DEF TypeOK
  <2>3. km'[m] = km[m] \/ km'[m] = Stored(SpecMerged(km[m], work[m]))
    BY <1>1, <2>1, SpecHalfStep
  <2>4. ~work[m].new.fin \/ ~km[m].fin
    BY <2>2, <2>3, SpecPatch
  <2>5. km[m].fin /\ WorkCoherent(m)
    BY <1>1 DEF Coherent, StoredCoherent
  <2>6. work[m].old.phase \in {"live", "deleting"}
    <3>1. work[m].pc = "patchSpec"
      BY <1>1, <2>1, SpecHalfStep
    <3> QED
      BY <2>2, <2>5, <3>1 DEF WorkCoherent, Works, Objects, Phases
  <2> QED
    BY <2>4, <2>5, <2>6 DEF WorkCoherent, Deletes
<1>2. TypeOK /\ Coherent /\ [Next]_vars => [Release]_vars
  BY <1>1
<1> QED
  BY <1>2, InductiveInvariant, PTL DEF Spec, ReleaseAfterNode

\* What is published in o stays published in p.
KeepsPublished(o, p) == (o.pid => p.pid) /\ (o.ready => p.ready) /\ (o.addr => p.addr)

\* A patch that takes nothing back in memory takes nothing back in store.
LEMMA PatchKeepsPublished ==
    ASSUME NEW o \in Objects, NEW w \in Works, KeepsPublished(w.old, w.new)
    PROVE  /\ KeepsPublished(o, SpecMerged(o, w))
           /\ KeepsPublished(o, StatusMerged(o, w))
BY DEF KeepsPublished, SpecMerged, StatusMerged, Merge, Objects, Works

\* Nothing that happens to a machine in use takes back what it published.
LEMMA StepKeepsPublished ==
    ASSUME TypeOK, Coherent, [Next]_vars, NEW m \in Machines,
           km[m].phase = "live", km'[m].phase # "absent"
    PROVE  KeepsPublished(km[m], km'[m])
<1>t. km[m] \in Objects /\ work[m] \in Works
  BY DEF TypeOK
<1>k. KeepsPublished(work[m].old, work[m].new)
  BY DEF Coherent, WorkCoherent, KeepsPublished
<1>1. CASE km'[m] = km[m]
  BY <1>1 DEF KeepsPublished
<1>2. ASSUME NEW n \in Machines, n # m,
             \/ Start(n) \/ Progress(n) \/ Sync(n) \/ Resync(n)
             \/ CreateMachine(n) \/ SetOwner(n) \/ SetBootstrap(n)
             \/ DeleteMachine(n) \/ RemoveNode(n)
      PROVE  km'[m] = km[m]
  BY <1>2, OthersUntouched DEF Untouched
<1>3. CASE SpecHalf(m)
  <2>1. km'[m] = km[m] \/ km'[m] = Stored(SpecMerged(km[m], work[m]))
    BY <1>3, SpecHalfStep
  <2>2. CASE km'[m] = Stored(SpecMerged(km[m], work[m]))
    <3>1. km'[m] = SpecMerged(km[m], work[m])
      BY <2>2 DEF Stored, Gone
    <3> QED
      BY <1>t, <1>k, <3>1, PatchKeepsPublished
  <2> QED
    BY <1>1, <2>1, <2>2
<1>4. CASE StatusHalf(m)
  <2>1. km'[m] = km[m] \/ km'[m] = StatusMerged(km[m], work[m])
    BY <1>4, StatusHalfStep
  <2> QED
    BY <1>t, <1>k, <1>1, <2>1, PatchKeepsPublished
<1>5. CASE Start(m) \/ Progress(m)
  <2>1. PatchSpec(m) \/ PatchStatus(m) \/ PatchFails(m) \/ km' = km
    BY <1>5 DEF Start, Progress, Skip, Begin, LookupClient, ReadSecret, Store, NoClient,
          CreateNode, GetNode, UpdateNodeStatus, EnsureNodeLease, DeleteNode, CallFails, mgmtVars
  <2> QED
    BY <1>1, <1>3, <1>4, <2>1, PatchHalves
<1>6. CASE Sync(m) \/ Resync(m) \/ SetBootstrap(m) \/ RemoveNode(m)
  BY <1>1, <1>6 DEF Sync, Resync, SetBootstrap, RemoveNode, mgmtVars
<1>7. CASE CreateMachine(m) \/ SetOwner(m)
  BY <1>t, <1>7 DEF CreateMachine, SetOwner, TypeOK, Objects, KeepsPublished
<1>8. CASE DeleteMachine(m)
  <2>1. km'[m] = Stored([km[m] EXCEPT !.phase = "deleting"])
    BY <1>8 DEF DeleteMachine, TypeOK
  <2>2. km'[m] = [km[m] EXCEPT !.phase = "deleting"]
    BY <2>1 DEF Stored, Gone
  <2> QED
    BY <1>t, <2>2 DEF Objects, KeepsPublished
<1>9. CASE Restart \/ SetPaused \/ ClusterDown \/ ClusterSteps \/ UNCHANGED vars
  BY <1>1, <1>9 DEF Restart, SetPaused, ClusterDown, ClusterSteps, vars, mgmtVars
<1> QED
  BY <1>1, <1>2, <1>5, <1>6, <1>7, <1>8, <1>9 DEF Next, Controller, Environment

\* However stale the copy a patch was made from, a machine in use never loses
\* its ProviderID, readiness or addresses.
THEOREM PublishedIsNeverTakenBack == Spec => NeverUnprovisioned
<1> DEFINE Kept == \A m \in Machines :
              (km[m].phase = "live" /\ km'[m].phase # "absent")
                  => /\ km[m].pid => km'[m].pid
                     /\ km[m].ready => km'[m].ready
                     /\ km[m].addr => km'[m].addr
<1>1. TypeOK /\ Coherent /\ [Next]_vars => [Kept]_vars
  BY StepKeepsPublished DEF KeepsPublished
<1> QED
  BY <1>1, InductiveInvariant, PTL DEF Spec, NeverUnprovisioned
(***************************************************************************)
(* The finalizer                                                            *)
(***************************************************************************)

LEMMA HeldFrame ==
    ASSUME NEW n \in Machines, HeldCoherent(n), Untouched(n)
    PROVE  HeldCoherent(n)'
BY DEF HeldCoherent, Untouched, Held, Deletes

\* What the spec half of a patch does to the finalizer: it adds the one it has
\* added in memory, and takes away only the one it has taken away there.
LEMMA SpecPatchHolds ==
    ASSUME NEW o \in Objects, NEW w \in Works
    PROVE  LET p == Stored(SpecMerged(o, w)) IN
           /\ p.phase = "live" => o.phase = "live"
           /\ o.phase # "absent" /\ p.phase = "absent" => ~p.fin
           /\ w.new.fin /\ (w.old.fin => o.fin) => p.fin
           /\ w.old.fin /\ p.fin => o.fin
           /\ p.phase = "live" /\ p.pid /\ ~o.pid => w.new.pid # w.old.pid
           /\ p.phase = "live" /\ o.fin /\ ~p.fin => ~w.new.fin
BY DEF Stored, SpecMerged, Merge, Gone, Objects, Works

\* The step of a reconcile that only takes the next jump.
LEMMA JumpHeld ==
    ASSUME NEW m \in Machines, HeldCoherent(m),
           km'[m] = km[m], cache'[m] = cache[m], work'[m].old = work[m].old
    PROVE  HeldCoherent(m)'
BY DEF HeldCoherent, Held, Deletes

\* The steps of a reconcile before its patch change nothing stored or cached and
\* keep the copy it started from.
LEMMA CallsJump ==
    ASSUME TypeOK, NEW m \in Machines,
           \/ LookupClient(m) \/ ReadSecret(m) \/ Store(m) \/ NoClient(m)
           \/ CreateNode(m) \/ GetNode(m) \/ UpdateNodeStatus(m) \/ EnsureNodeLease(m)
           \/ DeleteNode(m) \/ CallFails(m)
    PROVE  km' = km /\ cache' = cache /\ work'[m].old = work[m].old
<1>t. work[m] \in Works /\ work \in [Machines -> Works]
  BY DEF TypeOK
<1>1. km' = km /\ cache' = cache
  BY DEF LookupClient, ReadSecret, Store, NoClient, CreateNode, GetNode, UpdateNodeStatus,
         EnsureNodeLease, DeleteNode, CallFails, mgmtVars
<1>2. ASSUME NEW c, HaveClient(m, c) PROVE work'[m].old = work[m].old
  BY <1>2, <1>t DEF HaveClient, Works
<1>3. ASSUME NEW pc, Goto(m, pc) PROVE work'[m].old = work[m].old
  BY <1>3, <1>t DEF Goto, Works
<1>4. Retry(m) => work'[m].old = work[m].old
  BY <1>t DEF Retry, Works
<1>5. ASSUME LookupClient(m) \/ Store(m) \/ GetNode(m) \/ UpdateNodeStatus(m) \/ CallFails(m)
      PROVE  work'[m].old = work[m].old
  BY <1>5, <1>2, <1>3, <1>4
     DEF LookupClient, Store, GetNode, UpdateNodeStatus, CallFails
<1>6. ASSUME ReadSecret(m) \/ NoClient(m) PROVE work'[m].old = work[m].old
  BY <1>6, <1>4, <1>t DEF ReadSecret, NoClient, Works
<1>7. ASSUME CreateNode(m) PROVE work'[m].old = work[m].old
  BY <1>7, <1>3 DEF CreateNode
<1>8. ASSUME EnsureNodeLease(m) \/ DeleteNode(m) PROVE work'[m].old = work[m].old
  BY <1>8, <1>t DEF EnsureNodeLease, DeleteNode, Works
<1> QED
  BY <1>1, <1>5, <1>6, <1>7, <1>8

\* A step of the reconcile of m keeps the finalizer where it was seen.
LEMMA ReconcileHeld ==
    ASSUME TypeOK, NEW m \in Machines, CoherentFor(m), HeldCoherent(m), Start(m) \/ Progress(m)
    PROVE  HeldCoherent(m)'
<1>t. /\ work[m] \in Works /\ km[m] \in Objects /\ cache[m] \in Objects
      /\ work \in [Machines -> Works] /\ km \in [Machines -> Objects]
  BY DEF TypeOK
<1>1. CASE Skip(m)
  BY <1>1, JumpHeld DEF Skip, Take
<1>2. CASE Begin(m)
  <2>1. km' = km /\ cache' = cache /\ work[m] = Idle
    BY <1>2 DEF Begin, Take
  <2>2. work'[m].old = cache[m] /\ cache[m].phase \in {"live", "deleting"}
    BY <1>2, <1>t DEF Begin, Idle, Objects, Phases
  <2> QED
    BY <2>1, <2>2 DEF HeldCoherent, Held, Deletes, Idle, Gone
<1>3. CASE \/ LookupClient(m) \/ ReadSecret(m) \/ Store(m) \/ NoClient(m)
           \/ CreateNode(m) \/ GetNode(m) \/ UpdateNodeStatus(m) \/ EnsureNodeLease(m)
           \/ DeleteNode(m) \/ CallFails(m)
  BY <1>3, CallsJump, JumpHeld
<1>4. CASE SpecHalf(m)
  <2>1. cache' = cache /\ work'[m].old = work[m].old
    BY <1>4, SpecHalfStep
  <2>2. \/ km'[m] = km[m]
        \/ km'[m] = Stored(SpecMerged(km[m], work[m])) /\ km[m].phase # "absent"
    BY <1>4, SpecHalfStep
  <2>3. CASE km'[m] = km[m]
    BY <2>1, <2>3, JumpHeld
  <2>4. CASE km'[m] = Stored(SpecMerged(km[m], work[m])) /\ km[m].phase # "absent"
    <3> DEFINE o == km[m]
               w == work[m]
               p == km'[m]
    <3>1. w.old.phase \in {"live", "deleting"}
      <4>1. w.pc = "patchSpec"
        BY <1>4, SpecHalfStep
      <4> QED
        BY <4>1, <1>t DEF CoherentFor, WorkCoherent, Works, Objects, Phases
    <3>2. /\ p.phase = "live" => o.phase = "live"
          /\ p.phase = "absent" => ~p.fin
          /\ w.new.fin /\ (w.old.fin => o.fin) => p.fin
          /\ w.old.fin /\ p.fin => o.fin
          /\ p.phase = "live" /\ p.pid /\ ~o.pid => w.new.pid # w.old.pid
          /\ p.phase = "live" /\ o.fin /\ ~p.fin => ~w.new.fin
      BY <2>4, <1>t, SpecPatchHolds
    <3>3. CASE w.old.phase = "live"
      <4>1. w.new.fin /\ (w.old.fin => o.fin)
        BY <3>3 DEF CoherentFor, WorkCoherent, HeldCoherent, Held
      <4>2. p.fin
        BY <3>2, <4>1
      <4> QED
        BY <2>1, <3>2, <3>3, <4>2 DEF HeldCoherent, Held, Deletes
    <3>4. CASE w.old.phase = "deleting"
      <4>1. /\ w.old.fin /\ ~Held(o) /\ ~Held(cache[m])
            /\ w.new.pid = w.old.pid
        BY <3>4 DEF CoherentFor, WorkCoherent, HeldCoherent, Deletes
      <4>2. ~Held(p)
        BY <3>2, <4>1 DEF Held
      <4>3. p.phase = "live" => ~p.pid
        BY <3>2, <4>1 DEF HeldCoherent, Held
      <4> QED
        BY <2>1, <3>2, <3>4, <4>1, <4>2, <4>3 DEF HeldCoherent, Held, Deletes
    <3> QED
      BY <3>1, <3>3, <3>4
  <2> QED
    BY <2>2, <2>3, <2>4
<1>5. CASE StatusHalf(m)
  <2>1. cache' = cache /\ work'[m] = Idle /\ work[m].pc = "patchStatus"
    BY <1>5, StatusHalfStep
  <2>2. km'[m] = km[m] \/ km'[m] = StatusMerged(km[m], work[m])
    BY <1>5, StatusHalfStep
  <2>3. km'[m].phase = km[m].phase /\ km'[m].fin = km[m].fin /\ km'[m].pid = km[m].pid
    BY <2>2, <1>t, StatusPatch
  <2>4. work[m].old.phase \in {"live", "deleting"}
    BY <2>1, <1>t DEF CoherentFor, WorkCoherent, Works, Objects, Phases
  <2>5. cache[m].phase = "deleting" /\ work[m].old.phase = "live" => km[m].phase = "deleting"
    BY DEF CoherentFor, CacheCoherent
  <2> QED
    BY <2>1, <2>3, <2>4, <2>5 DEF HeldCoherent, Held, Deletes, Idle, Gone
<1> QED
  BY <1>1, <1>2, <1>3, <1>4, <1>5, PatchHalves DEF Start, Progress

\* So do the watch and what users and Cluster API do to m.
LEMMA EventHeld ==
    ASSUME TypeOK, NEW m \in Machines, CoherentFor(m), HeldCoherent(m),
           \/ Sync(m) \/ Resync(m) \/ CreateMachine(m) \/ SetOwner(m)
           \/ SetBootstrap(m) \/ DeleteMachine(m) \/ RemoveNode(m)
    PROVE  HeldCoherent(m)'
<1>t. /\ km[m] \in Objects /\ cache[m] \in Objects
      /\ cache \in [Machines -> Objects] /\ km \in [Machines -> Objects]
  BY DEF TypeOK
<1>1. CASE Sync(m)
  <2>1. km' = km /\ cache'[m] = km[m] /\ work' = work
    BY <1>1, <1>t DEF Sync
  <2>2. km[m].phase = "deleting" => km[m].fin
    BY DEF CoherentFor, StoredCoherent
  <2> QED
    BY <2>1, <2>2 DEF HeldCoherent, Held, Deletes
<1>2. CASE Resync(m) \/ SetBootstrap(m) \/ RemoveNode(m)
  BY <1>2, JumpHeld DEF Resync, SetBootstrap, RemoveNode, mgmtVars
<1>3. CASE CreateMachine(m)
  <2>1. /\ cache' = cache /\ work' = work /\ km[m].phase = "absent"
        /\ km'[m] = [Gone EXCEPT !.phase = "live"]
    BY <1>3, <1>t DEF CreateMachine
  <2>2. ~km'[m].fin /\ ~km'[m].pid
    BY <2>1 DEF Gone
  <2>3. ~Held(cache[m]) /\ ~Held(work[m].old)
    BY <2>1, <1>t DEF HeldCoherent, CoherentFor, StoredCoherent, Objects
  <2> QED
    BY <2>1, <2>2, <2>3 DEF HeldCoherent, Held, Deletes
<1>4. CASE SetOwner(m)
  <2>1. /\ cache' = cache /\ work' = work
        /\ km'[m].phase = km[m].phase /\ km'[m].fin = km[m].fin /\ km'[m].pid = km[m].pid
    BY <1>4, <1>t DEF SetOwner, Objects
  <2> QED
    BY <2>1 DEF HeldCoherent, Held, Deletes
<1>5. CASE DeleteMachine(m)
  <2>1. /\ cache' = cache /\ work' = work /\ km[m].phase = "live"
        /\ km'[m] = Stored([km[m] EXCEPT !.phase = "deleting"])
    BY <1>5, <1>t DEF DeleteMachine
  <2>2. /\ km'[m].phase # "live" /\ (km[m].fin => km'[m].fin)
        /\ km'[m].phase = "absent" => ~km'[m].fin
    BY <2>1, <1>t DEF Stored, Gone, Objects
  <2> QED
    BY <2>1, <2>2 DEF HeldCoherent, Held, Deletes
<1> QED
  BY <1>1, <1>2, <1>3, <1>4, <1>5

\* A restart forgets the reconciles and lists what is stored.
LEMMA GlobalHeld ==
    ASSUME TypeOK, NEW n \in Machines, CoherentFor(n), HeldCoherent(n),
           Restart \/ SetPaused \/ ClusterDown \/ ClusterSteps \/ UNCHANGED vars
    PROVE  HeldCoherent(n)'
<1>1. CASE Restart
  <2>1. km' = km /\ cache' = km /\ work'[n] = Idle
    BY <1>1 DEF Restart
  <2>2. km[n].phase = "deleting" => km[n].fin
    BY DEF CoherentFor, StoredCoherent
  <2> QED
    BY <2>1, <2>2 DEF HeldCoherent, Held, Deletes, Idle, Gone
<1>2. CASE SetPaused \/ ClusterDown \/ ClusterSteps \/ UNCHANGED vars
  BY <1>2, JumpHeld DEF SetPaused, ClusterDown, ClusterSteps, vars, mgmtVars
<1> QED
  BY <1>1, <1>2

LEMMA StepHeld ==
    ASSUME TypeOK, Coherent, HeldByFinalizer, [Next]_vars
    PROVE  HeldByFinalizer'
<1> SUFFICES ASSUME NEW n \in Machines PROVE HeldCoherent(n)'
  BY DEF HeldByFinalizer
<1>c. \A m \in Machines : CoherentFor(m) /\ HeldCoherent(m)
  BY DEF Coherent, CoherentFor, HeldByFinalizer
<1>1. ASSUME NEW m \in Machines, Start(m) \/ Progress(m)
      PROVE  HeldCoherent(n)'
  BY <1>1, <1>c, ReconcileHeld, OthersUntouched, HeldFrame
<1>2. ASSUME NEW m \in Machines,
             \/ Sync(m) \/ Resync(m) \/ CreateMachine(m) \/ SetOwner(m)
             \/ SetBootstrap(m) \/ DeleteMachine(m) \/ RemoveNode(m)
      PROVE  HeldCoherent(n)'
  BY <1>2, <1>c, EventHeld, OthersUntouched, HeldFrame
<1>3. CASE Restart \/ SetPaused \/ ClusterDown \/ ClusterSteps \/ UNCHANGED vars
  BY <1>3, <1>c, GlobalHeld
<1> QED
  BY <1>1, <1>2, <1>3 DEF Next, Controller, Environment

\* A machine in use with a ProviderID has the finalizer, whatever copy the patch
\* that set the ProviderID was made from.
THEOREM ProvisionedMachinesAreHeld == Spec => []ProvisionedIsHeld
<1>1. Init => HeldByFinalizer
  BY DEF Init, HeldByFinalizer, HeldCoherent, Held, Deletes, Idle, Gone
<1>2. HeldByFinalizer => ProvisionedIsHeld
  BY DEF HeldByFinalizer, HeldCoherent, ProvisionedIsHeld
<1>3. TypeOK /\ Coherent /\ HeldByFinalizer /\ [Next]_vars => HeldByFinalizer'
  BY StepHeld
<1> QED
  BY <1>1, <1>2, <1>3, InductiveInvariant, PTL DEF Spec
=============================================================================
