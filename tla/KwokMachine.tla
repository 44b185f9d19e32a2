---------------------------- MODULE KwokMachine ----------------------------
(***************************************************************************)
(* The KwokMachine controller (kwokmachine_controller.go): every API call   *)
(* of a reconcile is a step of its own, so that deletions, cache updates,   *)
(* failures, lost replies and restarts of the manager fall between any two  *)
(* of them.  A reconcile reads its KwokMachine from the informer cache,     *)
(* which trails the API server; it writes only through the deferred         *)
(* patchHelper.Patch, first spec and metadata, then the status subresource. *)
(***************************************************************************)
EXTENDS WorkloadClient

CONSTANTS
    Machines,     \* names of KwokMachines (a Node carries its machine's name)
    MaxFaults     \* bound on failed API calls, lost replies, restarts of the
                  \* manager and Nodes deleted by somebody else

ASSUME FaultsAssumption == MaxFaults \in Nat

VARIABLES
    km,       \* the KwokMachines stored in the management cluster
    cache,    \* the informer's copy of each
    queue,    \* machines in the controller's workqueue
    work,     \* the reconcile in flight for each machine
    boot,     \* machines whose owner has bootstrap.dataSecretName set
    paused,   \* Cluster.spec.paused
    node,     \* Nodes of the running workload cluster
    lease,    \* machines with a Lease in kube-node-lease
    lost,     \* history: machines whose node was removed by somebody else
    faults    \* failures so far

mgmtVars == <<km, cache, queue, boot, paused>>
nodeVars == <<node, lease, lost>>
vars == <<clientVars, mgmtVars, nodeVars, work, faults>>

Phases == {"absent", "live", "deleting"}

\* What the reconciler reads and writes of a KwokMachine: owned is the owner
\* reference to its Machine, fin the finalizer, pid spec.providerID, ready
\* status.ready with initialization.provisioned, addr status.addresses.
Objects == [phase : Phases, owned : BOOLEAN, fin : BOOLEAN,
            pid : BOOLEAN, ready : BOOLEAN, addr : BOOLEAN]

Gone == [phase |-> "absent", owned |-> FALSE, fin |-> FALSE,
         pid |-> FALSE, ready |-> FALSE, addr |-> FALSE]

Calls == {"createNode", "getNode", "status", "lease", "deleteNode"}
PCs == {"idle", "getClient", "readSecret", "storeClient", "patchSpec", "patchStatus"}
           \union Calls

\* old is the object as read, new as modified in memory, cli the generation
\* of the client in hand, again whether the result asks for a requeue.
Works == [pc : PCs, old : Objects, new : Objects, cli : Gens, again : BOOLEAN]

Idle == [pc |-> "idle", old |-> Gone, new |-> Gone, cli |-> 0, again |-> FALSE]

TypeOK ==
    /\ ClientTypeOK
    /\ km \in [Machines -> Objects]
    /\ cache \in [Machines -> Objects]
    /\ queue \in SUBSET Machines
    /\ work \in [Machines -> Works]
    /\ boot \in SUBSET Machines
    /\ paused \in BOOLEAN
    /\ node \in [Machines -> {"none", "bare", "ready"}]
    /\ lease \in SUBSET Machines
    /\ lost \in SUBSET Machines
    /\ faults \in 0 .. MaxFaults

Init ==
    /\ ClientInit
    /\ km = [m \in Machines |-> Gone]
    /\ cache = [m \in Machines |-> Gone]
    /\ queue = {}
    /\ work = [m \in Machines |-> Idle]
    /\ boot = {}
    /\ paused = FALSE
    /\ node = [m \in Machines |-> "none"]
    /\ lease = {}
    /\ lost = {}
    /\ faults = 0

-----------------------------------------------------------------------------
(***************************************************************************)
(* Control inside a reconcile                                               *)
(***************************************************************************)

\* Which of reconcileDelete, renewHeartbeat and provisioning w is running.
Deletes(w) == w.old.phase = "deleting"
Renews(w) == ~Deletes(w) /\ w.old.pid
Provisions(w) == ~Deletes(w) /\ ~w.old.pid

Goto(m, pc) == work' = [work EXCEPT ![m].pc = pc]

\* return with a requeue: an error, or RequeueAfter (renewHeartbeat's errors
\* are logged and the requeue in 30 seconds stays)
Retry(m) == work' = [work EXCEPT ![m].pc = "patchSpec", ![m].again = TRUE]

\* The branch taken once GetClient has returned the client c.
AfterClient(w) ==
    CASE Provisions(w) -> "createNode"
      [] Renews(w)     -> "getNode"
      [] Deletes(w)    -> IF w.old.pid THEN "deleteNode" ELSE "patchSpec"

\* Deletion without a ProviderID has no node name and drops the finalizer.
HaveClient(m, c) ==
    LET pc == AfterClient(work[m])
    IN  work' = [work EXCEPT ![m].pc = pc, ![m].cli = c,
                             ![m].new.fin = @ /\ pc # "patchSpec"]

\* One more failure, while the bound on them is not used up.
Fault ==
    /\ faults < MaxFaults
    /\ faults' = faults + 1

-----------------------------------------------------------------------------
(***************************************************************************)
(* Reconcile up to the call of GetClient                                    *)
(***************************************************************************)

\* A worker takes m off the queue; a machine is never reconciled twice at once.
\* Nothing bounds the workers, so this covers every --machine-concurrency.
Take(m) ==
    /\ m \in queue
    /\ work[m] = Idle
    /\ queue' = queue \ {m}

\* Early returns of Reconcile: not found, no owner Machine, paused.  No requeue.
Skip(m) ==
    /\ Take(m)
    /\ \/ cache[m].phase = "absent"
       \/ ~cache[m].owned
       \/ paused
    /\ UNCHANGED <<clientVars, km, cache, boot, paused, nodeVars, work, faults>>

\* Mutant: the finalizer is only added where a machine waits for its bootstrap data.
BeginUnheld(m) ==
    /\ Take(m)
    /\ cache[m].phase # "absent"
    /\ cache[m].owned
    /\ ~paused
    /\ LET c == cache[m]
           live == c.phase = "live"
           waits == live /\ ~c.pid /\ m \notin boot
       IN  work' = [work EXCEPT ![m] =
               [Idle EXCEPT
                  !.pc = IF waits THEN "patchSpec" ELSE "getClient",
                  !.old = c,
                  !.new = [c EXCEPT !.fin = @ \/ waits, !.ready = c.ready \/ (live /\ c.pid)]]]
    /\ UNCHANGED <<clientVars, km, cache, boot, paused, nodeVars, faults>>

\* Reconcile goes on with the copy it read; reconcileNormal adds the finalizer
\* to it in memory, and the status when the ProviderID is set already.
Begin(m) ==
    /\ Take(m)
    /\ cache[m].phase # "absent"
    /\ cache[m].owned
    /\ ~paused
    /\ LET c == cache[m]
           live == c.phase = "live"
           waits == live /\ ~c.pid /\ m \notin boot
       IN  work' = [work EXCEPT ![m] =
               [Idle EXCEPT
                  !.pc = IF waits THEN "patchSpec" ELSE "getClient",
                  !.old = c,
                  !.new = [c EXCEPT !.fin = TRUE, !.ready = c.ready \/ (live /\ c.pid)]]]
    /\ UNCHANGED <<clientVars, km, cache, boot, paused, nodeVars, faults>>

-----------------------------------------------------------------------------
(***************************************************************************)
(* GetClient: two critical sections with the read of the secret in between  *)
(***************************************************************************)

LookupClient(m) ==
    /\ work[m].pc = "getClient"
    /\ IF Cached THEN HaveClient(m, client) ELSE Goto(m, "readSecret")
    /\ UNCHANGED <<clientVars, mgmtVars, nodeVars, faults>>

\* The certificates are those of the secret, the address is that of the Cluster's
\* endpoint, which may still be of an earlier cluster: a client with either of an
\* earlier one is as good as a client for that.
ReadSecret(m) ==
    /\ work[m].pc = "readSecret"
    /\ secret # 0
    /\ \E endpoint \in 1 .. secret :
          work' = [work EXCEPT ![m].pc = "storeClient", ![m].cli = endpoint]
    /\ UNCHANGED <<clientVars, mgmtVars, nodeVars, faults>>

Store(m) ==
    /\ work[m].pc = "storeClient"
    /\ StoreClient(work[m].cli)
    /\ HaveClient(m, work[m].cli)
    /\ UNCHANGED <<gen, server, secret, mgmtVars, nodeVars, faults>>

\* No secret, or its read fails: reconcileNormal returns the error, deletion
\* goes on without touching the Node and drops the finalizer.
NoClient(m) ==
    /\ work[m].pc = "readSecret"
    /\ \/ secret = 0 /\ UNCHANGED faults
       \/ Fault
    /\ IF Deletes(work[m])
         THEN work' = [work EXCEPT ![m].pc = "patchSpec", ![m].new.fin = FALSE]
         ELSE Retry(m)
    /\ UNCHANGED <<clientVars, mgmtVars, nodeVars>>

-----------------------------------------------------------------------------
(***************************************************************************)
(* Calls to the workload cluster                                            *)
(***************************************************************************)

CallReaches(m, pc) ==
    /\ work[m].pc = pc
    /\ Reaches(work[m].cli)

\* Mutant: AlreadyExists is an error like any other.
CreateNodeOnce(m) ==
    /\ CallReaches(m, "createNode")
    /\ IF node[m] = "none"
         THEN node' = [node EXCEPT ![m] = "bare"] /\ Goto(m, "status")
         ELSE Retry(m) /\ UNCHANGED node
    /\ UNCHANGED <<clientVars, mgmtVars, lease, lost, faults>>

\* Create, or AlreadyExists and then Get.
CreateNode(m) ==
    /\ CallReaches(m, "createNode")
    /\ IF node[m] = "none"
         THEN node' = [node EXCEPT ![m] = "bare"] /\ Goto(m, "status")
         ELSE Goto(m, "getNode") /\ UNCHANGED node
    /\ UNCHANGED <<clientVars, mgmtVars, lease, lost, faults>>

\* Mutant: the condition on a Node that is not there is inverted for renewal.
GetNodeInverted(m) ==
    /\ CallReaches(m, "getNode")
    /\ IF node[m] = "none" \/ Renews(work[m]) THEN Retry(m) ELSE Goto(m, "status")
    /\ UNCHANGED <<clientVars, mgmtVars, nodeVars, faults>>

\* A Node that is not there fails the provisioning and ends the renewal.
GetNode(m) ==
    /\ CallReaches(m, "getNode")
    /\ IF node[m] = "none" THEN Retry(m) ELSE Goto(m, "status")
    /\ UNCHANGED <<clientVars, mgmtVars, nodeVars, faults>>

\* The Node once its status is updated: provisioning writes the conditions,
\* renewal only touches the heartbeat times of the conditions it finds.
StatusWritten(m) ==
    IF Provisions(work[m]) /\ node[m] # "none" THEN [node EXCEPT ![m] = "ready"] ELSE node

\* Status().Update: fails with NotFound when the Node has gone.
UpdateNodeStatus(m) ==
    /\ CallReaches(m, "status")
    /\ node' = StatusWritten(m)
    /\ IF node[m] = "none" THEN Retry(m) ELSE Goto(m, "lease")
    /\ UNCHANGED <<clientVars, mgmtVars, lease, lost, faults>>

\* ensureNodeLease, after which provisioning sets ProviderID and status in
\* memory.  A complete registration supersedes an earlier removal of the Node.
EnsureNodeLease(m) ==
    /\ CallReaches(m, "lease")
    /\ lease' = lease \union {m}
    /\ lost' = IF node[m] = "ready" THEN lost \ {m} ELSE lost
    /\ LET w == work[m]
           new == IF Provisions(w)
                    THEN [w.new EXCEPT !.pid = TRUE, !.ready = TRUE, !.addr = TRUE]
                    ELSE w.new
       IN  work' = [work EXCEPT ![m] =
                      [w EXCEPT !.pc = "patchSpec", !.new = new, !.again = TRUE]]
    /\ UNCHANGED <<clientVars, mgmtVars, node, faults>>

\* Mutant: NotFound keeps the finalizer.
DeleteNodeOnce(m) ==
    /\ CallReaches(m, "deleteNode")
    /\ IF node[m] = "none"
         THEN Retry(m) /\ UNCHANGED node
         ELSE /\ node' = [node EXCEPT ![m] = "none"]
              /\ work' = [work EXCEPT ![m].pc = "patchSpec", ![m].new.fin = FALSE]
    /\ UNCHANGED <<clientVars, mgmtVars, lease, lost, faults>>

\* Deleted or NotFound: either way the finalizer goes.
DeleteNode(m) ==
    /\ CallReaches(m, "deleteNode")
    /\ node' = [node EXCEPT ![m] = "none"]
    /\ work' = [work EXCEPT ![m].pc = "patchSpec", ![m].new.fin = FALSE]
    /\ UNCHANGED <<clientVars, mgmtVars, lease, lost, faults>>

\* What the API server has done when the reply to a call is lost.
Effect(m) ==
    CASE work[m].pc = "createNode" /\ node[m] = "none" -> [node EXCEPT ![m] = "bare"]
      [] work[m].pc = "status"                         -> StatusWritten(m)
      [] work[m].pc = "deleteNode"                     -> [node EXCEPT ![m] = "none"]
      [] OTHER                                         -> node

\* Mutant: reconcileNormal goes on after a failed call.
CallFailsIgnored(m) ==
    /\ work[m].pc \in Calls
    /\ ~Reaches(work[m].cli) \/ faults < MaxFaults
    /\ Goto(m, IF work[m].pc = "createNode" THEN "lease" ELSE "patchSpec")
    /\ UNCHANGED <<clientVars, mgmtVars, nodeVars, faults>>

\* Mutant: reconcileDelete drops the finalizer although Delete failed.
CallFailsReleases(m) ==
    /\ work[m].pc \in Calls
    /\ ~Reaches(work[m].cli) \/ faults < MaxFaults
    /\ work' = [work EXCEPT ![m].pc = "patchSpec", ![m].again = TRUE,
                            ![m].new.fin = ~Deletes(work[m])]
    /\ UNCHANGED <<clientVars, mgmtVars, nodeVars, faults>>

\* The server behind the client is gone for good, or one call fails, before
\* or after it took effect.
CallFails(m) ==
    /\ work[m].pc \in Calls
    /\ \/ ~Reaches(work[m].cli) /\ UNCHANGED <<node, lease, faults>>
       \/ /\ Reaches(work[m].cli)
          /\ Fault
          /\ \/ UNCHANGED <<node, lease>>
             \/ /\ node' = Effect(m)
                /\ lease' = IF work[m].pc = "lease" THEN lease \union {m} ELSE lease
    /\ Retry(m)
    /\ UNCHANGED <<clientVars, mgmtVars, lost>>

-----------------------------------------------------------------------------
(***************************************************************************)
(* The deferred patchHelper.Patch                                           *)
(***************************************************************************)

\* A merge patch carries only the fields that differ from the copy read.
Merge(stored, old, new) == IF new # old THEN new ELSE stored

\* Mutant: the whole object is written back, as Update would.
SpecOverwritten(o, w) == [o EXCEPT !.fin = w.new.fin, !.pid = w.new.pid]

SpecMerged(o, w) ==
    [o EXCEPT !.fin = Merge(o.fin, w.old.fin, w.new.fin),
              !.pid = Merge(o.pid, w.old.pid, w.new.pid)]

StatusMerged(o, w) ==
    [o EXCEPT !.ready = Merge(o.ready, w.old.ready, w.new.ready),
              !.addr = Merge(o.addr, w.old.addr, w.new.addr)]

\* An object that is being deleted goes with its last finalizer.
Stored(o) == IF o.phase = "deleting" /\ ~o.fin THEN Gone ELSE o

SpecChanged(w) == w.new.fin # w.old.fin \/ w.new.pid # w.old.pid
StatusChanged(w) == w.new.ready # w.old.ready \/ w.new.addr # w.old.addr

PatchSpec(m) ==
    LET w == work[m] IN
    /\ w.pc = "patchSpec"
    /\ IF SpecChanged(w) /\ km[m].phase # "absent"
         THEN /\ km' = [km EXCEPT ![m] = Stored(SpecMerged(@, w))]
              /\ Goto(m, "patchStatus")
         ELSE /\ IF SpecChanged(w)
                   THEN work' = [work EXCEPT ![m].pc = "patchStatus", ![m].again = TRUE]
                   ELSE Goto(m, "patchStatus")
              /\ UNCHANGED km
    /\ UNCHANGED <<clientVars, cache, queue, boot, paused, nodeVars, faults>>

\* The reconcile is over; m goes back into the queue if the result says so.
End(m, again) ==
    /\ work' = [work EXCEPT ![m] = Idle]
    /\ queue' = IF again THEN queue \union {m} ELSE queue

PatchStatus(m) ==
    LET w == work[m] IN
    /\ w.pc = "patchStatus"
    /\ IF StatusChanged(w) /\ km[m].phase # "absent"
         THEN /\ km' = [km EXCEPT ![m] = StatusMerged(@, w)]
              /\ End(m, w.again)
         ELSE /\ End(m, w.again \/ StatusChanged(w))
              /\ UNCHANGED km
    /\ UNCHANGED <<clientVars, cache, boot, paused, nodeVars, faults>>

\* Either half of the patch fails on its own, before or after it took effect; the
\* status half is sent anyway.
PatchFails(m) ==
    LET w == work[m] IN
    /\ Fault
    /\ \/ /\ w.pc = "patchSpec"
          /\ SpecChanged(w)
          /\ \/ UNCHANGED km
             \/ km[m].phase # "absent" /\ km' = [km EXCEPT ![m] = Stored(SpecMerged(@, w))]
          /\ work' = [work EXCEPT ![m].pc = "patchStatus", ![m].again = TRUE]
          /\ UNCHANGED queue
       \/ /\ w.pc = "patchStatus"
          /\ StatusChanged(w)
          /\ \/ UNCHANGED km
             \/ km[m].phase # "absent" /\ km' = [km EXCEPT ![m] = StatusMerged(@, w)]
          /\ End(m, TRUE)
    /\ UNCHANGED <<clientVars, cache, boot, paused, nodeVars>>

-----------------------------------------------------------------------------
(***************************************************************************)
(* Informer, workqueue and restarts of the manager                          *)
(***************************************************************************)

\* The watch delivers the stored object to the cache and enqueues it.
Sync(m) ==
    /\ cache[m] # km[m]
    /\ cache' = [cache EXCEPT ![m] = km[m]]
    /\ queue' = queue \union {m}
    /\ UNCHANGED <<clientVars, km, boot, paused, nodeVars, work, faults>>

\* --sync-period: every object in the cache is enqueued again.
Resync(m) ==
    /\ m \notin queue
    /\ cache[m].phase # "absent"
    /\ queue' = queue \union {m}
    /\ UNCHANGED <<clientVars, km, cache, boot, paused, nodeVars, work, faults>>

\* The manager restarts: reconciles, workqueue and cached clients are lost,
\* and the informer lists every object anew.
Restart ==
    /\ Fault
    /\ work' = [m \in Machines |-> Idle]
    /\ client' = 0
    /\ cache' = km
    /\ queue' = {m \in Machines : km[m].phase # "absent"}
    /\ UNCHANGED <<gen, server, secret, km, boot, paused, nodeVars>>

-----------------------------------------------------------------------------
(***************************************************************************)
(* The rest of the world: users, Cluster API and the workload cluster       *)
(***************************************************************************)

CreateMachine(m) ==
    /\ km[m].phase = "absent"
    /\ km' = [km EXCEPT ![m] = [Gone EXCEPT !.phase = "live"]]
    /\ boot' = boot \ {m}
    /\ UNCHANGED <<clientVars, cache, queue, paused, nodeVars, work, faults>>

\* The CAPI Machine controller sets the owner reference.
SetOwner(m) ==
    /\ km[m].phase = "live"
    /\ ~km[m].owned
    /\ km' = [km EXCEPT ![m].owned = TRUE]
    /\ UNCHANGED <<clientVars, cache, queue, boot, paused, nodeVars, work, faults>>

\* ... and later the bootstrap data, an event of the Machine watch.
SetBootstrap(m) ==
    /\ km[m].owned
    /\ m \notin boot
    /\ boot' = boot \union {m}
    /\ queue' = queue \union {m}
    /\ UNCHANGED <<clientVars, km, cache, paused, nodeVars, work, faults>>

DeleteMachine(m) ==
    /\ km[m].phase = "live"
    /\ km' = [km EXCEPT ![m] = Stored([@ EXCEPT !.phase = "deleting"])]
    /\ UNCHANGED <<clientVars, cache, queue, boot, paused, nodeVars, work, faults>>

\* Nobody watches the Cluster: neither step enqueues a machine.
SetPaused ==
    /\ paused' = ~paused
    /\ UNCHANGED <<clientVars, km, cache, queue, boot, nodeVars, work, faults>>

\* Somebody else deletes the Node ("Node was deleted externally").
RemoveNode(m) ==
    /\ Fault
    /\ server = "running"
    /\ node[m] # "none"
    /\ node' = [node EXCEPT ![m] = "none"]
    /\ lost' = lost \union {m}
    /\ UNCHANGED <<clientVars, mgmtVars, lease, work>>

\* The Nodes and Leases go with the cluster.
ClusterDown ==
    /\ WorkloadDown
    /\ node' = [m \in Machines |-> "none"]
    /\ lease' = {}
    /\ lost' = Machines
    /\ UNCHANGED <<mgmtVars, work, faults>>

ClusterSteps ==
    /\ WorkloadSteps
    /\ UNCHANGED <<mgmtVars, nodeVars, work, faults>>

-----------------------------------------------------------------------------

\* The steps of a reconcile once it has begun.
Progress(m) ==
    \/ LookupClient(m) \/ ReadSecret(m) \/ Store(m) \/ NoClient(m)
    \/ CreateNode(m) \/ GetNode(m) \/ UpdateNodeStatus(m) \/ EnsureNodeLease(m)
    \/ DeleteNode(m) \/ CallFails(m)
    \/ PatchSpec(m) \/ PatchStatus(m) \/ PatchFails(m)

Start(m) == Skip(m) \/ Begin(m)

Controller == \E m \in Machines : Start(m) \/ Progress(m) \/ Sync(m) \/ Resync(m)

Environment ==
    \/ \E m \in Machines : \/ CreateMachine(m) \/ SetOwner(m) \/ SetBootstrap(m)
                           \/ DeleteMachine(m) \/ RemoveNode(m)
    \/ SetPaused \/ ClusterDown \/ ClusterSteps

Next == Controller \/ Environment \/ Restart

Spec == Init /\ [][Next]_vars

\* The manager runs: workers take what is queued (the workqueue is first in,
\* first out, so no key is passed over for ever), a reconcile goes on, the
\* watch delivers and the resync comes round.  Users, Cluster API and the
\* workload cluster owe nothing.
Fairness ==
    \A m \in Machines :
        /\ WF_vars(Start(m))
        /\ WF_vars(Progress(m))
        /\ WF_vars(Sync(m))
        /\ WF_vars(Resync(m))

FairSpec == Spec /\ Fairness
-----------------------------------------------------------------------------
(***************************************************************************)
(* Safety                                                                   *)
(***************************************************************************)

\* A KwokMachine that is in use and published a ProviderID or Ready has a Node
\* with its conditions and a Lease in the running workload cluster, unless
\* somebody other than the controller took the Node away.
ProvisionedHasNode ==
    \A m \in Machines :
        (km[m].phase = "live" /\ (km[m].pid \/ km[m].ready))
            => (node[m] = "ready" /\ m \in lease) \/ m \in lost

\* A KwokMachine with a ProviderID is held by the finalizer, so that its deletion
\* goes through reconcileDelete: no stale copy with the finalizer of an earlier
\* object of that name keeps the patch from carrying it.
ProvisionedIsHeld ==
    \A m \in Machines : km[m].phase = "live" /\ km[m].pid => km[m].fin

\* A deletion whose reconcile read the ProviderID and got a client lets the
\* KwokMachine go only when its Node is gone (reconcileDelete).
ReleaseAfterNode ==
    [][\A m \in Machines :
          (/\ km[m].phase = "deleting" /\ km'[m].phase = "absent"
           /\ work[m].old.pid /\ work[m].cli # 0)
              => node[m] = "none"]_vars

\* What a KwokMachine has published, its ProviderID, readiness and addresses,
\* is not taken back while it exists, whatever stale copy a patch was made from.
NeverUnprovisioned ==
    [][\A m \in Machines :
          (km[m].phase = "live" /\ km'[m].phase # "absent")
              => /\ km[m].pid => km'[m].pid
                 /\ km[m].ready => km'[m].ready
                 /\ km[m].addr => km'[m].addr]_vars

(***************************************************************************)
(* The inductive invariant behind the safety properties                     *)
(***************************************************************************)

Published(o) == o.phase = "live" /\ (o.pid \/ o.ready)

Registered(m) == (node[m] = "ready" /\ m \in lease) \/ m \in lost

\* What is stored: published machines are registered, and an object that is
\* being deleted is held by the finalizer.
StoredCoherent(m) ==
    /\ Published(km[m]) => Registered(m)
    /\ km[m].phase = "deleting" => km[m].fin

\* What a reconcile holds in memory: it never takes anything back, publishes
\* only a registered Node, and drops the finalizer only in reconcileDelete
\* with no client in hand or with the Node gone.
WorkCoherent(m) ==
    LET w == work[m] IN
    /\ w.pc = "idle" => w = Idle
    /\ w.pc # "idle" => w.old.phase # "absent"
    /\ w.pc \in {"getClient", "readSecret"} => w.cli = 0 /\ w.new.fin
    /\ w.pc \in {"storeClient"} \union Calls => w.new.fin
    /\ w.pc = "deleteNode" => Deletes(w)
    /\ w.pc = "lease" /\ Provisions(w) => node[m] = "ready" \/ m \in lost
    /\ w.old.pid => w.new.pid
    /\ w.old.ready => w.new.ready
    /\ w.old.addr => w.new.addr
    /\ w.old.phase = "live" =>
          /\ w.new.fin
          /\ w.new.pid \/ w.new.ready => Registered(m)
    /\ Deletes(w) =>
          /\ ~Published(km[m]) /\ ~Published(cache[m])
          /\ w.new.pid = w.old.pid /\ w.new.ready = w.old.ready /\ w.new.addr = w.old.addr
          /\ ~w.new.fin /\ w.old.pid /\ w.cli # 0 => node[m] = "none"

\* What the informer shows: a published copy is of a registered machine, and
\* after a deletion was seen nothing is published before it is over.
CacheCoherent(m) ==
    /\ Published(cache[m]) => Registered(m)
    /\ cache[m].phase = "deleting" =>
          IF work[m].old.phase = "live"
            THEN km[m].phase = "deleting"
            ELSE ~Published(km[m])

Coherent == \A m \in Machines : StoredCoherent(m) /\ WorkCoherent(m) /\ CacheCoherent(m)

Held(o) == o.phase = "live" /\ o.fin

\* Where the finalizer is: a live copy that shows it, in the cache or in a
\* reconcile, is of an object that still has it, and what was seen being deleted
\* has no successor with a finalizer.
HeldCoherent(m) ==
    LET w == work[m] IN
    /\ km[m].phase = "live" /\ km[m].pid => km[m].fin
    /\ km[m].phase = "absent" => ~km[m].fin
    /\ Held(cache[m]) \/ Held(w.old) => km[m].fin
    /\ cache[m].phase = "deleting" => cache[m].fin
    /\ cache[m].phase = "deleting" /\ w.old.phase # "live" => ~Held(km[m])
    /\ Deletes(w) => w.old.fin /\ ~Held(km[m]) /\ ~Held(cache[m])

HeldByFinalizer == \A m \in Machines : HeldCoherent(m)

(***************************************************************************)
(* Claims of the repository that the code does not keep                     *)
(***************************************************************************)

\* "KwokMachineFinalizer allows the controller to clean up resources on
\* delete": nothing of a machine that is gone stays behind.
NoOrphanNode ==
    \A m \in Machines :
        (km[m].phase = "absent" /\ cache[m].phase = "absent" /\ work[m] = Idle)
            => node[m] = "none"

(***************************************************************************)
(* Liveness                                                                 *)
(***************************************************************************)

\* The cached client is none, or one for the workload cluster as it is now.
ClientFresh == client \in {0, gen}

\* A machine that keeps its owner and bootstrap data, in a cluster that stays
\* up and unpaused with a fresh client, gets its ProviderID and becomes Ready.
EventuallyProvisioned ==
    \A m \in Machines :
        <>[](/\ km[m].phase = "live" /\ km[m].owned /\ m \in boot
             /\ server = "running" /\ secret = gen /\ ClientFresh /\ ~paused)
            => []<>(km[m].pid /\ km[m].ready)

\* The deletion of a machine with an owner does not last for ever while the
\* cluster is unpaused and the cached client is not one for a cluster that is
\* gone.
EventuallyReleased ==
    \A m \in Machines :
        ~ <>[](/\ km[m].phase = "deleting" /\ km[m].owned /\ ~paused
               /\ client = 0 \/ Reaches(client))

\* The lease of a provisioned machine is renewed for ever while its Node is
\* there, the cluster unpaused and the client good: no failure, restart or
\* stale read breaks the chain of requeues for good.
HeartbeatGoesOn ==
    \A m \in Machines :
        <>[](/\ km[m].phase = "live" /\ km[m].owned /\ km[m].pid /\ ~paused
             /\ node[m] # "none" /\ server = "running" /\ secret = gen /\ ClientFresh)
            => []<><<EnsureNodeLease(m)>>_vars

\* "best effort - cluster may already be gone": a deletion ends whether or not
\* the workload cluster still answers.
DeletionIsBestEffort ==
    \A m \in Machines : ~ <>[](km[m].phase = "deleting" /\ km[m].owned /\ ~paused)
=============================================================================
