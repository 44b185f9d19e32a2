# A TLA+ model of the KWOK Cluster API provider

`cluster-api-provider-kwok` lets Cluster API (CAPI) manage simulated workload
clusters: a manager process runs one controller per kind of object, each of
which drives the objects of the management cluster and a fake cluster made by
`kwokctl`. This directory holds TLA+ modules of those controllers, TLC
configurations that check them on small instances, and proofs checked by TLAPS.

All line numbers are those of the commit beside which this directory stands.

## 1. The system

| Component | Source | State it keeps | Operations |
|---|---|---|---|
| KwokMachine controller | `src/internal/controller/infrastructure/kwokmachine_controller.go` | KwokMachine (finalizer, ProviderID, status), the Node and Lease in the workload cluster | `Reconcile`, `reconcileNormal`, `renewHeartbeat`, `ensureNodeLease`, `reconcileDelete`, deferred patch |
| Workload client factory | `.../workload_client.go` | process-wide map from cluster to client | `GetClient`, `RemoveClient` |
| KwokMachinePool controller | `.../kwokmachinepool_controller.go` | KwokMachinePool, its child KwokMachines | scale up, scale down, relist, `reconcileDelete`, deferred patch |
| KwokControlPlane controller | `src/internal/controller/controlplane/kwokcontrolplane_controller.go`, `src/pkg/scope/controlplane.go` | KwokControlPlane (finalizer, endpoint, status) | `Reconcile`, `reconcileNormal`, `reconcileDelete`, `Close` |
| Cluster service | `src/pkg/services/kwok/cluster/{create,delete,runtime,service}.go` | working directory on disk, containers or processes, kubeconfig secret | `Reconcile` (ready check, Save, Install, Up, kubeconfig), `Delete` (Down, Uninstall) |
| KwokCluster controller | `.../kwokcluster_controller.go` | KwokCluster (endpoint, ready) | `Reconcile` |
| KwokConfig bootstrap controller | `src/internal/controller/bootstrap/kwokconfig_controller.go` | KwokConfig, bootstrap secret | `Reconcile` |
| Manager | `src/main.go` | flags: resync period, workers per controller; which objects are cached | wiring, start, recovery from panics |

How they interact. They never call each other. Each reads objects from informer
caches that trail the API server, writes them back with a deferred merge patch
(spec and metadata first, the status subresource second), and is woken by
watches, by its own requeues and by the resync every ten minutes. The control
plane controller creates the workload cluster and publishes its kubeconfig in a
secret; the machine controller reads the secret once, when its factory has no
client for the cluster, and from then on talks to the workload cluster with the
cached client. The KwokCluster controller copies the control plane's endpoint
out of the cache; it has one worker for all KwokClusters, since its
`SetupWithManager` drops the options that hold `--cluster-concurrency`, and a
simulated latency holds that worker. The machines share a queue and
`--machine-concurrency` workers (1 by default). The pool controller creates and deletes KwokMachines and waits
for the machine controller to give them a ProviderID.

What is hard. Every API call of a reconcile can fail, take effect and lose its
reply, or be the last before the manager is restarted. The object a reconcile
works on is a copy that may be older than the stored one, may be of an object
that has gone, or of an earlier one of the same name, and the deferred patch
carries only differences to that copy. Users delete, recreate and pause at any
moment. A Lease lasts 40 seconds and is renewed every 30 by a reconcile that
queues behind those of all other machines. Containers, files, secrets and cached clients outlive the reconcile that
made them, and the workload cluster can go while clients for it stay.

What makes each component correct:

* machine: what it publishes is true (a ProviderID means a Node with conditions
  and a Lease), held by the finalizer and not taken back; a deletion waits for the
  Node; provisioning,
  deletion and heartbeat survive every failure that ends; its Lease does not
  expire while renewals succeed, and is renewed again after a disturbance;
* pool: never too many children however stale the list, no more of them deleted
  than it was asked for beyond its target, no other pool's touched, and in the end
  as many as asked for, all listed;
* control plane: no cluster without an object whose finalizer guards it; the
  endpoint and the secret lead to the cluster that exists and stay; it becomes ready,
  publishes, and its deletion ends; it is started again when it stopped;
* KwokCluster: none that is not Ready is forgotten, whatever the others do; the
  endpoint never goes back to an earlier one, be it in another life, and the last
  one arrives;
* towards each other: the life of the workload cluster which the machine
  controller takes for granted is the one the control plane controller produces.

`PROJECT.json` lists under `hazards` each place where this can go wrong, with
the properties about it, and under `map` the lines each definition stands for.

## 2. The modules

| Module | Models |
|---|---|
| `WorkloadClient` | the workload cluster as the machine controller sees it (server, generation, kubeconfig secret), and the cache of `GetClient`; `WorkloadSpec` is an abstract specification |
| `KwokMachine` | the machine controller, one API call per step; EXTENDS `WorkloadClient` |
| `KwokMachineProofs` | theorems about `KwokMachine` |
| `KwokHeartbeat` | the heartbeats of several machines, with workers, queue and time |
| `KwokHeartbeatProofs` | theorems about `KwokHeartbeat` |
| `KwokMachinePool` | the pool controller over a stale list of children |
| `KwokMachinePoolProofs` | theorems about `KwokMachinePool` |
| `KwokControlPlane` | the control plane controller and the cluster service, with the KwokCluster controller as one step; implements `WorkloadClient!WorkloadSpec` and `EndpointRelay!RelaySpec` |
| `KwokControlPlaneProofs` | theorems about `KwokControlPlane` |
| `KwokCluster` | the KwokCluster controller: several KwokClusters, one worker, two informers; implements `EndpointRelay!RelaySpec` |
| `KwokClusterProofs` | theorems about `KwokCluster` |
| `EndpointRelay` | an abstract specification: what the readers of a KwokCluster are promised of its endpoint |
| `EndpointRelayProofs` | theorems about `EndpointRelay` |
| `KwokConfig` | the bootstrap controller and the life of its secret |
| `KwokConfigProofs` | theorems about `KwokConfig` |
| `MC*` | instances for TLC |

### Conventions

A stored object is a record `km[m]`, `pool[p]`, `cp` with a `phase`; the
informer's copy is `cache`; `Sync` is the watch delivering the current object
and enqueuing it, `Resync` the resync (it may come at any time, which covers
every other event that enqueues). `queue` is the set of keys in the workqueue,
and a key is in at most one reconcile, as controller-runtime guarantees; how many
workers there are (`--*-concurrency`) then only limits what may overlap, and the
models do not limit it.

A reconcile in flight is the record `work`: `pc` names the next external call,
`old` the object as read, `new` as modified in memory, `again` whether the
result asks for a requeue. Everything between two external calls is one step,
since nobody else can see it. Each step names the calls it makes:

* `Skip` / `Begin...`: `Reconcile` up to its first call, with its early returns;
* one action per call, with the branch on its answer;
* `...Fails`: the call fails before or after it took effect; what an error leads
  to (log and go on, return, drop the finalizer) is taken from each call site;
* `PatchSpec`, `PatchStatus`: the two requests of `patchHelper.Patch`; `Merge`
  sends only the fields that differ from `old`, `Stored`/`Store` removes an
  object that is being deleted and lost its last finalizer;
* `Restart`: the manager stops; reconciles and caches of the process are lost,
  informers list anew and enqueue everything.

A `Fault` step counts against `MaxFaults`. Backoff delays, `RequeueAfter` and the
simulated latencies are time only and left out: a requeue puts the key in the
queue at once, where it may stay for any finite time. Two modules differ, since
who waits for whom is what they are about: `KwokHeartbeat` and `KwokCluster` have
a first-in-first-out `queue`, and workers that are few. Their `Add` is that of
client-go: a key is queued once, and one in a reconcile is only marked and queued
again when that is over.

### KwokMachine and WorkloadClient

`gen` counts the workload clusters built under one name; certificates and the
address belong to a generation, so a client, a kubeconfig secret and an endpoint
are the generation they lead to. `GetClient` is three steps: `LookupClient`
(first critical section), `ReadSecret` (the uncached read and the construction of
the client), `Store` (second critical section). The client gets its certificates
from the secret and its host from the endpoint of the Cluster, which may still be
of an earlier workload cluster; a client that has either of an earlier one reaches
nothing, so it is the older of the two. `NoClient` is its failure, on
which `reconcileDelete` drops the finalizer and the others return. A Node is
`"none"`, `"bare"` (created) or `"ready"` (its conditions written); labels,
capacities, versions and times are data no property tells apart. `lost` records
the machines whose Node somebody other than the controller removed: the code says
of these that the Node "was deleted externally" and does not create them again.

### KwokHeartbeat

The clock is `Tick`, which passes one unit of time and waits for whatever is due
at once (`Urgent`): a timer that has run out, a free worker with a key in the
queue, a reconcile that has used up `Latency`. Everything else takes no time, and
a reconcile may take any time up to `Latency`. `age` is the time since the
`renewTime` of each Lease, and counts up to `Old`, where no bound that is stated
can tell it from older; `stamp` is the time since the reconcile took `now`, which
is what the Lease gets, not the time of the write. `timer` is the delayed requeue;
of two of one key the earlier one stays (`Sooner`), and it is not cancelled by a
reconcile in between, as in client-go.

A reconcile is three steps: what comes before `ensureNodeLease` (`Begin` to
`ReadTime`), the Lease (`WriteLease`), and the deferred patch with the requeue
(`Finish`). `RenewalFails` is the error `reconcileNormal` logs, after which it asks
for the same requeue; `ProvisioningFails` is one it returns, retried after a backoff.
client-go's grows with the errors in a row from milliseconds to 1000 seconds; here
it is any delay up to `Backoff`. One beyond `Period` drops the heartbeat as a pause
does, so the bounds on ages speak of machines whose backoff is shorter (with the
code's numbers, fewer than some 13 errors in a row). `Skip` is the paused reconcile, which asks for
no requeue. `beating`, `misses` and `calm` are history: which machines were renewed
and not dropped since, how many renewals failed in a row, and how long the manager
has run undisturbed. Machines without bootstrap data and those being deleted are
left to `KwokMachine`; they end the heartbeat or have none yet, and their reconciles
take worker time as those of `Machines` do.

That a call returns within some time is an assumption: the clients have no timeout
of their own. The properties are relations between the constants, and `heartbeat`
says for which of them; with the code's 30 and 40 seconds and one worker no Lease
expires if (number of machines + 1) x latency is at most 10 seconds.

### KwokMachinePool

A child is the pair of its pool and its index, which is what its name is made
of. `BeginNormal` counts the cached children and picks the loop: `ScaleUp`
creates the indices from the count to the target, in order; `ScaleDown` deletes
what lies behind the target in a list of arbitrary order. The KwokMachine
controller is folded into `Advance`: a new child becomes provisioned, a deleting
one goes. `Collect` is Kubernetes' garbage collection of children whose pool has
gone. `KwokName` and `OwnerName` are constants because the code lists by one in
`reconcileNormal` and by the other in `reconcileDelete`. `seen` is the informer's
copy of the pool, `cache` that of the children; `uid` tells a pool from a later one
of its name, on which a late patch of the earlier one may land. The MachinePool is
only ever seen through its informer, so `desired` is what that shows. `ids` leaves
out the order of `spec.providerIDList`, which is arbitrary at each reconcile: another
order would be one more patch, whose event enqueues the pool, as `Resync` may at any
time.

### KwokControlPlane

`conf` is the working directory of kwokctl's runtime (nothing, saved, installed),
`running` the cluster's processes or containers, `file` the kubeconfig of runtime
kind in that directory: `"local"` as kwok's `Up` writes it, with the address
127.0.0.1 that leads nowhere from inside the manager's pod, or `"rewritten"` by
`reconcileKindKubeconfig`. `plan` is what `Service.Reconcile` still has to do,
since the branches share their calls in different orders. kwok's runtimes are not
part of the repository; `Up` is modelled by what `create.go` relies on and what
kwok's kind and binary runtimes do: no effect on a running cluster, an error
before or after the container exists, and its own kubeconfig only at the end of a
first run. A restart of the manager's container ends processes started in it,
not containers beside it.

`secret` and `orphan` are the kubeconfig secret and whether the control plane its
owner reference names has gone. `SecretCreated` lets a secret be an orphan from
the start when the reconcile's copy may be of an earlier control plane: that
copy cannot have been seen with the finalizer (`~work.old.fin`), because the
earlier one would not have gone before its deletion was reconciled.

The KwokCluster is read as stored, not from its cache; it may be created, given an
owner and deleted at any time. `ReconcileKwokCluster` is its whole reconcile
with a patch that succeeds, `PatchKwokClusterFails` one with one half of the patch
lost.

Runtime and working directory, which the code reads from the KwokCluster at each
reconcile, are those of the installation.

`Workload` instantiates `WorkloadClient` with the server state computed from
`conf` and `running`; `ImplementsWorkload` says every behaviour of the control
plane is one of `WorkloadSpec`, on which `KwokMachine` rests: a cluster is
installed once per life with fresh credentials, the secret is created when there
is none, for the cluster that exists, and never updated.

### KwokCluster

An endpoint is the number of its publication; what `KwokControlPlane` publishes
for a later installation is a later one. `spec` is what the reconcile makes of the
spec: nothing to object to, a latency that holds the worker, a `simulationConfig`
without its optional `reconcile`, which line 85 dereferences, or a runtime that is
not registered. `Panic` comes before the pause is looked at, as line 85 does;
controller-runtime recovers it (on by default, although the options that ask for it
are dropped here) and retries the key with a backoff.

`seen` and `cpSeen` are the copies of two informers, which trail the stored objects
`kc` and `cp` on their own; `news` are KwokClusters with an event of the watch still
to come, which the event filter may swallow. `Get` reads the control plane from its
copy. The two halves of the patch carry what differs from `old`, each may fail
before or after it took effect, and after an error of the first the second is sent
all the same. `coming` are KwokClusters in a backoff or listed at the start, `slept`
those whose last turn a paused Cluster ended: the watch for that is commented out,
so that nothing but the resync brings them back. Nothing enqueues a KwokCluster for
a new endpoint either; the watch of the control plane is commented out as well.

Time is not modelled here: `Wait` holds the worker for any finite time.

### EndpointRelay

Three variables per KwokCluster: `last`, the number of the endpoint published last;
`shown`, what a reader sees of the KwokCluster; and `due`, the oldest endpoint that
may still arrive. `Publish` counts `last` up, `Show` lets what is due arrive (or
takes it away again, as a patch lost in part or a KwokCluster from the user does),
`Appear` and `Vanish` are its creation and deletion, and `Forward` lets `due` skip
endpoints, never turn back. There is no informer, reconcile, patch or restart in it.

Both descriptions of the KwokCluster controller implement it, so that the one step of
`KwokControlPlane` promises no more than the many of `KwokCluster`. `Due` in each is
the refinement mapping: the endpoint at the station that is farthest on its way,
which in `KwokCluster` is the reconcile, the informer's copy, the stored control
plane, and in `KwokControlPlane` the informer's copy, the stored control plane, the
cluster installed; with none on its way it is the next one. `last` is the number of
installations there.

### KwokConfig

One name, borne by KwokConfigs in turn that only their `uid` tells apart. The
secret's name is made of theirs, so `Create` of a later one meets the secret of an
earlier one; the owner reference in it holds a uid, by which `Collect` removes it
when that KwokConfig has gone. `ready` is `status.ready`, `dataSecretName` and
`initialization` together. The owner reference on the KwokConfig is part of it and
read from the cache, the pause is the cluster's and read as it is. A failed read
leaves the key queued and changes nothing, and is no step.

## 3. The runs

Every configuration says `CHECK_DEADLOCK FALSE`: with the bounded counters used up
and nothing queued the system rests, as it does when nothing is asked of it. That
it does not rest too early is what the liveness properties are for.

| Run | Question | Result |
|---|---|---|
| `machine` | one machine, two lives of its cluster, one fault | holds |
| `machine_orphan` | is nothing of a deleted machine left behind? | violated |
| `machine_stuck` | does a deletion end when the cluster has gone? | violated |
| `heartbeat` | two machines with one worker, one fault: how old do Leases get? | holds |
| `pool` | one pool of one or two children, two edits, one fault | holds |
| `pool_gap` | are missing children created? | violated |
| `pool_excess` | does scaling down delete only the excess? | violated |
| `pool_release` | does a pool outlive its children? | violated |
| `controlplane` | both kinds of runtime, two installations, one fault | holds |
| `controlplane_file` | is a missing kubeconfig written again? | violated |
| `cluster` | two KwokClusters with one worker, one fault, two endpoints | holds |
| `config` | three KwokConfigs of one name in turn, two faults | holds |

### What the passing runs show

`machine`:
* `ProvisionedHasNode`: a ProviderID or Ready of a machine in use stands for a
  Node with conditions and a Lease in the running cluster, or the Node was taken
  by somebody else;
* `ReleaseAfterNode`: a deletion that knew the node name and had a client lets
  the object go only with the Node gone;
* `ProvisionedIsHeld`: a live KwokMachine with a ProviderID has the finalizer, so
  that its deletion goes through `reconcileDelete`; a stale copy that shows the
  finalizer of an earlier object of that name does not keep it out of the patch.
  Of Ready alone this is not true: when the half of the first patch with the
  finalizer and the ProviderID fails, the other is sent all the same;
* `NeverUnprovisioned`: no patch computed from a stale copy takes back ProviderID,
  Ready or addresses;
* `EventuallyProvisioned`, `EventuallyReleased`, `HeartbeatGoesOn`: under the
  conditions each names, provisioning ends, deletion ends, and the Lease is
  renewed for ever. The conditions on the cached client are the point: without
  them `machine_stuck` shows a deletion that never ends.

`heartbeat`:
* `LeaseAgeBounded`: a cycle is the requeue and one reconcile of every machine; a
  Lease is never older than one cycle, one more for each renewal missed in a row,
  and a reconcile. One queue that is not first in, first out would break it;
* `LeaseKeptAlive`: hence none expires while renewals succeed, if the constants
  leave the room for it. In the run they do by exactly nothing to spare
  (2 + 2 + 1 = 5), and a requeue one unit late breaks it;
* `HeartbeatRecovers`: after a pause (whose end nobody hears of), a restart or a
  failed renewal, every provisioned machine is renewed within a resync and a turn
  of the queue. Without the resync a heartbeat that a pause ended stays ended.

  One missed renewal is enough for a Lease to expire: the second is a whole cycle
  away. And a pause lets it expire for up to the ten minutes of the resync, while
  the KwokMachine stays Ready.

`pool`: `NeverOvershoots` (at most as many children as were ever asked for: the
fixed names make stale counts and retries harmless in this direction),
`ScaleDownBounded` (a scale-down may pick children that are wanted, which is
`pool_excess`, but never more than the pool was ever asked for beyond its target),
`EventuallyReady` (with no gap in the indices; `pool_gap` is what happens otherwise),
`EventuallyShrinks`, `EventuallyDeleted` (nor do children of a pool that went stay).

`controlplane`: `NoOrphanCluster`, `AccessIsCurrent`, `PublishedIsInstalled` (a live
control plane with Ready, an endpoint or a secret of its own has an installed
cluster: no late patch or copy of an earlier object makes a new one look ready),
`PublishedIsKept` (Ready and the endpoint are not taken back or replaced while it
lives), `ImplementsWorkload`, `ImplementsRelay`,
`EventuallyReady` (on kind, given the kubeconfig file, see `controlplane_file`),
`EventuallyPublished`, `EventuallyDeleted` (given the KwokCluster stays),
`EndpointCopied`, `StoppedIsRestarted` (Ready is never taken back, but `Up` is tried
again and again until the cluster answers).

`cluster`:
* `NoneForgotten`: a KwokCluster that is not Ready is queued, in a reconcile, in a
  backoff or about to be heard of, or a paused Cluster ended its last turn. This is
  what an early return, an error, the workqueue and the filter could break, and it
  does not rest on the resync;
* `EndpointNeverGoesBack`: two informers that lag independently, a patch against a
  stale copy, its failed halves and restarts never replace an endpoint by an
  earlier one;
* `ImplementsRelay`: nor do they when the KwokCluster showed none in between, or was
  deleted and created again, which no property of one step can say;
* `EndpointArrives`: the endpoint a control plane keeps reaches its KwokCluster beside
  another one that panics or fails at every turn. It needs the panic to be recovered,
  since a manager that exits at each starts over for ever.

`config`: `ReadyHasSecret` (for a KwokConfig created when no secret, no reconcile in
flight and no cached copy of an earlier one is left), `EventuallyReady`,
`EventuallyCollected`. The premise of the first is needed: otherwise AlreadyExists
makes a secret that is about to be collected pass for its own, or a late patch makes
it ready, and the code never looks at the secret again.

### What the violated runs show

Each is a disagreement between the code and a sentence of the repository, quoted
in `PROJECT.json` under `findings`. In short:

1. The machine's finalizer is stored only after the Node was created; a deletion
   in between leaves the Node (`machine_orphan`).
2. The client of a cluster that has gone stays cached; nobody calls
   `RemoveClient`, and the deletion of a machine retries for ever
   (`machine_stuck`).
3. Scaling up starts at the number of children, so a gap below is never filled
   (`pool_gap`).
4. Children that terminate already count as replicas and machines in use are
   deleted in their place (`pool_excess`).
5. Deletion lists by another label value than creation sets, when the pool is not
   named after its MachinePool (`pool_release`).
6. With the secret there and the file not, kind's readiness check fails for ever
   (`controlplane_file`).

Six more losses are in the states of the models, and no property is about them.

* The endpoint is in memory only between the creation of the secret and the deferred
  patch. A restart in between loses it for good, and the control plane is Ready and
  initialized without one.
* `Reconcile` of the control plane needs the KwokCluster even to delete, and a
  KwokCluster has no finalizer: gone first, it blocks the deletion for ever.
* A KwokConfig created again under its name becomes Ready by a late patch of the
  earlier one, or on account of its secret, which is then collected, and nobody looks
  again.
* When the status half of a machine's first patch fails, no later reconcile sets its
  addresses.
* When `Save` succeeds and `Install` fails, `Up` is tried for ever on a cluster that
  was never installed.
* On kind, with kwok's own kubeconfig on disk and no secret, the readiness check is
  false rather than an error, and the secret is never created.

The properties next to them name the states they need, and so except these.

### Bounds

* `MaxGen` (installations of the cluster): 2, so that clients, secrets and files
  of a first cluster meet a second; a third adds nothing a second does not, as
  only "current or not" is ever compared.
* `MaxFaults` (failed calls, lost replies, restarts, removals by others): 1 in the
  passing runs. After one fault the retry meets every intermediate state; the
  theorems below hold for any number.
* `Machines`: one in `machine`, where they share nothing but the cluster and the
  client cache; the theorems are for any set. Two in `heartbeat`, the least with one
  waiting for another; with one worker, as is the default.
* `heartbeat`: the times are the smallest with `Period` > `Latency` and a resync
  longer than a period, `Duration` the least that `LeaseKeptAlive` allows, and
  `Backoff` one more than `Period`. The theorems are for all times and any number of
  workers.
* `cluster`: two KwokClusters, one with a latency, two endpoints and two changes by
  users, and one that panics or fails and stays what it is: its part is to be in the
  way of the other. That one waits behind the latency of another is not in this run,
  as a second KwokCluster that becomes ready is too much for it; with `Others` =
  {"slow"} and `Endpoints` = 1 in `cluster.cfg` the same properties hold. What they
  need there is a fair queue: a key that comes back from a reconcile goes behind the
  others.
* `MaxReplicas`: 2, the least with a gap and with an excess; `Targets`: 1, as when
  the MachinePool names none, and 2; the violated runs have 0 too. `MaxEdits`: 2, so
  that a creation is followed by a scale up or down, a pause or a deletion. A pool
  created again under its name takes a third edit, which goes with one child only:
  with `MaxReplicas` = 1, `Targets` = {0, 1} and `MaxEdits` = 3 in `pool.cfg` the same
  properties hold. The theorems are for any.
* The violated runs have the least bounds that show the violation.
* `MaxUid`: 3 KwokConfigs of one name, so that what is left of the first may meet the
  second or the third; two faults.

### Fairness

Weak fairness on: taking a queued key (the workqueue is first in, first out, so
none is passed over for ever), the next step of a reconcile (calls return,
with an error or without), the delivery of watch events, the resync of each
object (ten minutes, `src/main.go`), Kubernetes' garbage collection, and, for the
pool, the KwokMachine controller, whose own conditions `KwokMachine` states. In
`KwokCluster` also on the worker as a whole, simulated latencies being finite, and on
the end of each backoff. `KwokHeartbeat` needs no fairness: its properties are safety
properties over time.
Nothing is asked of users, of Cluster API, of the workload cluster or of faults:
what a liveness property needs of them is in its premise, as `<>[](...)`. Weak
fairness of the resync suffices since it stays enabled until the key is queued.

## 4. The proofs

TLAPS checks these for every value of the constants (any set of machines, any
bounds), under `MaxGenAssumption`, `FaultsAssumption`, `BoundsAssumption`,
`LimitsAssumption` and `SpecsAssumption`, which only say that the bounds are natural
numbers or functions to them, and for `KwokHeartbeat` `MachinesAssumption` (a finite
set, not empty), `ConcurrencyAssumption` (a worker) and `TimesAssumption` (a
reconcile takes some time, and no more than a resync period).

In each module the state predicate the theorem is about is not inductive as it
stands; the module of the component states the strengthening as a definition
(`Coherent`, `Bounded`, `CleanLife`, `HeldByFinalizer`, `EndpointsKnown`, and
`RelayInv` beside the theorems of `EndpointRelay`). TLC checked each as an invariant
before it was proved, and the proof that a step keeps it has one case per action and
one part per conjunct.

`KwokMachineProofs`: `TypeCorrect`; `InductiveInvariant` (`Spec => [](TypeOK /\
Coherent)`); `ProvisionedMachinesHaveNodes`; `ReleaseOnlyAfterNode`;
`PublishedIsNeverTakenBack`; `ProvisionedMachinesAreHeld`. `ProvisionedHasNode` alone
says nothing of a reconcile about to patch "ready". `Coherent` says, per machine,
what the stored object, the cached copy and the memory of the reconcile know of each
other: anything published in one of them is registered (or lost); `old` never knows
more than `new`; a copy seen as deleting means that nothing is published before the
deletion is over; the finalizer leaves `new` only in `reconcileDelete`, with the Node
gone or no client at hand. The two action properties follow from it for each patch:
since `old` knows no more than `new`, a merge patch never carries an emptied field.
`ProvisionedMachinesAreHeld` has an invariant of its own, `HeldByFinalizer`: the
patch that carries the ProviderID adds the finalizer only if `old` had none, so it
must be known that a live copy that shows one, in the cache or in a reconcile, is of
an object that still has it. That holds because a copy seen as deleting has no
successor with a finalizer until the informer has moved on, and because there is no
live object with one, stored or in the cache, as long as a reconcile works on the
deletion.

`KwokHeartbeatProofs`: `TypeCorrect`; `InductiveInvariant` (`Spec => [](TypeOK /\
Coherent)`); `LeaseAgeIsBounded`; `LeasesAreKeptAlive`; `HeartbeatsRecover`. An age
says nothing of the next step; `Coherent` says for each place a machine can be how
far it is from its renewal: its timer and its age add up to at most a period and a
reconcile (but for one whose reconcile is about to ask for its own requeue, which an
older and longer backoff gives way to), in the queue (`Reached`) its age, the rest of any reconcile in flight and
a turn of each machine ahead of it stay within the cycle, in a reconcile the age
exceeds that only by what the reconcile has taken. No machine is in two places
(`QueueCoherent`), so that the queue and the machines outside it are no more than all
machines (`Room`, by a bijection and cardinalities), which bounds the turns ahead of
one that joins (`LastPlace`). The same argument with `calm` for the age and the
resync for the timer is `CalmCoherent`, from which `HeartbeatsRecover` follows. More
workers only bring the head of the queue forward, so the bound holds for any number.

`KwokMachinePoolProofs`: `TypeCorrect`; `InductiveInvariant` (`Spec => [](TypeOK /\
Bounded)`); `PoolNeverOvershoots`; `ScaleDownIsBounded`; `ReconcileStaysInReach`.
`Bounded` says that the indices of the children that exist, of those the informer
shows, and of those in the loops of a reconcile, lie below the most the pool was
asked for. A reconcile picks indices between what it counts and what it is asked for,
and the loop only consumes them, so that no amount of staleness or retrying reaches a
higher one. Children of a pool are then distinct numbers below `asked[p]`
(`ChildrenBelow`, by an injection into `0 .. asked[p] - 1`), which bounds how many
there are. The type of `status.replicas` rests on the same lemma, and so does
`ScaleDownIsBounded`: the list that is cut is of cached children, so it is no longer
than `asked[p]`, and what lies behind the target is that much less. `StaysInReach` is
an action property that no run checks, since it takes two pools to break it: a
reconcile changes only children of its own pool or, by the label `reconcileDelete`
lists with, of one whose MachinePool bears its name. It needs from the invariant
whose children the loops hold.

`KwokControlPlaneProofs`: `TypeCorrect`; `InductiveInvariant` (`Spec => [](TypeOK /\
Coherent)`); `NoClusterIsOrphaned`; `AccessStaysCurrent`; `PublishedMeansInstalled`;
`PublishedStays`; `EndpointsAreKnown`; `ControlPlaneImplementsWorkload`;
`ControlPlaneImplementsRelay`. Here `Coherent` has four parts. `StoredCoherent`:
whatever is saved, installed or running is guarded by the stored finalizer, and the
endpoint and an owned secret are of the present cluster. `CacheCoherent`: a finalizer
the informer shows on a live object is still stored. `WorkCoherent`: a reconcile lets
go of the finalizer in memory only with nothing installed, and takes up Ready and the
endpoint only with the cluster installed. `GenCoherent`: before an installation
nothing of an earlier cluster is owned or published, unless the deletion that removed
it is still under way. `PublishedIsInstalled` is what is left of this for a live
object, and `PublishedIsKept` follows for each patch, as a patch carries neither a
field that was emptied nor an endpoint other than `gen`. `EndpointsKnown` (no copy
shows an endpoint before its installation) is what the mapping to `EndpointRelay`
needs besides. For the first refinement four lemmas say what a step can be to the
workload cluster (nothing, a start or stop, a publication of the kubeconfig, a
removal), and each step of the control plane is one of these or installs the next
generation.

`KwokClusterProofs`: `TypeCorrect`; `InductiveInvariant` (`Spec => []Coherent`);
`NobodyForgotten`; `EndpointsNeverGoBack`; `ClustersImplementRelay`;
`NoOlderEndpoint`. `NoneForgotten` is part of the invariant and needs `CopyCoherent`:
without news the copy shows what is stored, and a reconcile that is not marked to be
followed by another started from that copy, so that a patch computed from it makes
the KwokCluster Ready. `EndpointCoherent` follows an endpoint through four stations,
the stored control plane, the informer's copy, the reconcile and the KwokCluster: one
that is set is as new as those further on. A step moves an endpoint from one station
to the next, and the patch is the last of these moves. That `Due` never turns back
(`StationMoves`, `DueMoves`) is the same fact read as a step of `EndpointRelay`.

`EndpointRelayProofs`: `ShownIsPublished`; `NoOlderOneComes` (once an endpoint was
shown, every one shown later is as new, in whichever life). Its invariant `RelayInv`
puts `shown`, `due` and `last` in order. The theorem is of the form `[](A => []B)`,
and PTL cannot carry it through `INSTANCE ... WITH` to another module;
`NoOlderEndpoint` therefore states and proves it of `KwokCluster` itself, from the
lemmas `ClustersImplementRelay` rests on.

`KwokConfigProofs`: `TypeCorrect`; `ReadyConfigHasSecret`. `CleanLife` adds to the
property that after a clean start the cache and the reconcile in flight are of this
KwokConfig or of none, and that the secret is there from `Create` on.

Proved but not in a run: `ReconcileStaysInReach`, which takes two pools, and
`EndpointsAreKnown`, `NoOlderEndpoint` and the theorems of `EndpointRelay`, which the
runs cover with `ImplementsRelay`.

Only model-checked: all liveness properties, which need fairness and ENABLED, on the
bounds of section 3.

## 5. Not modelled

* Time outside `KwokHeartbeat`: lengths of backoffs and of simulated latencies.
* `RemoveClient`, `rewriteOnDiskKubeconfig` and `kwokControlPlaneToKwokCluster`: no
  caller outside tests, the watch of the last being commented out.
* Leader election: `Restart` has one manager at a time. `--watch-filter`: its value
  is never handed to a reconciler.
* The change of the manager's pod IP, which the endpoint of a kwokctl runtime
  names.
* A KwokCluster edited, or created again, with another runtime or working directory
  while the cluster exists: `Load` would then look elsewhere and the deletion leave
  the cluster. Errors of `Load` other than that nothing is there fail the reconcile
  and count as the call after it that fails.
* Contents of kubeconfigs, Nodes, Leases and versions, flags, logging, metrics,
  generated deep copies, CRDs and manifests.

## 6. Plan

Done: the machine controller with its client cache, its heartbeats with time, the
pool controller, the control plane with the cluster service, the KwokCluster
controller, the refinement between control plane and workload cluster, the one from
both descriptions of the KwokCluster controller to `EndpointRelay`, the bootstrap
controller; proofs of the safety properties of all of them.

Left, in this order:

1. Two machines with one client cache: the late `Store` of a client for an earlier
   cluster, as a liveness question (the safety theorems hold for any set).
2. What the pool controller takes for granted of the machine controller (`Advance`:
   a child becomes provisioned, a deleting one goes) as an abstract specification
   that `KwokMachine` implements.
3. A manager that moves to another pod, whose address the endpoint of a kwokctl
   runtime names.
