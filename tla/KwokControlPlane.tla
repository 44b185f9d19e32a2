-------------------------- MODULE KwokControlPlane --------------------------
(***************************************************************************)
(* The control plane of one CAPI Cluster: the KwokControlPlane controller   *)
(* with its cluster service (create.go, delete.go), which installs, starts  *)
(* and removes a workload cluster through kwokctl's runtimes, publishes its *)
(* kubeconfig as a secret and its address as the ControlPlaneEndpoint, and  *)
(* the KwokCluster controller, which copies that endpoint.                  *)
(*                                                                          *)
(* The calls of a reconcile are steps of their own.  What they leave behind *)
(* outlives a restart of the manager: files in the working directory (a     *)
(* hostPath volume), containers (runtime kind) and the API objects.         *)
(***************************************************************************)
EXTENDS Naturals, Sequences

CONSTANTS
    MaxGen,      \* bound on how often the cluster is installed
    MaxFaults    \* bound on failed calls, lost replies and manager restarts

ASSUME BoundsAssumption == MaxGen \in Nat /\ MaxFaults \in Nat

VARIABLES
    runtime,   \* spec.runtime of the KwokCluster: kind, or one run by kwokctl
    gen,       \* generation of the cluster installed last, 0 before the first
    conf,      \* the runtime's working directory
    running,   \* do the cluster's processes or containers run?
    file,      \* kubeconfig of runtime kind in the working directory
    secret,    \* generation the kubeconfig secret gives access to, 0 if absent
    orphan,    \* has the control plane that owns the secret gone?
    cp,        \* the stored KwokControlPlane
    cache,     \* the informer's copy of it
    queue,     \* is it in the controller's workqueue?
    work,      \* the reconcile in flight
    kc,        \* the stored KwokCluster
    paused,    \* Cluster.spec.paused
    faults     \* failures so far

clusterVars == <<gen, conf, running, file>>
secretVars == <<secret, orphan>>
objectVars == <<cp, kc, paused>>
vars == <<runtime, clusterVars, secretVars, objectVars, cache, queue, work, faults>>

Gens == 0 .. MaxGen

\* ep is spec.controlPlaneEndpoint, told apart by the generation it belongs to
\* (0: not set); ready stands for status.ready and status.initialized.
Objects == [phase : {"absent", "live", "deleting"}, owned : BOOLEAN, fin : BOOLEAN,
            ep : Gens, ready : BOOLEAN]

Gone == [phase |-> "absent", owned |-> FALSE, fin |-> FALSE, ep |-> 0, ready |-> FALSE]

\* A KwokCluster has no finalizer: it is there or not.
KwokClusters == [exists : BOOLEAN, owned : BOOLEAN, ep : Gens, ready : BOOLEAN]

NoKwokCluster == [exists |-> FALSE, owned |-> FALSE, ep |-> 0, ready |-> FALSE]

\* What is left to do after the current call, in this order.
Plans == Seq({"up", "readSecret"})

PCs == {"idle", "finalizer", "config", "install", "up", "readSecret", "createSecret",
        "writeFile", "down", "uninstall", "patchSpec", "patchStatus"}

Works == [pc : PCs, old : Objects, new : Objects, plan : Plans, again : BOOLEAN]

Idle == [pc |-> "idle", old |-> Gone, new |-> Gone, plan |-> <<>>, again |-> FALSE]

TypeOK ==
    /\ runtime \in {"kind", "binary"}
    /\ gen \in Gens
    /\ conf \in {"none", "saved", "installed"}
    /\ running \in BOOLEAN
    /\ file \in {"none", "local", "rewritten"}
    /\ secret \in Gens
    /\ orphan \in BOOLEAN
    /\ cp \in Objects
    /\ cache \in Objects
    /\ queue \in BOOLEAN
    /\ work \in Works
    /\ kc \in KwokClusters
    /\ paused \in BOOLEAN
    /\ faults \in 0 .. MaxFaults

Init ==
    /\ runtime \in {"kind", "binary"}
    /\ gen = 0
    /\ conf = "none"
    /\ running = FALSE
    /\ file = "none"
    /\ secret = 0
    /\ orphan = FALSE
    /\ cp = Gone
    /\ cache = Gone
    /\ queue = FALSE
    /\ work = Idle
    /\ kc = NoKwokCluster
    /\ paused = FALSE
    /\ faults = 0

-----------------------------------------------------------------------------
(***************************************************************************)
(* Control inside a reconcile                                               *)
(***************************************************************************)

Kind == runtime = "kind"

Goto(pc) == work' = [work EXCEPT !.pc = pc]

\* On to the next part of the plan, and to the deferred Close after the last.
Continue(w) ==
    work' = IF w.plan = <<>>
              THEN [w EXCEPT !.pc = "patchSpec"]
              ELSE [w EXCEPT !.pc = Head(w.plan), !.plan = Tail(w.plan)]

\* An error is returned: the deferred Close runs, then the queue backs off.
Retry == work' = [work EXCEPT !.pc = "patchSpec", !.plan = <<>>, !.again = TRUE]

Fault ==
    /\ faults < MaxFaults
    /\ faults' = faults + 1

-----------------------------------------------------------------------------
(***************************************************************************)
(* KwokControlPlaneReconciler.Reconcile                                     *)
(***************************************************************************)

\* One worker takes the object off the queue; it is never reconciled twice at once.
Take ==
    /\ queue
    /\ work = Idle

\* Early returns, before Close is deferred.  Without an owner Cluster and
\* without the KwokCluster, which deletion needs as well, it is tried again.
Skip ==
    /\ Take
    /\ cache.phase = "absent" \/ ~cache.owned \/ ~kc.exists \/ paused
    /\ queue' = (cache.phase # "absent" /\ (~cache.owned \/ ~kc.exists))
    /\ UNCHANGED <<runtime, clusterVars, secretVars, objectVars, cache, work, faults>>

\* Mutant: the finalizer is left to the deferred Close.
BeginUnguarded ==
    /\ Take
    /\ cache.phase # "absent" /\ cache.owned /\ kc.exists /\ ~paused
    /\ queue' = FALSE
    /\ LET begun == [Idle EXCEPT !.old = cache, !.new = cache] IN
       work' = CASE cache.phase = "live" -> [begun EXCEPT !.pc = "config", !.new.fin = TRUE]
                 [] conf = "none"        -> [begun EXCEPT !.pc = "patchSpec", !.new.fin = FALSE]
                 [] OTHER                -> [begun EXCEPT !.pc = "down"]
    /\ UNCHANGED <<runtime, clusterVars, secretVars, objectVars, cache, faults>>

\* reconcileNormal adds a missing finalizer and patches at once; reconcileDelete
\* loads the runtime, and without one has nothing to do but drop the finalizer.
\* Runtime and working directory come from the KwokCluster and are those of the
\* installation; a Load that fails otherwise counts as a Down that fails.
Begin ==
    /\ Take
    /\ cache.phase # "absent" /\ cache.owned /\ kc.exists /\ ~paused
    /\ queue' = FALSE
    /\ LET begun == [Idle EXCEPT !.old = cache, !.new = cache] IN
       work' = CASE cache.phase = "live" ->
                      [begun EXCEPT !.pc = IF cache.fin THEN "config" ELSE "finalizer",
                                    !.new.fin = TRUE]
                 [] cache.phase = "deleting" /\ conf = "none" ->
                      [begun EXCEPT !.pc = "patchSpec", !.new.fin = FALSE]
                 [] cache.phase = "deleting" /\ conf # "none" ->
                      [begun EXCEPT !.pc = "down"]
    /\ UNCHANGED <<runtime, clusterVars, secretVars, objectVars, cache, faults>>

\* cpScope.PatchObject, which fails when the object has gone.
PatchFinalizer ==
    /\ work.pc = "finalizer"
    /\ IF cp.phase = "absent"
         THEN Retry /\ UNCHANGED cp
         ELSE cp' = [cp EXCEPT !.fin = TRUE] /\ Goto("config")
    /\ UNCHANGED <<runtime, clusterVars, secretVars, kc, paused, cache, queue, faults>>

\* It fails, before or after it took effect.
PatchFinalizerFails ==
    /\ work.pc = "finalizer"
    /\ Fault
    /\ Retry
    /\ \/ UNCHANGED cp
       \/ cp.phase # "absent" /\ cp' = [cp EXCEPT !.fin = TRUE]
    /\ UNCHANGED <<runtime, clusterVars, secretVars, kc, paused, cache, queue>>

-----------------------------------------------------------------------------
(***************************************************************************)
(* Service.Reconcile: a cluster that exists already                         *)
(***************************************************************************)

\* checkKindReady loads the kubeconfig in the working directory, which leads
\* to the cluster from inside the manager's pod only once it is rewritten.
ReadyFails == Kind /\ file = "none"
Answers == running /\ (Kind => file = "rewritten")

\* Mutant: what is published already is not looked after again.
CheckReadyOnly ==
    /\ work.pc = "config"
    /\ conf # "none"
    /\ Continue(IF Answers
                  THEN [work EXCEPT !.new.ready = TRUE]
                  ELSE [work EXCEPT !.again = TRUE, !.plan = <<"up">>])
    /\ UNCHANGED <<runtime, clusterVars, secretVars, objectVars, cache, queue, faults>>

\* Mutant: only a control plane with an endpoint is Ready.
CheckReadyEndpoint ==
    /\ work.pc = "config"
    /\ conf # "none"
    /\ Continue(IF Answers
                  THEN [work EXCEPT !.new.ready = work.new.ep # 0, !.plan = <<"readSecret">>]
                  ELSE [work EXCEPT !.again = TRUE,
                                    !.plan = IF ReadyFails THEN <<"up", "readSecret">>
                                             ELSE <<"up">>])
    /\ UNCHANGED <<runtime, clusterVars, secretVars, objectVars, cache, queue, faults>>

\* Mutant: Ready, once published, is believed.
CheckReadyOnce ==
    /\ work.pc = "config"
    /\ conf # "none"
    /\ Continue(IF Answers \/ work.old.ready
                  THEN [work EXCEPT !.new.ready = TRUE, !.plan = <<"readSecret">>]
                  ELSE [work EXCEPT !.again = TRUE,
                                    !.plan = IF ReadyFails THEN <<"up", "readSecret">>
                                             ELSE <<"up">>])
    /\ UNCHANGED <<runtime, clusterVars, secretVars, objectVars, cache, queue, faults>>

\* Mutant: Ready follows the check.
CheckReadyNow ==
    /\ work.pc = "config"
    /\ conf # "none"
    /\ Continue(IF Answers
                  THEN [work EXCEPT !.new.ready = TRUE, !.plan = <<"readSecret">>]
                  ELSE [work EXCEPT !.again = TRUE, !.new.ready = FALSE,
                                    !.plan = IF ReadyFails THEN <<"up", "readSecret">>
                                             ELSE <<"up">>])
    /\ UNCHANGED <<runtime, clusterVars, secretVars, objectVars, cache, queue, faults>>

\* Ready: publish.  Not ready: start it again and come back in 5 seconds; for
\* kind, when the check itself failed, also look after the kubeconfig.
CheckReady ==
    /\ work.pc = "config"
    /\ conf # "none"
    /\ Continue(IF Answers
                  THEN [work EXCEPT !.new.ready = TRUE, !.plan = <<"readSecret">>]
                  ELSE [work EXCEPT !.again = TRUE,
                                    !.plan = IF ReadyFails THEN <<"up", "readSecret">>
                                             ELSE <<"up">>])
    /\ UNCHANGED <<runtime, clusterVars, secretVars, objectVars, cache, queue, faults>>

-----------------------------------------------------------------------------
(***************************************************************************)
(* Service.Reconcile: first-time creation                                   *)
(***************************************************************************)

\* Mutant: Install is run again for whatever is on disk.
SaveConfigAnew ==
    /\ work.pc = "config"
    /\ conf' = "saved"
    /\ Goto("install")
    /\ UNCHANGED <<runtime, gen, running, file, secretVars, objectVars, cache, queue, faults>>

\* SetConfig and Save.
SaveConfig ==
    /\ work.pc = "config"
    /\ conf = "none"
    /\ conf' = "saved"
    /\ Goto("install")
    /\ UNCHANGED <<runtime, gen, running, file, secretVars, objectVars, cache, queue, faults>>

\* Install, after which the kubeconfig of all runtimes but kind can be read.
Install ==
    /\ work.pc = "install"
    /\ gen < MaxGen
    /\ conf' = "installed"
    /\ gen' = gen + 1
    /\ Continue([work EXCEPT !.again = TRUE,
                             !.plan = IF Kind THEN <<"up", "readSecret">>
                                      ELSE <<"readSecret", "up", "readSecret">>])
    /\ UNCHANGED <<runtime, running, file, secretVars, objectVars, cache, queue, faults>>

\* SetConfig, Save or Install fails: once the configuration is saved, the next
\* reconcile takes the cluster for an existing one.
CreateFails ==
    /\ \/ work.pc = "config" /\ conf = "none"
       \/ work.pc = "install"
    /\ Fault
    /\ conf' \in IF work.pc = "install" THEN {conf} ELSE {"none", "saved"}
    /\ Retry
    /\ UNCHANGED <<runtime, gen, running, file, secretVars, objectVars, cache, queue>>

\* rt.Up (external) starts an installed cluster, or fails.  With runtime kind it
\* may fail after the container was created; only at the end of a first run it
\* writes its own kubeconfig.  Its error is logged for kind and for a cluster
\* that exists, where nothing is left to do, and returned for a new one.
Up ==
    /\ work.pc = "up"
    /\ \E started \in BOOLEAN, wrote \in BOOLEAN :
          /\ started => conf = "installed"
          /\ wrote => Kind /\ started /\ ~running
          /\ running' = (running \/ started)
          /\ file' = IF wrote /\ file = "none" THEN "local" ELSE file
          /\ IF started \/ Kind THEN Continue(work) ELSE Retry
    /\ UNCHANGED <<runtime, gen, conf, secretVars, objectVars, cache, queue, faults>>

-----------------------------------------------------------------------------
(***************************************************************************)
(* reconcileKubeconfig and reconcileKindKubeconfig                          *)
(***************************************************************************)

\* kind answers for its running container; kwokctl's file comes with Install.
KubeconfigReadable == conf = "installed" /\ (Kind => running)

\* Mutant: an existing secret is as good a source for the endpoint.
ReadSecretEndpoint ==
    /\ work.pc = "readSecret"
    /\ IF secret # 0
         THEN Continue([work EXCEPT !.new.ep = secret])
         ELSE IF KubeconfigReadable
                THEN work' = [work EXCEPT !.pc = "createSecret", !.new.ep = gen]
                ELSE Retry
    /\ UNCHANGED <<runtime, clusterVars, secretVars, objectVars, cache, queue, faults>>

\* A secret that exists settles it.  Otherwise the kubeconfig is read and the
\* endpoint set, in memory, before the secret is created.
ReadSecret ==
    /\ work.pc = "readSecret"
    /\ IF secret # 0
         THEN Continue(work)
         ELSE IF KubeconfigReadable
                THEN work' = [work EXCEPT !.pc = "createSecret", !.new.ep = gen]
                ELSE Retry
    /\ UNCHANGED <<runtime, clusterVars, secretVars, objectVars, cache, queue, faults>>

\* Mutant: the secret is for the cluster that comes next.
SecretCreatedAhead ==
    /\ secret' = gen + 1
    /\ orphan' = FALSE

\* The owner reference names the object as it was read: before it was seen with
\* the finalizer, this can be an earlier one of the same name that has gone.
SecretCreated ==
    /\ secret' = gen
    /\ orphan' \in {FALSE, ~work.old.fin}

CreateSecret ==
    /\ work.pc = "createSecret"
    /\ SecretCreated
    /\ IF Kind THEN Goto("writeFile") ELSE Continue(work)
    /\ UNCHANGED <<runtime, clusterVars, objectVars, cache, queue, faults>>

\* For checkKindReady, the kubeconfig with the container's address.
WriteFile ==
    /\ work.pc = "writeFile"
    /\ file' = "rewritten"
    /\ Continue(work)
    /\ UNCHANGED <<runtime, gen, conf, running, secretVars, objectVars, cache, queue, faults>>

\* Reading the secret, creating it (before or after it took effect) or writing
\* the file fails.
KubeconfigFails ==
    /\ work.pc \in {"readSecret", "createSecret", "writeFile"}
    /\ Fault
    /\ \/ UNCHANGED secretVars
       \/ work.pc = "createSecret" /\ SecretCreated
    /\ Retry
    /\ UNCHANGED <<runtime, clusterVars, objectVars, cache, queue>>

-----------------------------------------------------------------------------
(***************************************************************************)
(* Service.Delete                                                           *)
(***************************************************************************)

\* Mutant: a cluster that Down finds stopped is not uninstalled.
DownOnce ==
    /\ work.pc = "down"
    /\ running' = FALSE
    /\ IF running THEN Goto("uninstall") ELSE Retry
    /\ UNCHANGED <<runtime, gen, conf, file, secretVars, objectVars, cache, queue, faults>>

Down ==
    /\ work.pc = "down"
    /\ running' = FALSE
    /\ Goto("uninstall")
    /\ UNCHANGED <<runtime, gen, conf, file, secretVars, objectVars, cache, queue, faults>>

\* The working directory goes, and reconcileDelete removes the finalizer.
Uninstall ==
    /\ work.pc = "uninstall"
    /\ conf' = "none"
    /\ file' = "none"
    /\ work' = [work EXCEPT !.pc = "patchSpec", !.new.fin = FALSE]
    /\ UNCHANGED <<runtime, gen, running, secretVars, objectVars, cache, queue, faults>>

\* Down or Uninstall fails, before or after it took effect.
DeleteFails ==
    /\ work.pc \in {"down", "uninstall"}
    /\ Fault
    /\ \/ UNCHANGED clusterVars
       \/ /\ work.pc = "down"
          /\ running' = FALSE
          /\ UNCHANGED <<gen, conf, file>>
       \/ /\ work.pc = "uninstall"
          /\ conf' = "none"
          /\ file' = "none"
          /\ UNCHANGED <<gen, running>>
    /\ Retry
    /\ UNCHANGED <<runtime, secretVars, objectVars, cache, queue>>

-----------------------------------------------------------------------------
(***************************************************************************)
(* The deferred Close: spec and metadata first, then status                 *)
(***************************************************************************)

Merge(stored, old, new) == IF new # old THEN new ELSE stored

SpecChanged == work.new.fin # work.old.fin \/ work.new.ep # work.old.ep
StatusChanged == work.new.ready # work.old.ready

SpecMerged ==
    [cp EXCEPT !.fin = Merge(@, work.old.fin, work.new.fin),
               !.ep = Merge(@, work.old.ep, work.new.ep)]

\* With its last finalizer the object goes, and its secret is an orphan.
Store(o) ==
    IF o.phase = "deleting" /\ ~o.fin
      THEN cp' = Gone /\ orphan' = (secret # 0)
      ELSE cp' = o /\ UNCHANGED orphan

PatchSpec ==
    /\ work.pc = "patchSpec"
    /\ IF SpecChanged /\ cp.phase # "absent"
         THEN Store(SpecMerged)
         ELSE UNCHANGED <<cp, orphan>>
    /\ work' = [work EXCEPT !.pc = "patchStatus",
                            !.again = @ \/ (SpecChanged /\ cp.phase = "absent")]
    /\ UNCHANGED <<runtime, clusterVars, secret, kc, paused, cache, queue, faults>>

End(again) ==
    /\ work' = Idle
    /\ queue' = (queue \/ again)

PatchStatus ==
    /\ work.pc = "patchStatus"
    /\ cp' = IF StatusChanged /\ cp.phase # "absent"
               THEN [cp EXCEPT !.ready = work.new.ready] ELSE cp
    /\ End(work.again \/ (StatusChanged /\ cp.phase = "absent"))
    /\ UNCHANGED <<runtime, clusterVars, secretVars, kc, paused, cache, faults>>

\* Either half fails, before or after it took effect.
PatchFails ==
    /\ Fault
    /\ \/ /\ work.pc = "patchSpec"
          /\ SpecChanged
          /\ \/ UNCHANGED <<cp, orphan>>
             \/ cp.phase # "absent" /\ Store(SpecMerged)
          /\ work' = [work EXCEPT !.pc = "patchStatus", !.again = TRUE]
          /\ UNCHANGED queue
       \/ /\ work.pc = "patchStatus"
          /\ StatusChanged
          /\ \/ UNCHANGED cp
             \/ cp.phase # "absent" /\ cp' = [cp EXCEPT !.ready = work.new.ready]
          /\ End(TRUE)
          /\ UNCHANGED orphan
    /\ UNCHANGED <<runtime, clusterVars, secret, kc, paused, cache>>

-----------------------------------------------------------------------------
(***************************************************************************)
(* The KwokCluster controller                                               *)
(***************************************************************************)

\* A change of the KwokCluster enqueues the control plane of its owner.
KwokClusterEvent == queue' = (queue \/ (kc'.exists /\ kc'.owned /\ kc' # kc))

\* Mutant: an endpoint that is set is kept.
ReconcileKwokClusterOnce ==
    /\ kc.exists /\ kc.owned /\ ~paused
    /\ cache.phase # "absent"
    /\ kc' = [kc EXCEPT !.ready = TRUE, !.ep = IF @ = 0 THEN cache.ep ELSE @]
    /\ KwokClusterEvent
    /\ UNCHANGED <<runtime, clusterVars, secretVars, cp, paused, cache, work, faults>>

\* Mutant: the endpoint is taken from the kubeconfig secret, whoever owned it.
ReconcileKwokClusterSecret ==
    /\ kc.exists /\ kc.owned /\ ~paused
    /\ cache.phase # "absent"
    /\ kc' = [kc EXCEPT !.ready = TRUE, !.ep = secret]
    /\ KwokClusterEvent
    /\ UNCHANGED <<runtime, clusterVars, secretVars, cp, paused, cache, work, faults>>

\* Ready at once, and whatever endpoint the informer shows.  The controller
\* watches nothing but KwokClusters; the resync may come at any time.
ReconcileKwokCluster ==
    /\ kc.exists /\ kc.owned /\ ~paused
    /\ cache.phase # "absent"
    /\ kc' = [kc EXCEPT !.ready = TRUE, !.ep = cache.ep]
    /\ KwokClusterEvent
    /\ UNCHANGED <<runtime, clusterVars, secretVars, cp, paused, cache, work, faults>>

\* One half of its patch, spec or status, fails.
PatchKwokClusterFails ==
    /\ Fault
    /\ kc.exists /\ kc.owned /\ ~paused
    /\ cache.phase # "absent"
    /\ kc' \in {[kc EXCEPT !.ready = TRUE], [kc EXCEPT !.ep = cache.ep]}
    /\ KwokClusterEvent
    /\ UNCHANGED <<runtime, clusterVars, secretVars, cp, paused, cache, work>>

-----------------------------------------------------------------------------
(***************************************************************************)
(* Informer, workqueue, restarts                                            *)
(***************************************************************************)

Sync ==
    /\ cache # cp
    /\ cache' = cp
    /\ queue' = TRUE
    /\ UNCHANGED <<runtime, clusterVars, secretVars, objectVars, work, faults>>

Resync ==
    /\ ~queue
    /\ cache.phase # "absent"
    /\ queue' = TRUE
    /\ UNCHANGED <<runtime, clusterVars, secretVars, objectVars, cache, work, faults>>

\* With the manager's container die the processes it started, unless they are
\* containers of their own.
Restart ==
    /\ Fault
    /\ work' = Idle
    /\ cache' = cp
    /\ queue' = (cp.phase # "absent")
    /\ running' = (running /\ Kind)
    /\ UNCHANGED <<runtime, gen, conf, file, secretVars, objectVars>>

-----------------------------------------------------------------------------
(***************************************************************************)
(* Users, Cluster API, outages, garbage collection                          *)
(***************************************************************************)

CreateControlPlane ==
    /\ cp.phase = "absent"
    /\ gen < MaxGen
    /\ cp' = [Gone EXCEPT !.phase = "live"]
    /\ UNCHANGED <<runtime, clusterVars, secretVars, kc, paused, cache, queue, work, faults>>

SetOwner ==
    /\ cp.phase = "live"
    /\ ~cp.owned
    /\ cp' = [cp EXCEPT !.owned = TRUE]
    /\ UNCHANGED <<runtime, clusterVars, secretVars, kc, paused, cache, queue, work, faults>>

DeleteControlPlane ==
    /\ cp.phase = "live"
    /\ Store([cp EXCEPT !.phase = "deleting"])
    /\ UNCHANGED <<runtime, clusterVars, secret, kc, paused, cache, queue, work, faults>>

\* Created, given its owner reference, or deleted by whomever.
ChangeKwokCluster ==
    /\ kc' \in {[NoKwokCluster EXCEPT !.exists = TRUE], [kc EXCEPT !.owned = kc.exists],
                NoKwokCluster}
    /\ kc.exists => kc' # [NoKwokCluster EXCEPT !.exists = TRUE]
    /\ KwokClusterEvent
    /\ UNCHANGED <<runtime, clusterVars, secretVars, cp, paused, cache, work, faults>>

\* The watch of the Cluster maps it to infrastructure objects only, never to
\* a KwokControlPlane, so that nothing is enqueued when it is unpaused.
SetPaused ==
    /\ paused' = ~paused
    /\ UNCHANGED <<runtime, clusterVars, secretVars, cp, kc, cache, queue, work, faults>>

Outage ==
    /\ running
    /\ running' = FALSE
    /\ UNCHANGED <<runtime, gen, conf, file, secretVars, objectVars, cache, queue, work, faults>>

CollectSecret ==
    /\ orphan
    /\ secret' = 0
    /\ orphan' = FALSE
    /\ UNCHANGED <<runtime, clusterVars, objectVars, cache, queue, work, faults>>

-----------------------------------------------------------------------------

Start == Skip \/ Begin

Progress ==
    \/ PatchFinalizer \/ PatchFinalizerFails
    \/ CheckReady \/ SaveConfig \/ Install \/ CreateFails \/ Up
    \/ ReadSecret \/ CreateSecret \/ WriteFile \/ KubeconfigFails
    \/ Down \/ Uninstall \/ DeleteFails
    \/ PatchSpec \/ PatchStatus \/ PatchFails

Environment ==
    \/ CreateControlPlane \/ SetOwner \/ DeleteControlPlane
    \/ ChangeKwokCluster \/ SetPaused \/ Outage \/ CollectSecret

Next ==
    \/ Start \/ Progress
    \/ ReconcileKwokCluster \/ PatchKwokClusterFails
    \/ Sync \/ Resync \/ Restart
    \/ Environment

Spec == Init /\ [][Next]_vars

\* Workers take what is queued, a reconcile goes on, the watch delivers, the
\* resync comes round for both controllers and Kubernetes collects orphans.
Fairness ==
    /\ WF_vars(Start) /\ WF_vars(Progress)
    /\ WF_vars(Sync) /\ WF_vars(Resync)
    /\ WF_vars(ReconcileKwokCluster)
    /\ WF_vars(CollectSecret)

FairSpec == Spec /\ Fairness

-----------------------------------------------------------------------------
(***************************************************************************)
(* Safety                                                                   *)
(***************************************************************************)

\* Whatever is left in the working directory, or runs, belongs to a control
\* plane that is held by its finalizer: no failure, restart, stale read or
\* recreation under the same name leaves a cluster that nobody will remove.
NoOrphanCluster ==
    (conf # "none" \/ running) => (cp.phase # "absent" /\ cp.fin)

\* The endpoint a control plane publishes and the secret it owns give access
\* to the cluster installed last, never to one that was removed.
AccessIsCurrent ==
    /\ cp.ep \in {0, gen}
    /\ (secret # 0 /\ ~orphan) => secret = gen

\* Whatever is published of a live control plane, that it is Ready, its endpoint or
\* its secret, there is an installed cluster to it: nothing of an object that had
\* the name before, and no patch of a reconcile that started from that one, makes
\* a new control plane look as if its own cluster were there.
PublishedIsInstalled ==
    cp.phase = "live" /\ (cp.ready \/ cp.ep # 0 \/ (secret # 0 /\ ~orphan)) =>
        conf = "installed"

\* What a control plane has published once is never taken back or replaced, as
\* Cluster API requires of its providers.
PublishedIsKept ==
    [][cp.phase # "absent" /\ cp'.phase # "absent" =>
          /\ cp.ready => cp'.ready
          /\ cp.ep # 0 => cp'.ep = cp.ep]_vars

\* The cluster's server as its clients see it.
Server == IF conf # "installed" THEN "none" ELSE IF running THEN "running" ELSE "stopped"

Workload == INSTANCE WorkloadClient WITH server <- Server, client <- 0

\* The controller makes the workload cluster behave as the machine controller's
\* model expects: installed once per life, and a secret that is never updated.
ImplementsWorkload == Workload!WorkloadSpec

\* The next endpoint to arrive at the KwokCluster: what the informer shows, what
\* is stored, what the installation in place will be published with, or that of
\* the next installation.
Due ==
    IF cache.ep # 0 THEN cache.ep
    ELSE IF cp.ep # 0 THEN cp.ep
    ELSE IF conf = "installed" THEN gen
    ELSE gen + 1

Relay == INSTANCE EndpointRelay
    WITH Clusters <- {"cluster"},
         last <- [c \in {"cluster"} |-> gen],
         due <- [c \in {"cluster"} |-> Due],
         shown <- [c \in {"cluster"} |->
                      [exists |-> kc.exists, ep |-> kc.ep, ready |-> kc.ready]]

\* Failed patches, an endpoint in the memory of a reconcile, removals, recreations
\* and stale reads never make the KwokCluster show the endpoint of a cluster that
\* is not there yet, or one older than it showed before, with or without a life
\* in between.
ImplementsRelay == Relay!RelaySpec

(***************************************************************************)
(* The inductive invariant behind the safety properties                     *)
(***************************************************************************)

Normal == work.old.phase = "live"
Deletes == work.old.phase = "deleting"

Held(o) == o.phase = "live" /\ o.fin

\* Where a reconcile of a live control plane relies on the stored finalizer.
Busy == {"config", "install", "up", "readSecret", "createSecret", "writeFile"}

\* What is stored and what is installed.
StoredCoherent ==
    /\ (conf # "none" \/ running) => cp.fin
    /\ running => conf = "installed"
    /\ cp.phase = "absent" => ~cp.fin /\ cp.ep = 0
    /\ cp.phase = "deleting" => cp.fin
    /\ cp.ep \in {0, gen}
    /\ (secret # 0 /\ ~orphan) => secret = gen

\* What the informer shows: a finalizer it shows on a live object is still
\* there, and one being deleted has no successor with a finalizer.
CacheCoherent ==
    /\ cache.phase = "deleting" => cache.fin
    /\ Held(cache) => cp.fin
    /\ cache.phase = "deleting" =>
          IF Normal THEN cp.phase = "deleting" ELSE ~Held(cp)

\* What a reconcile holds in memory: the finalizer leaves it only with nothing
\* installed, and the endpoint and Ready enter it only with the cluster installed.
WorkCoherent ==
    /\ work.pc = "idle" => work = Idle
    /\ work.pc # "idle" => Normal \/ Deletes
    /\ work.new.ep # work.old.ep => work.new.ep = gen /\ conf = "installed"
    /\ work.new.ready # work.old.ready => work.new.ready /\ conf = "installed"
    /\ Normal =>
          /\ work.pc \in Busy \union {"finalizer", "patchSpec", "patchStatus"}
          /\ work.new.fin
          /\ work.pc \in Busy => cp.fin
    /\ Deletes =>
          /\ work.pc \in {"down", "uninstall", "patchSpec", "patchStatus"}
          /\ work.pc \in {"down", "uninstall"} => work.new.fin
          /\ work.pc = "uninstall" => ~running
          /\ work.new.fin \/ conf = "none"
          /\ work.old.fin
          /\ work.new.ep = work.old.ep /\ work.new.ready = work.old.ready
          /\ ~Held(cp) /\ ~Held(cache)
          /\ cp.phase = "deleting" => cache.phase = "deleting"
    /\ work.pc = "install" => conf = "saved"
    /\ work.pc = "createSecret" => conf = "installed" /\ secret = 0

\* Before the installation nothing of an earlier cluster is owned or published;
\* after the removal everybody knows of the deletion.
GenCoherent ==
    conf # "installed" =>
        \/ cp.ep = 0 /\ ~cp.ready /\ (secret = 0 \/ orphan)
        \/ cp.phase = "deleting" /\ cache.phase = "deleting" /\ ~Normal

Coherent == StoredCoherent /\ CacheCoherent /\ WorkCoherent /\ GenCoherent

\* However far the informer and the KwokCluster lag behind, an endpoint they show
\* is one of a cluster that has been installed.
EndpointsKnown == cache.ep <= gen /\ kc.ep <= gen

(***************************************************************************)
(* Liveness                                                                 *)
(***************************************************************************)

Steady == cp.phase = "live" /\ cp.owned /\ kc.exists /\ ~paused

\* A control plane whose cluster keeps running, on kind with the kubeconfig
\* in the working directory, becomes Ready.
EventuallyReady ==
    <>[](Steady /\ running /\ (Kind => file = "rewritten")) => <>[](cp.ready)

\* A cluster that keeps running gets its kubeconfig secret, also when there is
\* still one of its predecessor; on kind only until Up has written its own file.
EventuallyPublished ==
    <>[](Steady /\ running /\ (Kind => file # "local")) => <>[](secret = gen)

\* The deletion of a control plane ends as long as its KwokCluster is there.
EventuallyDeleted ==
    ~ <>[](cp.phase = "deleting" /\ cp.owned /\ kc.exists /\ ~paused)

\* The endpoint of a control plane, once it stays, arrives at the KwokCluster.
EndpointCopied ==
    \A e \in Gens :
        <>[](Steady /\ kc.owned /\ cp.ep = e) => <>[](kc.ready /\ kc.ep = e)

\* Ready is never taken back, but a cluster that stopped after that is started
\* again and again until it answers.
StoppedIsRestarted ==
    <>[](Steady /\ cp.ready /\ conf = "installed" /\ ~Answers) => []<><<Up>>_vars

(***************************************************************************)
(* Claims of the repository that the code does not keep                     *)
(***************************************************************************)

\* "also try writing kubeconfig if it doesn't exist".
MissingFileIsWritten ==
    <>[](Steady /\ Kind /\ running) => []<>(file # "none")
=============================================================================
