----------------------------- MODULE KwokCluster -----------------------------
(***************************************************************************)
(* The KwokCluster controller: it marks a KwokCluster Ready and copies the   *)
(* endpoint of the control plane of its Cluster into it.  KwokControlPlane   *)
(* has this controller as one step of one cluster; here several clusters    *)
(* share the controller's only worker (SetupWithManager drops the options    *)
(* it is given) and its workqueue, a reconcile reads two informers and       *)
(* patches in two halves, and some KwokClusters cannot be reconciled at all. *)
(***************************************************************************)
EXTENDS Naturals, Sequences

CONSTANTS
    Clusters,     \* names of KwokClusters, each with a Cluster of its own
    SpecsOf,      \* the specs each of them may have
    MaxEndpoint,  \* for each, bound on the endpoints its control plane publishes
    MaxChanges,   \* for each, bound on what users and other controllers change
    MaxFaults     \* bound on failed patches and restarts of the manager

\* What the reconcile makes of a spec: nothing to object to; a latency that
\* holds the worker; a simulationConfig without its optional reconcile, which
\* the reconcile dereferences; a runtime that kwokctl does not have.
Specs == {"plain", "slow", "broken", "unknown"}

ASSUME SpecsAssumption == SpecsOf \in [Clusters -> SUBSET Specs]
ASSUME BoundsAssumption ==
    /\ MaxEndpoint \in [Clusters -> Nat]
    /\ MaxChanges \in [Clusters -> Nat]
    /\ MaxFaults \in Nat

VARIABLES
    kc,       \* the stored KwokClusters
    news,     \* those with an event the watch has not delivered yet
    seen,     \* the informer's copies
    cp,       \* the stored control planes
    cpSeen,   \* the informer's copies; this controller gets no events of them
    last,     \* endpoint each name of a control plane has published last
    paused,   \* Cluster.spec.paused
    queue,    \* the workqueue
    coming,   \* KwokClusters that will be added to it: in a backoff, or listed
    work,     \* the reconcile in flight
    slept,    \* history: KwokClusters whose last turn a paused Cluster ended
    changes,  \* changes of each so far
    faults    \* failures so far

objectVars == <<kc, news, cp, last, paused>>
informerVars == <<seen, cpSeen>>
queueVars == <<queue, coming>>
vars == <<objectVars, informerVars, queueVars, work, slept, changes, faults>>

\* ep is spec.controlPlaneEndpoint (0: not set), told apart by when it was
\* published; held is the pause annotation; ready stands for status.ready and
\* status.initialization.provisioned.
KwokClusters == [exists : BOOLEAN, spec : Specs, owned : BOOLEAN, held : BOOLEAN,
                 ep : Nat, ready : BOOLEAN]

Fresh(spec) == [exists |-> TRUE, spec |-> spec, owned |-> FALSE, held |-> FALSE,
                ep |-> 0, ready |-> FALSE]

Gone == [Fresh("plain") EXCEPT !.exists = FALSE]

ControlPlanes == [exists : BOOLEAN, ep : Nat]

NoControlPlane == [exists |-> FALSE, ep |-> 0]

\* old is the copy the reconcile started from, ep the endpoint it has read,
\* failed an error of the patch so far, again the workqueue's mark that the
\* object was added meanwhile.
Works == [pc : {"get", "patchSpec", "patchStatus", "wait"}, name : Clusters,
          old : KwokClusters, ep : Nat, failed : BOOLEAN, again : BOOLEAN]

Idle == [pc |-> "idle"]

Working(c) == work # Idle /\ work.name = c

Queued == {queue[i] : i \in DOMAIN queue}

TypeOK ==
    /\ kc \in [Clusters -> KwokClusters]
    /\ news \in SUBSET Clusters
    /\ seen \in [Clusters -> KwokClusters]
    /\ cp \in [Clusters -> ControlPlanes]
    /\ cpSeen \in [Clusters -> ControlPlanes]
    /\ last \in [Clusters -> Nat]
    /\ paused \in [Clusters -> BOOLEAN]
    /\ queue \in Seq(Clusters)
    /\ \A i, j \in DOMAIN queue : queue[i] = queue[j] => i = j
    /\ coming \in SUBSET Clusters
    /\ work \in Works \union {Idle}
    /\ work # Idle => work.name \notin Queued
    /\ slept \in SUBSET Clusters
    /\ changes \in [Clusters -> Nat]
    /\ faults \in 0 .. MaxFaults

\* The event filter lets the KwokClusters through that do not carry the annotation.
Passes(o) == o.exists /\ ~o.held

\* The informers list what there is before the first reconcile.
Listed(objects) == {c \in Clusters : Passes(objects[c])}

\* The manager starts with clusters whose objects have been applied already.
Init ==
    /\ kc \in [Clusters ->
               {Gone} \union {[Fresh(spec) EXCEPT !.owned = TRUE] : spec \in Specs}]
    /\ \A c \in Clusters : kc[c].exists => kc[c].spec \in SpecsOf[c]
    /\ news = {}
    /\ seen = kc
    /\ cp = [c \in Clusters |-> [NoControlPlane EXCEPT !.exists = kc[c].exists]]
    /\ cpSeen = cp
    /\ last = [c \in Clusters |-> 0]
    /\ paused = [c \in Clusters |-> FALSE]
    /\ queue = <<>>
    /\ coming = Listed(kc)
    /\ work = Idle
    /\ slept = {}
    /\ changes = [c \in Clusters |-> 0]
    /\ faults = 0

Fault ==
    /\ faults < MaxFaults
    /\ faults' = faults + 1

-----------------------------------------------------------------------------
(***************************************************************************)
(* The workqueue and its only worker                                        *)
(***************************************************************************)

\* Mutant: an object that is queued is queued again.
AddTwice(c) ==
    /\ queue' = IF Working(c) THEN queue ELSE Append(queue, c)
    /\ work' = IF Working(c) THEN [work EXCEPT !.again = TRUE] ELSE work

\* An object that is queued is not queued twice, and one in a reconcile is only
\* marked.
Add(c) ==
    /\ queue' = IF Working(c) \/ c \in Queued THEN queue ELSE Append(queue, c)
    /\ work' = IF Working(c) THEN [work EXCEPT !.again = TRUE] ELSE work

\* The worker is free again; after an error the object comes back with a backoff.
Return(error) ==
    /\ work' = Idle
    /\ queue' = IF work.again THEN Append(queue, work.name) ELSE queue
    /\ coming' = IF error THEN coming \union {work.name} ELSE coming

\* A backoff is over, or an object that was listed is enqueued.
Come(c) ==
    /\ c \in coming
    /\ coming' = coming \ {c}
    /\ Add(c)
    /\ UNCHANGED <<objectVars, informerVars, slept, changes, faults>>

Take(c) ==
    /\ work = Idle
    /\ queue # <<>>
    /\ c = Head(queue)
    /\ queue' = Tail(queue)

-----------------------------------------------------------------------------
(***************************************************************************)
(* KwokClusterReconciler.Reconcile                                          *)
(***************************************************************************)

Suspended(c) == paused[c] \/ seen[c].held

\* Early returns without an error: it has gone, its Cluster has not adopted it
\* yet, or one of them is paused.
Skip(c) ==
    /\ Take(c)
    /\ \/ ~seen[c].exists
       \/ ~seen[c].owned
       \/ seen[c].spec # "broken" /\ Suspended(c)
    /\ slept' = IF seen[c].owned /\ paused[c] THEN slept \union {c} ELSE slept
    /\ UNCHANGED <<objectVars, informerVars, coming, work, changes, faults>>

\* Mutant: without RecoverPanic the manager exits, and its successor lists
\* every object again.
PanicExits(c) ==
    /\ work = Idle
    /\ queue # <<>>
    /\ c = Head(queue)
    /\ seen[c].exists /\ seen[c].owned /\ seen[c].spec = "broken"
    /\ queue' = <<>>
    /\ coming' = Listed(seen)
    /\ UNCHANGED <<objectVars, informerVars, work, slept, changes, faults>>

\* The latency of a simulationConfig without reconcile is read, before any pause
\* is: the panic is recovered and counts as an error of this object.
Panic(c) ==
    /\ Take(c)
    /\ seen[c].exists /\ seen[c].owned /\ seen[c].spec = "broken"
    /\ coming' = coming \union {c}
    /\ UNCHANGED <<objectVars, informerVars, work, slept, changes, faults>>

Begin(c) ==
    /\ Take(c)
    /\ seen[c].exists /\ seen[c].owned /\ seen[c].spec # "broken" /\ ~Suspended(c)
    /\ work' = [pc |-> "get", name |-> c, old |-> seen[c], ep |-> 0,
                failed |-> FALSE, again |-> FALSE]
    /\ slept' = slept \ {c}
    /\ UNCHANGED <<objectVars, informerVars, coming, changes, faults>>

\* Mutant: a control plane that is not there yet is no error.
GetQuietly ==
    /\ work.pc = "get"
    /\ IF cpSeen[work.name].exists /\ work.old.spec # "unknown"
         THEN /\ work' = [work EXCEPT !.pc = "patchSpec", !.ep = cpSeen[work.name].ep]
              /\ UNCHANGED queueVars
         ELSE Return(work.old.spec = "unknown")
    /\ UNCHANGED <<objectVars, informerVars, slept, changes, faults>>

\* The control plane is read, and the runtime looked up; an error without either.
Get ==
    /\ work.pc = "get"
    /\ IF cpSeen[work.name].exists /\ work.old.spec # "unknown"
         THEN /\ work' = [work EXCEPT !.pc = "patchSpec", !.ep = cpSeen[work.name].ep]
              /\ UNCHANGED queueVars
         ELSE Return(TRUE)
    /\ UNCHANGED <<objectVars, informerVars, slept, changes, faults>>

\* The patch holds what differs from the copy, and lands on whatever object has
\* that name now.
SpecChanged == work.ep # work.old.ep
StatusChanged == ~work.old.ready

Stored(c, o) ==
    /\ kc' = [kc EXCEPT ![c] = o]
    /\ news' = IF o # kc[c] THEN news \union {c} ELSE news

\* Mutant: a KwokCluster that has gone is created again.
PatchSpecCreates ==
    /\ work.pc = "patchSpec"
    /\ Stored(work.name, IF SpecChanged
                           THEN [kc[work.name] EXCEPT !.exists = TRUE, !.ep = work.ep]
                           ELSE kc[work.name])
    /\ work' = [work EXCEPT !.pc = "patchStatus"]
    /\ UNCHANGED <<cp, last, paused, informerVars, queueVars, slept, changes, faults>>

PatchSpec ==
    /\ work.pc = "patchSpec"
    /\ LET stored == kc[work.name] IN
       /\ Stored(work.name, IF SpecChanged /\ stored.exists
                              THEN [stored EXCEPT !.ep = work.ep] ELSE stored)
       /\ work' = [work EXCEPT !.pc = "patchStatus",
                               !.failed = SpecChanged /\ ~stored.exists]
    /\ UNCHANGED <<cp, last, paused, informerVars, queueVars, slept, changes, faults>>

\* After an error of either half the latency is not waited for.
PatchStatus ==
    /\ work.pc = "patchStatus"
    /\ LET stored == kc[work.name]
           failed == work.failed \/ (StatusChanged /\ ~stored.exists) IN
       /\ Stored(work.name, IF StatusChanged /\ stored.exists
                              THEN [stored EXCEPT !.ready = TRUE] ELSE stored)
       /\ IF failed \/ work.old.spec # "slow"
            THEN Return(failed)
            ELSE work' = [work EXCEPT !.pc = "wait"] /\ UNCHANGED queueVars
    /\ UNCHANGED <<cp, last, paused, informerVars, slept, changes, faults>>

\* Mutant: a failed patch is rolled back to the copy.
PatchRolledBack ==
    /\ work.pc \in {"patchSpec", "patchStatus"}
    /\ Fault
    /\ Stored(work.name, IF kc[work.name].exists
                           THEN [kc[work.name] EXCEPT !.ep = work.old.ep]
                           ELSE kc[work.name])
    /\ Return(TRUE)
    /\ UNCHANGED <<cp, last, paused, informerVars, slept, changes>>

\* A half of the patch fails, before or after it took effect.
PatchFails ==
    /\ Fault
    /\ LET stored == kc[work.name] IN
       \/ /\ work.pc = "patchSpec"
          /\ SpecChanged
          /\ \/ UNCHANGED <<kc, news>>
             \/ stored.exists /\ Stored(work.name, [stored EXCEPT !.ep = work.ep])
          /\ work' = [work EXCEPT !.pc = "patchStatus", !.failed = TRUE]
          /\ UNCHANGED queueVars
       \/ /\ work.pc = "patchStatus"
          /\ StatusChanged
          /\ \/ UNCHANGED <<kc, news>>
             \/ stored.exists /\ Stored(work.name, [stored EXCEPT !.ready = TRUE])
          /\ Return(TRUE)
    /\ UNCHANGED <<cp, last, paused, informerVars, slept, changes>>

\* The worker has waited for the latency.
Wait ==
    /\ work.pc = "wait"
    /\ Return(FALSE)
    /\ UNCHANGED <<objectVars, informerVars, slept, changes, faults>>

-----------------------------------------------------------------------------
(***************************************************************************)
(* Informers, resyncs, restarts                                             *)
(***************************************************************************)

Sync(c) ==
    /\ c \in news
    /\ news' = news \ {c}
    /\ seen' = [seen EXCEPT ![c] = kc[c]]
    /\ IF Passes(kc[c]) \/ (~kc[c].exists /\ ~seen[c].held)
         THEN Add(c)
         ELSE UNCHANGED <<queue, work>>
    /\ UNCHANGED <<kc, cp, last, paused, cpSeen, coming, slept, changes, faults>>

SyncControlPlane(c) ==
    /\ cpSeen[c] # cp[c]
    /\ cpSeen' = [cpSeen EXCEPT ![c] = cp[c]]
    /\ UNCHANGED <<objectVars, seen, queueVars, work, slept, changes, faults>>

Resync(c) ==
    /\ Passes(seen[c])
    /\ Add(c)
    /\ UNCHANGED <<objectVars, informerVars, coming, slept, changes, faults>>

Restart ==
    /\ Fault
    /\ news' = {}
    /\ seen' = kc
    /\ cpSeen' = cp
    /\ queue' = <<>>
    /\ coming' = Listed(kc)
    /\ work' = Idle
    /\ UNCHANGED <<kc, cp, last, paused, slept, changes>>

-----------------------------------------------------------------------------
(***************************************************************************)
(* Users, Cluster API and the control plane controller                      *)
(***************************************************************************)

Change(c) ==
    /\ changes[c] < MaxChanges[c]
    /\ changes' = [changes EXCEPT ![c] = @ + 1]

\* A KwokCluster is created, edited, paused or resumed, or deleted: it has no
\* finalizer.
ChangeKwokCluster(c) ==
    /\ Change(c)
    /\ \/ ~kc[c].exists /\ \E spec \in SpecsOf[c] : Stored(c, Fresh(spec))
       \/ kc[c].exists /\ \E spec \in SpecsOf[c] : Stored(c, [kc[c] EXCEPT !.spec = spec])
       \/ kc[c].exists /\ Stored(c, [kc[c] EXCEPT !.held = ~@])
       \/ kc[c].exists /\ Stored(c, Gone)
    /\ UNCHANGED <<cp, last, paused, informerVars, queueVars, work, slept, faults>>

\* The Cluster controller sets the owner reference.
SetOwner(c) ==
    /\ kc[c].exists /\ ~kc[c].owned
    /\ Stored(c, [kc[c] EXCEPT !.owned = TRUE])
    /\ UNCHANGED <<cp, last, paused, informerVars, queueVars, work, slept, changes, faults>>

\* The watch of the Cluster is commented out: nothing is enqueued.
SetPaused(c) ==
    /\ Change(c)
    /\ paused' = [paused EXCEPT ![c] = ~@]
    /\ UNCHANGED <<kc, news, cp, last, informerVars, queueVars, work, slept, faults>>

CreateControlPlane(c) ==
    /\ Change(c)
    /\ ~cp[c].exists
    /\ cp' = [cp EXCEPT ![c] = [exists |-> TRUE, ep |-> 0]]
    /\ UNCHANGED <<kc, news, last, paused, informerVars, queueVars, work, slept, faults>>

\* See KwokControlPlane: the endpoint of a later installation is another one.
Publish(c) ==
    /\ cp[c].exists
    /\ last[c] < MaxEndpoint[c]
    /\ last' = [last EXCEPT ![c] = @ + 1]
    /\ cp' = [cp EXCEPT ![c].ep = last'[c]]
    /\ UNCHANGED <<kc, news, paused, informerVars, queueVars, work, slept, changes, faults>>

DeleteControlPlane(c) ==
    /\ Change(c)
    /\ cp[c].exists
    /\ cp' = [cp EXCEPT ![c] = NoControlPlane]
    /\ UNCHANGED <<kc, news, last, paused, informerVars, queueVars, work, slept, faults>>

-----------------------------------------------------------------------------

Worker ==
    \/ \E c \in Clusters : Skip(c) \/ Panic(c) \/ Begin(c)
    \/ work # Idle /\ (Get \/ PatchSpec \/ PatchStatus \/ PatchFails \/ Wait)

Environment(c) ==
    \/ ChangeKwokCluster(c) \/ SetOwner(c) \/ SetPaused(c)
    \/ CreateControlPlane(c) \/ Publish(c) \/ DeleteControlPlane(c)

Next ==
    \/ Worker
    \/ \E c \in Clusters :
          Come(c) \/ Sync(c) \/ SyncControlPlane(c) \/ Resync(c) \/ Environment(c)
    \/ Restart

Spec == Init /\ [][Next]_vars

\* The worker goes on, a backoff ends, the watches deliver and the resync comes
\* round for every object.
Fairness ==
    /\ WF_vars(Worker)
    /\ \A c \in Clusters :
          /\ WF_vars(Come(c)) /\ WF_vars(Sync(c))
          /\ WF_vars(SyncControlPlane(c)) /\ WF_vars(Resync(c))

FairSpec == Spec /\ Fairness

-----------------------------------------------------------------------------
(***************************************************************************)
(* Properties                                                               *)
(***************************************************************************)

\* Nobody forgets a KwokCluster that is not Ready: unless the informer has yet to
\* hear of it, or a paused Cluster ended its last turn, it is queued, in a
\* reconcile or about to be added.  The resync is not needed for it.
NoneForgotten ==
    \A c \in Clusters :
        Passes(kc[c]) /\ kc[c].owned /\ ~kc[c].ready =>
            c \in news \union slept \union Queued \union coming \/ Working(c)

\* Two informers that lag on their own, patches against a stale copy, failed
\* halves of a patch and restarts never take the endpoint of a KwokCluster back
\* to one its control plane had earlier.
EndpointNeverGoesBack ==
    [][\A c \in Clusters :
          kc[c].exists /\ kc'[c].exists /\ kc'[c].ep # 0 => kc'[c].ep >= kc[c].ep]_vars

\* The endpoint the reconcile in flight will store, if it is one of c.
Carried(c) == IF Working(c) THEN work.ep ELSE 0

\* The next endpoint to arrive is the one that has come farthest; when none is
\* on its way it is the one that is published next.
Due(c) ==
    IF Carried(c) # 0 THEN Carried(c)
    ELSE IF cpSeen[c].ep # 0 THEN cpSeen[c].ep
    ELSE IF cp[c].ep # 0 THEN cp[c].ep
    ELSE last[c] + 1

Relay == INSTANCE EndpointRelay
    WITH due <- [c \in Clusters |-> Due(c)],
         shown <- [c \in Clusters |->
                      [exists |-> kc[c].exists, ep |-> kc[c].ep, ready |-> kc[c].ready]]

\* The stations an endpoint passes on its way, two informers and a reconcile that
\* keeps its copy across several calls, show in nothing but the delay: once a
\* later endpoint has got ahead of one, that one never arrives, not even after
\* the KwokCluster showed none, or was deleted and created again.
ImplementsRelay == Relay!RelaySpec

(***************************************************************************)
(* The inductive invariant behind them                                      *)
(***************************************************************************)

\* Without news the informer shows what is stored, and the reconcile in flight
\* has either started from that or will be followed by another.
CopyCoherent(c) ==
    /\ c \notin news => seen[c] = kc[c]
    /\ Working(c) /\ ~work.again /\ Passes(seen[c]) => seen[c] = work.old
    /\ Working(c) /\ work.pc = "wait" /\ ~work.again /\ c \notin news /\ Passes(kc[c])
          => kc[c].ready

NotBehind(ep, than) == ep # 0 => ep >= than

\* An endpoint comes from the stored control plane to the informer's copy, from
\* there to the reconcile, and from there to the KwokCluster: at every station,
\* one that is set is as new as those further on, and none is newer than the last.
EndpointCoherent(c) ==
    /\ NotBehind(Carried(c), kc[c].ep)
    /\ NotBehind(cpSeen[c].ep, kc[c].ep)
    /\ NotBehind(cpSeen[c].ep, Carried(c))
    /\ NotBehind(cp[c].ep, kc[c].ep)
    /\ NotBehind(cp[c].ep, Carried(c))
    /\ NotBehind(cp[c].ep, cpSeen[c].ep)
    /\ \A ep \in {kc[c].ep, Carried(c), cpSeen[c].ep, cp[c].ep} : ep <= last[c]

Coherent ==
    /\ NoneForgotten
    /\ \A c \in Clusters : CopyCoherent(c) /\ EndpointCoherent(c)

-----------------------------------------------------------------------------

\* What a user may expect whatever the other KwokClusters are like, the one that
\* panics and the one that holds the worker included: the endpoint that its
\* control plane keeps arrives.
EndpointArrives ==
    \A c \in Clusters : \A e \in 0 .. MaxEndpoint[c] :
        <>[](/\ Passes(kc[c]) /\ kc[c].owned /\ kc[c].spec \in {"plain", "slow"}
             /\ ~paused[c]
             /\ cp[c] = [exists |-> TRUE, ep |-> e])
        => <>[](kc[c].ready /\ kc[c].ep = e)
=============================================================================
