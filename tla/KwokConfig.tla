----------------------------- MODULE KwokConfig -----------------------------
(***************************************************************************)
(* The KwokConfig bootstrap controller (kwokconfig_controller.go), for one  *)
(* name: it creates a bootstrap secret once, without reading it back, and   *)
(* declares the KwokConfig ready. A KwokConfig has no finalizer and may be  *)
(* followed by another of its name (a uid of its own), which the secret's   *)
(* fixed name, the informer's cache and a patch by name do not tell from    *)
(* the first.                                                               *)
(***************************************************************************)
EXTENDS Naturals

CONSTANTS
    MaxUid,      \* bound on the KwokConfigs that bear the name in turn
    MaxFaults    \* bound on failed API calls, lost replies and restarts

ASSUME LimitsAssumption == MaxUid \in Nat /\ MaxFaults \in Nat

VARIABLES
    config,    \* the stored KwokConfig
    cache,     \* the informer's copy of it
    secret,    \* the bootstrap secret
    paused,    \* is the cluster, or the KwokConfig, paused
    queue,     \* is its key in the workqueue
    work,      \* the reconcile in flight, and the uid it read
    uids,      \* KwokConfigs created so far
    clean,     \* history: nothing of an earlier one was left at its creation
    faults     \* failures so far

vars == <<config, cache, secret, paused, queue, work, uids, clean, faults>>

NoConfig == [uid |-> 0, owned |-> FALSE, ready |-> FALSE]

\* ready stands for status.ready, dataSecretName and initialization, which one
\* request sets; owned for an owner reference to a Machine or MachinePool.
Configs == {NoConfig} \union [uid : 1 .. MaxUid, owned : BOOLEAN, ready : BOOLEAN]

\* owner is the uid in the secret's owner reference, 0 for none.
Secrets == [there : BOOLEAN, owner : 0 .. MaxUid]

NoSecret == [there |-> FALSE, owner |-> 0]

Works == [pc : {"idle", "createSecret", "patch"}, uid : 0 .. MaxUid]

Idle == [pc |-> "idle", uid |-> 0]

TypeOK ==
    /\ config \in Configs
    /\ cache \in Configs
    /\ secret \in Secrets
    /\ paused \in BOOLEAN
    /\ queue \in BOOLEAN
    /\ work \in Works
    /\ uids \in 0 .. MaxUid
    /\ clean \in BOOLEAN
    /\ faults \in 0 .. MaxFaults

Init ==
    /\ config = NoConfig
    /\ cache = NoConfig
    /\ secret = NoSecret
    /\ paused = FALSE
    /\ queue = FALSE
    /\ work = Idle
    /\ uids = 0
    /\ clean = FALSE
    /\ faults = 0

Fault ==
    /\ faults < MaxFaults
    /\ faults' = faults + 1

-----------------------------------------------------------------------------
(***************************************************************************)
(* Reconcile. A read that fails only leaves the key queued: no step.        *)
(***************************************************************************)

Take ==
    /\ queue
    /\ work = Idle
    /\ queue' = FALSE

\* Not found, no owner yet, the secret's name set already, or paused.
Skip ==
    /\ Take
    /\ cache.uid = 0 \/ ~cache.owned \/ cache.ready \/ paused
    /\ UNCHANGED <<config, cache, secret, paused, work, uids, clean, faults>>

\* Mutant: a secret that exists is taken for work done.
BeginOnce ==
    /\ Take
    /\ cache.owned /\ ~cache.ready /\ ~paused
    /\ work' = IF secret.there THEN Idle ELSE [pc |-> "createSecret", uid |-> cache.uid]
    /\ UNCHANGED <<config, cache, secret, paused, uids, clean, faults>>

Begin ==
    /\ Take
    /\ cache.uid # 0 /\ cache.owned /\ ~cache.ready /\ ~paused
    /\ work' = [pc |-> "createSecret", uid |-> cache.uid]
    /\ UNCHANGED <<config, cache, secret, paused, uids, clean, faults>>

\* Mutant: without SetOwnerReference.
CreatedUnowned == IF secret.there THEN secret ELSE [there |-> TRUE, owner |-> 0]

\* The secret after Create: one that exists stays, whoever owns it.
Created == IF secret.there THEN secret ELSE [there |-> TRUE, owner |-> work.uid]

\* Create succeeds or answers AlreadyExists, which is as good.
CreateSecret ==
    /\ work.pc = "createSecret"
    /\ secret' = Created
    /\ work' = [work EXCEPT !.pc = "patch"]
    /\ UNCHANGED <<config, cache, paused, queue, uids, clean, faults>>

\* An error ends the reconcile and puts the key back.
Retry ==
    /\ work' = Idle
    /\ queue' = TRUE

\* Mutant: any error is taken for AlreadyExists.
CreateFailsIgnored ==
    /\ Fault
    /\ work.pc = "createSecret"
    /\ secret' \in {secret, Created}
    /\ work' = [work EXCEPT !.pc = "patch"]
    /\ UNCHANGED <<config, cache, paused, queue, uids, clean>>

\* Create fails otherwise, before or after it took effect.
CreateFails ==
    /\ Fault
    /\ work.pc = "createSecret"
    /\ secret' \in {secret, Created}
    /\ Retry
    /\ UNCHANGED <<config, cache, paused, uids, clean>>

\* Mutant: the patch creates what is not there.
PatchUnchecked ==
    /\ work.pc = "patch"
    /\ config' = [config EXCEPT !.ready = TRUE]
    /\ work' = Idle
    /\ UNCHANGED <<cache, secret, paused, queue, uids, clean, faults>>

\* The status patch goes by name: it reaches a KwokConfig created in the
\* meantime, and is an error when there is none.
Patch ==
    /\ work.pc = "patch"
    /\ IF config.uid # 0
         THEN /\ config' = [config EXCEPT !.ready = TRUE]
              /\ work' = Idle
              /\ UNCHANGED queue
         ELSE Retry /\ UNCHANGED config
    /\ UNCHANGED <<cache, secret, paused, uids, clean, faults>>

PatchFails ==
    /\ Fault
    /\ work.pc = "patch"
    /\ \/ UNCHANGED config
       \/ config.uid # 0 /\ config' = [config EXCEPT !.ready = TRUE]
    /\ Retry
    /\ UNCHANGED <<cache, secret, paused, uids, clean>>

-----------------------------------------------------------------------------
(***************************************************************************)
(* Informer, workqueue, restarts                                            *)
(***************************************************************************)

Sync ==
    /\ cache # config
    /\ cache' = config
    /\ queue' = TRUE
    /\ UNCHANGED <<config, secret, paused, work, uids, clean, faults>>

\* The resync, or an event of the Machine or MachinePool that refers to it.
Resync ==
    /\ ~queue
    /\ config.uid # 0
    /\ queue' = TRUE
    /\ UNCHANGED <<config, cache, secret, paused, work, uids, clean, faults>>

Restart ==
    /\ Fault
    /\ work' = Idle
    /\ cache' = config
    /\ queue' = (config.uid # 0)
    /\ UNCHANGED <<config, secret, paused, uids, clean>>

-----------------------------------------------------------------------------
(***************************************************************************)
(* Users, Cluster API and garbage collection                                *)
(***************************************************************************)

CreateConfig ==
    /\ config.uid = 0
    /\ uids < MaxUid
    /\ uids' = uids + 1
    /\ config' = [NoConfig EXCEPT !.uid = uids + 1]
    /\ clean' = (~secret.there /\ work = Idle /\ cache.uid = 0)
    /\ UNCHANGED <<cache, secret, paused, queue, work, faults>>

SetOwner ==
    /\ config.uid # 0 /\ ~config.owned
    /\ config' = [config EXCEPT !.owned = TRUE]
    /\ UNCHANGED <<cache, secret, paused, queue, work, uids, clean, faults>>

DeleteConfig ==
    /\ config.uid # 0
    /\ config' = NoConfig
    /\ clean' = FALSE
    /\ UNCHANGED <<cache, secret, paused, queue, work, uids, faults>>

SetPaused ==
    /\ paused' = ~paused
    /\ UNCHANGED <<config, cache, secret, queue, work, uids, clean, faults>>

\* Kubernetes deletes a secret whose owner has gone.
Collect ==
    /\ secret.there
    /\ secret.owner \notin {0, config.uid}
    /\ secret' = NoSecret
    /\ UNCHANGED <<config, cache, paused, queue, work, uids, clean, faults>>

-----------------------------------------------------------------------------

Reconcile == Skip \/ Begin \/ CreateSecret \/ CreateFails \/ Patch \/ PatchFails

Next ==
    \/ Reconcile \/ Sync \/ Resync \/ Restart
    \/ CreateConfig \/ SetOwner \/ DeleteConfig \/ SetPaused \/ Collect

Spec == Init /\ [][Next]_vars

\* The manager works off its queue, watches deliver, the resync comes and
\* Kubernetes collects garbage. Users and failures owe nothing.
Fairness ==
    WF_vars(Reconcile) /\ WF_vars(Sync) /\ WF_vars(Resync) /\ WF_vars(Collect)

FairSpec == Spec /\ Fairness

-----------------------------------------------------------------------------
(***************************************************************************)
(* Properties                                                               *)
(***************************************************************************)

\* A KwokConfig that is ready has a bootstrap secret of its own, whatever call
\* failed on the way, if nothing of an earlier KwokConfig of its name was left
\* when it was created: no secret, no reconcile in flight, no cached copy. The
\* code does not promise it otherwise: a secret of the earlier one answers
\* AlreadyExists, a late patch reaches the later one, and the secret is then
\* collected while dataSecretName stays.
ReadyHasSecret ==
    clean /\ config.ready => secret = [there |-> TRUE, owner |-> config.uid]

\* A KwokConfig that stays, with an owner and not paused, becomes ready for
\* good, although the secret may exist already and is never read.
EventuallyReady ==
    <>[](config.owned /\ ~paused) => <>[](config.ready)

\* Nothing is left of a KwokConfig that is gone, though a reconcile that read it
\* before may still create its secret.
EventuallyCollected ==
    <>[](config.uid = 0) => <>[](~secret.there)

(***************************************************************************)
(* The inductive invariant behind ReadyHasSecret                            *)
(***************************************************************************)

\* With a clean start, the cache, the reconcile in flight and the secret are of
\* this KwokConfig or of none, and the secret is there from Create on.
CleanLife ==
    clean =>
        /\ config.uid # 0
        /\ cache.uid \in {0, config.uid}
        /\ work # Idle => work.pc # "idle" /\ work.uid = config.uid
        /\ secret.there => secret.owner = config.uid
        /\ (work.pc = "patch" \/ config.ready) => secret.there
=============================================================================
