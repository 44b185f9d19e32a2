-------------------------- MODULE KwokMachinePool --------------------------
(***************************************************************************)
(* The KwokMachinePool controller (kwokmachinepool_controller.go): it keeps *)
(* as many child KwokMachines as the owner MachinePool asks for and counts  *)
(* them with lists from an informer cache, in an order that is arbitrary,   *)
(* that trails the API server and that shows children being deleted.  The   *)
(* pool itself comes from another informer cache, with a lag of its own.    *)
(*                                                                          *)
(* A child is the pair <<pool, index>>: its name is <KwokMachinePool>-<i>.  *)
(* KwokMachines are created bare, get their finalizer and ProviderID from   *)
(* the KwokMachine controller (in one step here), and go some time after    *)
(* their deletion was asked for.                                            *)
(***************************************************************************)
EXTENDS Naturals, FiniteSets, FiniteSetsExt

CONSTANTS
    Pools,         \* the KwokMachinePools of one namespace
    KwokName,      \* name of each KwokMachinePool
    OwnerName,     \* name of the MachinePool that owns it
    MaxReplicas,   \* bound on spec.replicas of a MachinePool
    Targets,       \* the replicas a MachinePool may ask for
    MaxEdits,      \* bound on what users do to the pools
    MaxFaults      \* bound on failed API calls, lost replies, restarts of the
                   \* manager and children deleted by somebody else

ASSUME BoundsAssumption ==
    /\ MaxReplicas \in Nat /\ MaxEdits \in Nat /\ MaxFaults \in Nat
    /\ Targets \subseteq 0 .. MaxReplicas

VARIABLES
    pool,      \* the KwokMachinePools stored in the management cluster
    seen,      \* the informer's copy of each
    paused,    \* pools that are paused, with their cluster or alone
    desired,   \* replicas the MachinePool asks for (1 when it names none), as its
               \* informer shows them: the controller has no other view of it
    asked,     \* history: the most replicas it ever asked for
    child,     \* the stored child KwokMachines
    cache,     \* the informer's copy of the children
    queue,     \* pools in the workqueue
    work,      \* the reconcile in flight for each pool
    edits,     \* what users have done so far
    faults     \* failures so far

vars == <<pool, seen, paused, desired, asked, child, cache, queue, work, edits, faults>>

Replicas == 0 .. MaxReplicas
Index == IF MaxReplicas = 0 THEN {} ELSE 0 .. (MaxReplicas - 1)
Children == Pools \X Index

\* uid tells a pool from a later one of its name; ready and count are status.ready
\* and status.replicas, ids spec.providerIDList, without its order (another order
\* would be one more patch, and its event one more reconcile, which Resync may
\* bring at any time).  A pool counts as absent until its owner reference is set:
\* to the controller the two are the same.
PoolObjects == [phase : {"absent", "live", "deleting"}, uid : 0 .. MaxEdits, fin : BOOLEAN,
                ids : SUBSET Children, ready : BOOLEAN, count : Replicas]

NoPool == [phase |-> "absent", uid |-> 0, fin |-> FALSE,
           ids |-> {}, ready |-> FALSE, count |-> 0]

\* A KwokMachine is new, provisioned (with its finalizer and ProviderID) or
\* being deleted; it is an orphan when the pool its owner reference names has
\* gone.
ChildObjects == [phase : {"absent", "new", "provisioned", "deleting"}, orphan : BOOLEAN]

NoChild == [phase |-> "absent", orphan |-> FALSE]

PCs == {"idle", "scaleUp", "scaleDown", "relist", "deleteChildren",
        "patchSpec", "patchStatus"}

\* todo holds the children still to be created or deleted by the loop at pc.
Works == [pc : PCs, old : PoolObjects, new : PoolObjects, target : Replicas,
          todo : SUBSET Children, again : BOOLEAN]

Idle == [pc |-> "idle", old |-> NoPool, new |-> NoPool, target |-> 0,
         todo |-> {}, again |-> FALSE]

TypeOK ==
    /\ pool \in [Pools -> PoolObjects]
    /\ seen \in [Pools -> PoolObjects]
    /\ paused \in SUBSET Pools
    /\ desired \in [Pools -> Replicas]
    /\ asked \in [Pools -> Replicas]
    /\ child \in [Children -> ChildObjects]
    /\ cache \in [Children -> ChildObjects]
    /\ queue \in SUBSET Pools
    /\ work \in [Pools -> Works]
    /\ edits \in 0 .. MaxEdits
    /\ faults \in 0 .. MaxFaults

Init ==
    /\ pool = [p \in Pools |-> NoPool]
    /\ seen = [p \in Pools |-> NoPool]
    /\ paused = {}
    /\ desired = [p \in Pools |-> 0]
    /\ asked = [p \in Pools |-> 0]
    /\ child = [c \in Children |-> NoChild]
    /\ cache = [c \in Children |-> NoChild]
    /\ queue = {}
    /\ work = [p \in Pools |-> Idle]
    /\ edits = 0
    /\ faults = 0

Fault ==
    /\ faults < MaxFaults
    /\ faults' = faults + 1

Edit ==
    /\ edits < MaxEdits
    /\ edits' = edits + 1

-----------------------------------------------------------------------------
(***************************************************************************)
(* Children in the API server and in the cache                              *)
(***************************************************************************)

Exists(o) == o.phase # "absent"

HasProviderID(o) == o.phase \in {"provisioned", "deleting"}

\* Delete: a KwokMachine without a finalizer goes at once.
Deleted(o) ==
    IF o.phase \in {"provisioned", "deleting"} THEN [o EXCEPT !.phase = "deleting"] ELSE NoChild

\* reconcileNormal lists by cluster and by the MachinePool's name, the labels
\* every child of p carries, so it finds the children of p.
ListNormal(p) == {c \in Children : c[1] = p /\ Exists(cache[c])}

\* reconcileDelete lists by the KwokMachinePool's own name and by no cluster.
ListDelete(p) == {c \in Children : OwnerName[c[1]] = KwokName[p] /\ Exists(cache[c])}

-----------------------------------------------------------------------------
(***************************************************************************)
(* Reconcile and reconcileNormal                                            *)
(***************************************************************************)

Take(p) ==
    /\ p \in queue
    /\ work[p] = Idle
    /\ queue' = queue \ {p}

\* Not found, no owner MachinePool yet, or paused.
Skip(p) ==
    /\ Take(p)
    /\ ~Exists(seen[p]) \/ p \in paused
    /\ UNCHANGED <<pool, seen, paused, desired, asked, child, cache, work, edits, faults>>

\* Mutant: the loop runs up to and including the target.
ScaleUpRangeInclusive(p, current, target) == {<<p, i>> : i \in current .. target}

\* Children <pool>-current .. <pool>-(target-1), which need not be those missing.
ScaleUpRange(p, current, target) ==
    {c \in Children : c[1] = p /\ current <= c[2] /\ c[2] < target}

\* Mutant: the list is cut one item too late.
ScaleDownChoicesShort(p, current, target) ==
    IF current > target THEN kSubset(current - target - 1, ListNormal(p)) ELSE {{}}

\* Mutant: the list is cut one item too early.
ScaleDownChoicesLong(p, current, target) ==
    IF current > target THEN kSubset(current - target + 1, ListNormal(p)) ELSE {{}}

\* The last current - target items of a list that comes in any order.
ScaleDownChoices(p, current, target) ==
    IF current > target THEN kSubset(current - target, ListNormal(p)) ELSE {{}}

BeginNormal(p) ==
    /\ Take(p)
    /\ seen[p].phase = "live"
    /\ p \notin paused
    /\ LET current == Cardinality(ListNormal(p))
           up == ScaleUpRange(p, current, desired[p])
           begun == [Idle EXCEPT !.old = seen[p], !.new = [seen[p] EXCEPT !.fin = TRUE],
                                 !.target = desired[p]]
       IN  \E down \in ScaleDownChoices(p, current, desired[p]) :
              work' = [work EXCEPT ![p] =
                 [begun EXCEPT !.pc = IF up # {} THEN "scaleUp"
                                      ELSE IF down # {} THEN "scaleDown" ELSE "relist",
                               !.todo = up \union down]]
    /\ UNCHANGED <<pool, seen, paused, desired, asked, child, cache, edits, faults>>

\* One round of a loop over todo is done for c; after the last the next step.
Done(p, c, next) ==
    LET rest == work[p].todo \ {c} IN
    work' = [work EXCEPT ![p].todo = rest,
                         ![p].pc = IF rest = {} THEN next ELSE @]

\* A failed create or delete ends the reconcile; the deferred patch still runs.
Retry(p) == work' = [work EXCEPT ![p].pc = "patchSpec", ![p].todo = {}, ![p].again = TRUE]

\* The child of the loop's current round.
Lowest(todo) == CHOOSE c \in todo : \A d \in todo : c[2] <= d[2]

\* Mutant: the child is created without an owner reference.
CreateUnowned(p, c) ==
    child' = IF Exists(child[c]) THEN child
             ELSE [child EXCEPT ![c] = [phase |-> "new", orphan |-> FALSE]]

\* A new child refers to the pool as read, which may have gone in the meantime or
\* have made room for another of its name.
Create(p, c) ==
    child' = IF Exists(child[c]) THEN child
             ELSE [child EXCEPT ![c] = [phase |-> "new",
                                        orphan |-> pool[p].uid # work[p].old.uid]]

\* Mutant: the name is looked up in the cache, and the next free index is taken.
ScaleUpNextFree(p) ==
    /\ work[p].pc = "scaleUp"
    /\ LET c == Lowest(work[p].todo)
           free == {d \in Children : d[1] = p /\ ~Exists(child[d])}
       IN  /\ IF free = {} THEN UNCHANGED child ELSE Create(p, Lowest(free))
           /\ Done(p, c, "relist")
    /\ UNCHANGED <<pool, seen, paused, desired, asked, cache, queue, edits, faults>>

\* A name the cache shows is skipped; AlreadyExists from Create is as good.
ScaleUp(p) ==
    /\ work[p].pc = "scaleUp"
    /\ LET c == Lowest(work[p].todo) IN
       /\ IF Exists(cache[c]) THEN UNCHANGED child ELSE Create(p, c)
       /\ Done(p, c, "relist")
    /\ UNCHANGED <<pool, seen, paused, desired, asked, cache, queue, edits, faults>>

ScaleDown(p) ==
    /\ work[p].pc = "scaleDown"
    /\ \E c \in work[p].todo :
          /\ child' = [child EXCEPT ![c] = Deleted(@)]
          /\ Done(p, c, "relist")
    /\ UNCHANGED <<pool, seen, paused, desired, asked, cache, queue, edits, faults>>

\* Create or Delete fails, before or after it took effect.
LoopFails(p) ==
    /\ Fault
    /\ \/ /\ work[p].pc = "scaleUp"
          /\ LET c == Lowest(work[p].todo)
             IN  ~Exists(cache[c]) /\ (UNCHANGED child \/ Create(p, c))
       \/ /\ work[p].pc \in {"scaleDown", "deleteChildren"}
          /\ \E c \in work[p].todo :
                child' \in {child, [child EXCEPT ![c] = Deleted(@)]}
    /\ Retry(p)
    /\ UNCHANGED <<pool, seen, paused, desired, asked, cache, queue, edits>>

\* Mutant: a ProviderIDList that is there is not touched again.
RelistOnce(p) ==
    /\ work[p].pc = "relist"
    /\ LET listed == ListNormal(p)
           ids == {c \in listed : HasProviderID(cache[c])}
           ready == ids = listed /\ Cardinality(listed) = work[p].target
       IN  work' = [work EXCEPT
              ![p].pc = "patchSpec", ![p].again = ~ready,
              ![p].new = [@ EXCEPT !.ids = IF @ = {} THEN ids ELSE @,
                                   !.ready = ready, !.count = Cardinality(listed)]]
    /\ UNCHANGED <<pool, seen, paused, desired, asked, child, cache, queue, edits, faults>>

\* The second list, again from the cache, fills in ProviderIDList and status.
Relist(p) ==
    /\ work[p].pc = "relist"
    /\ LET listed == ListNormal(p)
           ids == {c \in listed : HasProviderID(cache[c])}
           ready == ids = listed /\ Cardinality(listed) = work[p].target
       IN  work' = [work EXCEPT
              ![p].pc = "patchSpec", ![p].again = ~ready,
              ![p].new = [@ EXCEPT !.ids = ids, !.ready = ready, !.count = Cardinality(listed)]]
    /\ UNCHANGED <<pool, seen, paused, desired, asked, child, cache, queue, edits, faults>>

-----------------------------------------------------------------------------
(***************************************************************************)
(* reconcileDelete                                                          *)
(***************************************************************************)

\* With nothing listed the finalizer goes, otherwise the listed children do.
BeginDelete(p) ==
    /\ Take(p)
    /\ seen[p].phase = "deleting"
    /\ p \notin paused
    /\ LET listed == ListDelete(p) IN
       work' = [work EXCEPT ![p] =
          [Idle EXCEPT !.pc = IF listed = {} THEN "patchSpec" ELSE "deleteChildren",
                       !.old = seen[p],
                       !.new = [seen[p] EXCEPT !.fin = listed # {}],
                       !.todo = listed,
                       !.again = listed # {}]]
    /\ UNCHANGED <<pool, seen, paused, desired, asked, child, cache, edits, faults>>

DeleteChild(p) ==
    /\ work[p].pc = "deleteChildren"
    /\ \E c \in work[p].todo :
          /\ child' = [child EXCEPT ![c] = Deleted(@)]
          /\ Done(p, c, "patchSpec")
    /\ UNCHANGED <<pool, seen, paused, desired, asked, cache, queue, edits, faults>>

-----------------------------------------------------------------------------
(***************************************************************************)
(* The deferred patch: spec and metadata first, then status                 *)
(***************************************************************************)

\* A merge patch carries only the fields that differ from the copy read.
Merge(stored, old, new) == IF new # old THEN new ELSE stored

SpecChanged(w) == w.new.fin # w.old.fin \/ w.new.ids # w.old.ids
StatusChanged(w) == w.new.ready # w.old.ready \/ w.new.count # w.old.count

SpecMerged(o, w) ==
    [o EXCEPT !.fin = Merge(@, w.old.fin, w.new.fin),
              !.ids = Merge(@, w.old.ids, w.new.ids)]

StatusMerged(o, w) ==
    [o EXCEPT !.ready = Merge(@, w.old.ready, w.new.ready),
              !.count = Merge(@, w.old.count, w.new.count)]

\* A pool goes with its finalizer, and its children are then orphans.
Store(p, o) ==
    IF o.phase = "deleting" /\ ~o.fin
      THEN /\ pool' = [pool EXCEPT ![p] = NoPool]
           /\ child' = [c \in Children |-> IF c[1] = p /\ Exists(child[c])
                                             THEN [child[c] EXCEPT !.orphan = TRUE]
                                             ELSE child[c]]
      ELSE pool' = [pool EXCEPT ![p] = o] /\ UNCHANGED child

PatchSpec(p) ==
    LET w == work[p] IN
    /\ w.pc = "patchSpec"
    /\ IF SpecChanged(w) /\ Exists(pool[p])
         THEN Store(p, SpecMerged(pool[p], w))
         ELSE UNCHANGED <<pool, child>>
    /\ work' = [work EXCEPT ![p].pc = "patchStatus",
                            ![p].again = @ \/ (SpecChanged(w) /\ ~Exists(pool[p]))]
    /\ UNCHANGED <<seen, paused, desired, asked, cache, queue, edits, faults>>

End(p, again) ==
    /\ work' = [work EXCEPT ![p] = Idle]
    /\ queue' = IF again THEN queue \union {p} ELSE queue

PatchStatus(p) ==
    LET w == work[p] IN
    /\ w.pc = "patchStatus"
    /\ IF StatusChanged(w) /\ Exists(pool[p])
         THEN pool' = [pool EXCEPT ![p] = StatusMerged(@, w)]
         ELSE UNCHANGED pool
    /\ End(p, w.again \/ (StatusChanged(w) /\ ~Exists(pool[p])))
    /\ UNCHANGED <<seen, paused, desired, asked, child, cache, edits, faults>>

\* Either half fails on its own, before or after it took effect; the status half
\* is sent anyway.
PatchFails(p) ==
    LET w == work[p] IN
    /\ Fault
    /\ \/ /\ w.pc = "patchSpec"
          /\ SpecChanged(w)
          /\ \/ UNCHANGED <<pool, child>>
             \/ Exists(pool[p]) /\ Store(p, SpecMerged(pool[p], w))
          /\ work' = [work EXCEPT ![p].pc = "patchStatus", ![p].again = TRUE]
          /\ UNCHANGED queue
       \/ /\ w.pc = "patchStatus"
          /\ StatusChanged(w)
          /\ \/ UNCHANGED pool
             \/ Exists(pool[p]) /\ pool' = [pool EXCEPT ![p] = StatusMerged(@, w)]
          /\ UNCHANGED child
          /\ End(p, TRUE)
    /\ UNCHANGED <<seen, paused, desired, asked, cache, edits>>

-----------------------------------------------------------------------------
(***************************************************************************)
(* Informer, workqueue, restarts                                            *)
(***************************************************************************)

\* The children's owner references name no controller, so that Owns() maps
\* their events to nothing: the cache moves on and no pool is enqueued.
Sync(c) ==
    /\ cache[c] # child[c]
    /\ cache' = [cache EXCEPT ![c] = child[c]]
    /\ UNCHANGED <<pool, seen, paused, desired, asked, child, queue, work, edits, faults>>

\* The watch delivers the stored pool to the cache and enqueues it.
SyncPool(p) ==
    /\ seen[p] # pool[p]
    /\ seen' = [seen EXCEPT ![p] = pool[p]]
    /\ queue' = queue \union {p}
    /\ UNCHANGED <<pool, paused, desired, asked, child, cache, work, edits, faults>>

Resync(p) ==
    /\ p \notin queue
    /\ Exists(seen[p])
    /\ queue' = queue \union {p}
    /\ UNCHANGED <<pool, seen, paused, desired, asked, child, cache, work, edits, faults>>

Restart ==
    /\ Fault
    /\ work' = [p \in Pools |-> Idle]
    /\ seen' = pool
    /\ cache' = child
    /\ queue' = {p \in Pools : Exists(pool[p])}
    /\ UNCHANGED <<pool, paused, desired, asked, child, edits>>

-----------------------------------------------------------------------------
(***************************************************************************)
(* Users, Cluster API, the KwokMachine controller and garbage collection    *)
(***************************************************************************)

Ask(p, n) ==
    /\ desired' = [desired EXCEPT ![p] = n]
    /\ asked' = [asked EXCEPT ![p] = Max({@, n})]

\* Also while a reconcile of its namesake is in flight or the cache shows that.
CreatePool(p) ==
    /\ Edit
    /\ ~Exists(pool[p])
    /\ pool' = [pool EXCEPT ![p] = [NoPool EXCEPT !.phase = "live", !.uid = edits']]
    /\ \E n \in Targets : Ask(p, n)
    /\ UNCHANGED <<seen, paused, child, cache, queue, work, faults>>

Pause(p) ==
    /\ Edit
    /\ p \notin paused
    /\ paused' = paused \union {p}
    /\ UNCHANGED <<pool, seen, desired, asked, child, cache, queue, work, faults>>

\* The pool's own annotation goes with an event, the Cluster nobody watches.
Unpause(p) ==
    /\ p \in paused
    /\ paused' = paused \ {p}
    /\ queue' \in {queue, queue \union {p}}
    /\ UNCHANGED <<pool, seen, desired, asked, child, cache, work, edits, faults>>

\* An event of the watched MachinePool.
SetReplicas(p) ==
    /\ Edit
    /\ pool[p].phase = "live"
    /\ \E n \in Targets \ {desired[p]} : Ask(p, n)
    /\ queue' = queue \union {p}
    /\ UNCHANGED <<pool, seen, paused, child, cache, work, faults>>

DeletePool(p) ==
    /\ Edit
    /\ pool[p].phase = "live"
    /\ Store(p, [pool[p] EXCEPT !.phase = "deleting"])
    /\ UNCHANGED <<seen, paused, desired, asked, cache, queue, work, faults>>

\* The KwokMachine controller: provisioning, and the end of a deletion.
Advance(c) ==
    /\ \/ /\ child[c].phase = "new"
          /\ child' = [child EXCEPT ![c].phase = "provisioned"]
       \/ /\ child[c].phase = "deleting"
          /\ child' = [child EXCEPT ![c] = NoChild]
    /\ UNCHANGED <<pool, seen, paused, desired, asked, cache, queue, work, edits, faults>>

\* Somebody else deletes a child, or its Machine.
LoseChild(c) ==
    /\ Fault
    /\ child[c].phase \in {"new", "provisioned"}
    /\ child' = [child EXCEPT ![c] = Deleted(@)]
    /\ UNCHANGED <<pool, seen, paused, desired, asked, cache, queue, work, edits>>

\* Kubernetes deletes what refers to an owner that has gone.
Collect(c) ==
    /\ child[c].orphan
    /\ child[c].phase # "deleting"
    /\ child' = [child EXCEPT ![c] = Deleted(@)]
    /\ UNCHANGED <<pool, seen, paused, desired, asked, cache, queue, work, edits, faults>>

-----------------------------------------------------------------------------

Start(p) == Skip(p) \/ BeginNormal(p) \/ BeginDelete(p)

Progress(p) ==
    \/ ScaleUp(p) \/ ScaleDown(p) \/ Relist(p) \/ DeleteChild(p) \/ LoopFails(p)
    \/ PatchSpec(p) \/ PatchStatus(p) \/ PatchFails(p)

Next ==
    \/ \E p \in Pools : \/ Start(p) \/ Progress(p) \/ Resync(p)
                        \/ SyncPool(p) \/ CreatePool(p)
                        \/ Pause(p) \/ Unpause(p) \/ SetReplicas(p) \/ DeletePool(p)
    \/ \E c \in Children : Sync(c) \/ Advance(c) \/ LoseChild(c) \/ Collect(c)
    \/ Restart

Spec == Init /\ [][Next]_vars

\* The manager works off its queue and its watches deliver; the KwokMachine
\* controller provisions and releases machines (KwokMachine shows under which
\* conditions) and Kubernetes collects orphans.
Fairness ==
    /\ \A p \in Pools : /\ WF_vars(Start(p)) /\ WF_vars(Progress(p))
                       /\ WF_vars(SyncPool(p)) /\ WF_vars(Resync(p))
    /\ \A c \in Children : WF_vars(Sync(c)) /\ WF_vars(Advance(c)) /\ WF_vars(Collect(c))

FairSpec == Spec /\ Fairness

-----------------------------------------------------------------------------
(***************************************************************************)
(* Properties                                                               *)
(***************************************************************************)

ChildrenOf(p) == {c \in Children : c[1] = p /\ Exists(child[c])}

InUse(p) == {c \in ChildrenOf(p) : child[c].phase # "deleting"}

\* However stale the list a reconcile counts, whatever is retried after a lost
\* reply or a restart, a pool never has more children than it was ever asked
\* for, because their names are fixed.
NeverOvershoots ==
    \A p \in Pools : Cardinality(ChildrenOf(p)) <= asked[p]

\* A scale-down may count machines that have gone or are going already, and then
\* deletes some that are wanted, but never sets out to delete more than what the
\* pool was ever asked for beyond its new target.
ScaleDownBounded ==
    \A p \in Pools : work[p].pc = "scaleDown" =>
        Cardinality(work[p].todo) + work[p].target <= asked[p]

\* The children of p are those with the lowest names.
Dense(p) == \A c, d \in Children :
    c[1] = p /\ d[1] = p /\ c[2] < d[2] /\ Exists(child[d]) => Exists(child[c])

Steady(p, n) ==
    pool[p].phase = "live" /\ p \notin paused /\ desired[p] = n

\* A pool whose replicas stay the same and whose children have no gaps in their
\* names becomes Ready for good, with all of them in its ProviderIDList.
EventuallyReady ==
    \A p \in Pools : \A n \in Targets :
        <>[](Steady(p, n) /\ Dense(p) /\ \A c \in ChildrenOf(p) : ~child[c].orphan)
            => <>[](/\ pool[p].ready /\ pool[p].count = n
                    /\ pool[p].ids = InUse(p) /\ Cardinality(InUse(p)) = n)

\* A pool that is asked for fewer replicas for good gets rid of the others.
EventuallyShrinks ==
    \A p \in Pools : \A n \in Targets :
        <>[]Steady(p, n) => <>[](Cardinality(ChildrenOf(p)) <= n)

\* The deletion of a pool ends and nothing of it is left in the end.
EventuallyDeleted ==
    \A p \in Pools :
        /\ ~ <>[](pool[p].phase = "deleting" /\ p \notin paused)
        /\ <>[](~Exists(pool[p])) => <>[](ChildrenOf(p) = {})

(***************************************************************************)
(* The inductive invariant behind NeverOvershoots and ScaleDownBounded       *)
(***************************************************************************)

\* The index of a child, stored or shown by the informer, is below what its pool
\* was asked for, and so is that of any child a reconcile is about to create.
\* What a scale-down deletes it has counted.
Bounded ==
    /\ \A p \in Pools : desired[p] <= asked[p]
    /\ \A c \in Children : Exists(child[c]) => c[2] < asked[c[1]]
    /\ \A c \in Children : Exists(cache[c]) => c[2] < asked[c[1]]
    /\ \A p \in Pools : work[p].pc = "scaleUp" =>
          /\ work[p].todo # {}
          /\ \A c \in work[p].todo : c[1] = p /\ c[2] < asked[p]
    /\ \A p \in Pools : work[p].pc = "scaleDown" =>
          /\ \A c \in work[p].todo : c[1] = p
          /\ Cardinality(work[p].todo) + work[p].target <= asked[p]

\* What a reconcile of p may create or delete: the children of p and, because a
\* deletion lists by the name of the KwokMachinePool, those of any pool whose
\* MachinePool has that name.
Reach(p) == {c \in Children : c[1] = p \/ OwnerName[c[1]] = KwokName[p]}

\* A reconcile touches no child out of its reach: as long as no MachinePool has
\* the name of another's KwokMachinePool, no child but its own.
StaysInReach ==
    [][\A p \in Pools : \A c \in Children \ Reach(p) : Progress(p) => child'[c] = child[c]]_vars

(***************************************************************************)
(* Claims of the repository that the code does not keep                     *)
(***************************************************************************)

\* "Scale up: create missing KwokMachine objects".
MissingAreCreated ==
    \A p \in Pools : \A n \in Targets :
        <>[]Steady(p, n) => []<>(Cardinality(ChildrenOf(p)) >= n)

\* "Scale down: delete excess KwokMachines": no step of the scale-down leaves
\* fewer machines in use than its reconcile aims at.
OnlyExcessDeleted ==
    [][\A p \in Pools :
          ScaleDown(p) /\ Cardinality(InUse(p)) >= work[p].target
              => Cardinality(InUse(p)') >= work[p].target]_vars

\* "Wait for all children to be gone": a pool goes after the children that the
\* informer has shown all along.
ChildrenGoFirst ==
    [][\A p \in Pools :
          pool[p].phase = "deleting" /\ ~Exists(pool'[p])
              => \E c \in Children : cache[c] # child[c] \/ ChildrenOf(p) = {}]_vars
=============================================================================
