---------------------------- MODULE KwokHeartbeat ----------------------------
(***************************************************************************)
(* The heartbeat of provisioned KwokMachines, with time: a renewal writes   *)
(* the Lease of the Node, which lasts Duration, and asks to be called again *)
(* after Period (kwokmachine_controller.go: 40 and 30 seconds).  Whether a  *)
(* Lease outlives the time to its next renewal depends on the other         *)
(* machines too: they share Concurrency workers and one first-in-first-out  *)
(* workqueue, and nothing in the code relates the numbers to each other.    *)
(*                                                                          *)
(* A unit of time is whatever the constants are given in.  Steps take no    *)
(* time; Tick passes one unit and waits for what is due at once: a timer    *)
(* that has run out, a free worker with a queued machine, and a reconcile   *)
(* that has used up Latency.  KwokMachine models the calls of a reconcile   *)
(* one by one, without time; here they are the part before the Lease, the   *)
(* Lease, and the deferred patch.                                           *)
(***************************************************************************)
EXTENDS Integers, Sequences, FiniteSets

CONSTANTS
    Machines,      \* KwokMachines of one unpaused or paused Cluster
    Concurrency,   \* --machine-concurrency
    Period,        \* RequeueAfter of a renewal
    Duration,      \* leaseDurationSeconds
    ResyncPeriod,  \* --sync-period
    Latency,       \* most a reconcile takes, all calls together
    Backoff,       \* longest the workqueue puts off a reconcile that failed
    MaxFaults      \* bound on failures, restarts and Nodes deleted by others

ASSUME MachinesAssumption == IsFiniteSet(Machines) /\ Machines # {}
ASSUME ConcurrencyAssumption == Concurrency \in Nat \ {0}
ASSUME TimesAssumption ==
    /\ Period \in Nat \ {0}
    /\ Duration \in Nat
    /\ ResyncPeriod \in Nat \ {0}
    /\ Latency \in 1 .. ResyncPeriod
    /\ Backoff \in Nat
ASSUME FaultsAssumption == MaxFaults \in Nat

VARIABLES
    life,     \* how far each machine is
    queue,    \* the workqueue
    timer,    \* time to the delayed requeue of each machine
    work,     \* the reconcile in flight of each machine
    age,      \* time since the renewTime of its Lease
    beating,  \* history: machines renewed, and not dropped since
    misses,   \* history: renewals that failed since the last that succeeded
    due,      \* machines the informer is about to enqueue
    resync,   \* time to the next resync
    up,       \* does the manager run?
    paused,   \* Cluster.spec.paused
    calm,     \* history: how long it has run, unpaused and without a failure
    faults    \* failures so far

machineVars == <<life, age, beating, misses>>
managerVars == <<queue, timer, work, due, resync>>
vars == <<machineVars, managerVars, up, paused, calm, faults>>

Least(a, b) == IF a <= b THEN a ELSE b

\* What n reconciles take at most, one after the other.
Turns(n) == n * Latency

\* From one renewal to the next at most: the requeue, then a turn of every
\* machine in the queue.
Cycle == Period + Turns(Cardinality(Machines))

\* Where the count of an age stops: beyond what MaxFaults misses can do.
\* A Lease that is not there yet is that old.
Old == (MaxFaults + 1) * Cycle + Latency + 1

\* A calm manager has by then renewed every Lease, whatever was before.
Recovery == ResyncPeriod + Turns(Cardinality(Machines)) + 1

NoTimer == -1

\* A requeue is delayed by Period, or by a backoff.
Longest == IF Period <= Backoff THEN Backoff ELSE Period

\* A machine has its bootstrap data, or its ProviderID too, or has lost its Node
\* to somebody else.  One that waits for bootstrap data takes no time.
Lives == {"booted", "provisioned", "nodeless"}

\* spent is the time the reconcile has taken, stamp the time since it took now
\* for renewTime, again the workqueue's mark that the machine was added meanwhile.
Works == [pc : {"idle", "node", "lease", "patch"}, spent : 0 .. Latency,
          stamp : 0 .. Latency, again : BOOLEAN]

Idle == [pc |-> "idle", spent |-> 0, stamp |-> 0, again |-> FALSE]

Queued == {queue[i] : i \in DOMAIN queue}
Busy == {m \in Machines : work[m].pc # "idle"}
Free == Cardinality(Busy) < Concurrency

TypeOK ==
    /\ life \in [Machines -> Lives]
    /\ queue \in Seq(Machines)
    /\ timer \in [Machines -> NoTimer .. Longest]
    /\ work \in [Machines -> Works]
    /\ age \in [Machines -> 0 .. Old]
    /\ beating \in SUBSET Machines
    /\ misses \in [Machines -> 0 .. MaxFaults]
    /\ due \in SUBSET Machines
    /\ resync \in 1 .. ResyncPeriod
    /\ up \in BOOLEAN
    /\ paused \in BOOLEAN
    /\ calm \in 0 .. Recovery
    /\ faults \in 0 .. MaxFaults

\* The manager starts: it remembers nothing, and its informer lists every machine.
Init ==
    /\ life \in [Machines -> {"booted", "provisioned"}]
    /\ queue = <<>>
    /\ timer = [m \in Machines |-> NoTimer]
    /\ work = [m \in Machines |-> Idle]
    /\ age = [m \in Machines |-> Old]
    /\ beating = {}
    /\ misses = [m \in Machines |-> 0]
    /\ due = Machines
    /\ resync = ResyncPeriod
    /\ up = TRUE
    /\ paused = FALSE
    /\ calm = 0
    /\ faults = 0

Fault ==
    /\ faults < MaxFaults
    /\ faults' = faults + 1
    /\ calm' = 0

-----------------------------------------------------------------------------
(***************************************************************************)
(* The workqueue                                                            *)
(***************************************************************************)

\* Mutant: what is added last is taken first.
AddFirst(m) ==
    /\ queue' = IF m \in Busy \union Queued THEN queue ELSE <<m>> \o queue
    /\ work' = IF m \in Busy THEN [work EXCEPT ![m].again = TRUE] ELSE work

\* Add: a machine that is queued is not queued twice, and one in a reconcile
\* is only marked.
Add(m) ==
    /\ queue' = IF m \in Busy \union Queued THEN queue ELSE Append(queue, m)
    /\ work' = IF m \in Busy THEN [work EXCEPT ![m].again = TRUE] ELSE work

\* Done: the worker is free, and the machine is queued again if it was marked.
Done(m) ==
    /\ work' = [work EXCEPT ![m] = Idle]
    /\ queue' = IF work[m].again THEN Append(queue, m) ELSE queue

\* AddAfter: of two delayed requeues of a machine the earlier one stays.
Sooner(m, delay) == IF timer[m] = NoTimer THEN delay ELSE Least(timer[m], delay)

\* A delayed requeue is due.
Fire(m) ==
    /\ timer[m] = 0
    /\ timer' = [timer EXCEPT ![m] = NoTimer]
    /\ Add(m)
    /\ UNCHANGED <<machineVars, due, resync, up, paused, calm, faults>>

\* The informer enqueues a machine it lists at the start or at a resync.
Deliver(m) ==
    /\ m \in due
    /\ due' = due \ {m}
    /\ Add(m)
    /\ UNCHANGED <<machineVars, timer, resync, up, paused, calm, faults>>

\* A change of the KwokMachine or its Machine, at any time.
Event(m) ==
    /\ up
    /\ Add(m)
    /\ UNCHANGED <<machineVars, timer, due, resync, up, paused, calm, faults>>

-----------------------------------------------------------------------------
(***************************************************************************)
(* A reconcile                                                              *)
(***************************************************************************)

\* A free worker takes the head of the queue.
Take(m) ==
    /\ queue # <<>>
    /\ m = Head(queue)
    /\ Free
    /\ queue' = Tail(queue)

\* Paused: it ends at once and asks for nothing.  Without a requeue left from
\* before, the heartbeat stops.
Skip(m) ==
    /\ Take(m)
    /\ paused
    /\ beating' = IF timer[m] = NoTimer THEN beating \ {m} ELSE beating
    /\ UNCHANGED <<life, age, misses, timer, work, due, resync, up, paused, calm, faults>>

Begin(m) ==
    /\ Take(m)
    /\ ~paused
    /\ work' = [work EXCEPT ![m] = [Idle EXCEPT !.pc = "node"]]
    /\ UNCHANGED <<machineVars, timer, due, resync, up, paused, calm, faults>>

\* The client, the Node and its status are done with: ensureNodeLease takes the
\* time.  A Node that somebody deleted ends the renewal without a word.
ReadTime(m) ==
    /\ work[m].pc = "node"
    /\ work' = [work EXCEPT ![m].pc = IF life[m] = "nodeless" THEN "patch" ELSE "lease",
                            ![m].stamp = 0]
    /\ UNCHANGED <<machineVars, queue, timer, due, resync, up, paused, calm, faults>>

\* Get, then Create or Update.
WriteLease(m) ==
    /\ work[m].pc = "lease"
    /\ age' = [age EXCEPT ![m] = work[m].stamp]
    /\ beating' = beating \union {m}
    /\ misses' = [misses EXCEPT ![m] = 0]
    /\ work' = [work EXCEPT ![m].pc = "patch"]
    /\ UNCHANGED <<life, queue, timer, due, resync, up, paused, calm, faults>>

\* Mutant: the next renewal is asked for when the Lease ends.
FinishByDuration(m) ==
    /\ work[m].pc = "patch"
    /\ Done(m)
    /\ life' = [life EXCEPT ![m] = IF @ = "booted" THEN "provisioned" ELSE @]
    /\ timer' = [timer EXCEPT ![m] = Sooner(m, Duration)]
    /\ UNCHANGED <<age, beating, misses, due, resync, up, paused, calm, faults>>

\* Mutant: the next renewal is asked for one unit late.
FinishLate(m) ==
    /\ work[m].pc = "patch"
    /\ Done(m)
    /\ life' = [life EXCEPT ![m] = IF @ = "booted" THEN "provisioned" ELSE @]
    /\ timer' = [timer EXCEPT ![m] = Sooner(m, Period + 1)]
    /\ UNCHANGED <<age, beating, misses, due, resync, up, paused, calm, faults>>

\* The deferred patch stores the ProviderID of a new machine, and the result
\* asks to be called again, after a renewal that failed as well.
Finish(m) ==
    /\ work[m].pc = "patch"
    /\ Done(m)
    /\ life' = [life EXCEPT ![m] = IF @ = "booted" THEN "provisioned" ELSE @]
    /\ timer' = [timer EXCEPT ![m] = Sooner(m, Period)]
    /\ UNCHANGED <<age, beating, misses, due, resync, up, paused, calm, faults>>

\* renewHeartbeat fails; reconcileNormal logs it and goes on.
RenewalFails(m) ==
    /\ life[m] = "provisioned"
    /\ work[m].pc \in {"node", "lease"}
    /\ Fault
    /\ misses' = [misses EXCEPT ![m] = @ + 1]
    /\ work' = [work EXCEPT ![m].pc = "patch"]
    /\ UNCHANGED <<life, age, beating, queue, timer, due, resync, up, paused>>

\* Provisioning fails before the Lease, or the patch after it does, before or
\* after it took effect.  The error is retried with a backoff that grows with the
\* errors in a row, from milliseconds to 1000 seconds; here it is anything up to
\* the longest.  One that outlasts Period drops the heartbeat.
ProvisioningFails(m) ==
    /\ life[m] = "booted"
    /\ work[m].pc # "idle"
    /\ Fault
    /\ Done(m)
    /\ \E delay \in 0 .. Backoff : timer' = [timer EXCEPT ![m] = Sooner(m, delay)]
    /\ beating' = IF timer'[m] > Period THEN beating \ {m} ELSE beating
    /\ IF work[m].pc = "patch"
         THEN /\ life' \in {life, [life EXCEPT ![m] = "provisioned"]}
              /\ UNCHANGED misses
         ELSE /\ misses' = [misses EXCEPT ![m] = @ + 1]
              /\ UNCHANGED life
    /\ UNCHANGED <<age, due, resync, up, paused>>

-----------------------------------------------------------------------------
(***************************************************************************)
(* Time, restarts and the rest of the world                                 *)
(***************************************************************************)

Urgent ==
    \/ due # {}
    \/ \E m \in Machines : timer[m] = 0
    \/ queue # <<>> /\ Free
    \/ \E m \in Busy : work[m].spent = Latency

Aged(w) == [w EXCEPT !.spent = @ + 1, !.stamp = Least(@ + 1, Latency)]

\* Mutant: the cache is not given --sync-period.
NeverResynced == {}

\* The resync enqueues every machine once its period is over.
Resynced == IF up /\ resync = 1 THEN Machines ELSE {}

Tick ==
    /\ ~Urgent
    /\ age' = [m \in Machines |-> Least(age[m] + 1, Old)]
    /\ timer' = [m \in Machines |-> IF timer[m] = NoTimer THEN NoTimer ELSE timer[m] - 1]
    /\ work' = [m \in Machines |-> IF m \in Busy THEN Aged(work[m]) ELSE work[m]]
    /\ resync' = IF ~up THEN resync ELSE IF resync = 1 THEN ResyncPeriod ELSE resync - 1
    /\ due' = Resynced
    /\ calm' = IF up /\ ~paused THEN Least(calm + 1, Recovery) ELSE 0
    /\ UNCHANGED <<life, beating, misses, queue, up, paused, faults>>

\* The manager stops, and with it its queue, its timers and its reconciles.
Crash ==
    /\ up
    /\ Fault
    /\ up' = FALSE
    /\ queue' = <<>>
    /\ timer' = [m \in Machines |-> NoTimer]
    /\ work' = [m \in Machines |-> Idle]
    /\ due' = {}
    /\ beating' = {}
    /\ resync' = ResyncPeriod
    /\ UNCHANGED <<life, age, misses, paused>>

Restart ==
    /\ ~up
    /\ up' = TRUE
    /\ due' = Machines
    /\ calm' = 0
    /\ UNCHANGED <<machineVars, queue, timer, work, resync, paused, faults>>

\* The Cluster is not watched: nothing is enqueued.
SetPaused ==
    /\ paused' = ~paused
    /\ calm' = 0
    /\ UNCHANGED <<machineVars, managerVars, up, faults>>

\* Somebody deletes the Node, after which its Lease is not renewed.
RemoveNode(m) ==
    /\ life[m] = "provisioned"
    /\ Fault
    /\ life' = [life EXCEPT ![m] = "nodeless"]
    /\ beating' = beating \ {m}
    /\ UNCHANGED <<age, misses, managerVars, up, paused>>

-----------------------------------------------------------------------------

Reconcile(m) ==
    \/ Skip(m) \/ Begin(m) \/ ReadTime(m) \/ WriteLease(m) \/ Finish(m)
    \/ RenewalFails(m) \/ ProvisioningFails(m)

Next ==
    \/ \E m \in Machines :
          Fire(m) \/ Deliver(m) \/ Event(m) \/ Reconcile(m) \/ RemoveNode(m)
    \/ Tick \/ Crash \/ Restart \/ SetPaused

Spec == Init /\ [][Next]_vars

-----------------------------------------------------------------------------
(***************************************************************************)
(* Properties                                                               *)
(***************************************************************************)

\* A machine whose heartbeat goes on: renewed, not dropped since by a pause, a
\* restart of the manager or a backoff longer than the requeue, and with its Node
\* in place.
Beats(m) == m \in beating /\ life[m] # "nodeless"

\* Every miss costs one more cycle, whatever the other machines do: the age of a
\* Lease is bounded by the number of renewals that failed in a row.
LeaseAgeBounded ==
    \A m \in Machines : Beats(m) => age[m] <= (misses[m] + 1) * Cycle + Latency

\* "Refresh the node heartbeat and lease to keep it Ready": while every renewal
\* succeeds no Lease expires, provided that the slack between the two numbers in
\* the code leaves room for a reconcile of every machine and one more.
LeaseKeptAlive ==
    Cycle + Latency <= Duration =>
        \A m \in Machines : Beats(m) /\ misses[m] = 0 => age[m] <= Duration

\* Once the manager has run for a resync and a turn of the queue, unpaused and
\* without a failure, every provisioned machine has been renewed, whatever was
\* lost in a pause, a restart or by failed renewals before.
HeartbeatRecovers ==
    calm = Recovery =>
        \A m \in Machines :
            life[m] = "provisioned" => m \in beating /\ misses[m] = 0

(***************************************************************************)
(* The inductive invariant behind them                                      *)
(***************************************************************************)

\* Position i is reached within bound of a clock that shows t now, even if the
\* reconciles in flight and all those ahead of it take as long as they may.
Reached(i, t, bound) ==
    /\ t + Turns(i - 1) <= bound
    /\ \A b \in Busy : t + (Latency - work[b].spent) + Turns(i - 1) <= bound

\* A machine is in at most one place.
QueueCoherent ==
    /\ \A i, j \in DOMAIN queue : queue[i] = queue[j] => i = j
    /\ Queued \intersect Busy = {}

\* Every miss is a fault.
MissesCounted == \A m \in Machines : misses[m] <= faults

\* A reconcile takes the time after it began, and only a machine in a reconcile
\* is marked.
WorkCoherent(m) ==
    /\ work[m].stamp <= work[m].spent
    /\ work[m].again => m \in Busy

\* A machine that beats has its next reconcile ahead of it, and is this close to
\* it wherever it is: waiting for its requeue, queued, or in a reconcile.  A long
\* backoff can be left only until that reconcile asks for its own requeue.
BeatCoherent(m) ==
    Beats(m) =>
        LET missed == misses[m] * Cycle IN
        /\ timer[m] # NoTimer /\ work[m].pc # "patch" =>
              age[m] + timer[m] <= missed + Period + Latency
        /\ timer[m] = NoTimer => m \in Queued \union Busy
        /\ \A i \in DOMAIN queue : queue[i] = m => Reached(i, age[m], missed + Cycle)
        /\ work[m].pc \in {"node", "lease"} => age[m] <= missed + Cycle + work[m].spent
        /\ work[m].pc = "patch" => age[m] <= missed + work[m].spent

Settled(m) == m \in beating /\ misses[m] = 0

Lagging(m) == life[m] = "provisioned" /\ ~Settled(m) /\ up /\ ~paused

\* It is on its way to a renewal.
Underway(m) == m \in Queued \/ work[m].pc \in {"node", "lease"}

\* A machine that has lost its heartbeat gets it back from the resync at the
\* latest, and is this close to it.
CalmCoherent(m) ==
    /\ life[m] = "booted" /\ work[m].pc = "patch" => Settled(m)
    /\ Lagging(m) =>
          LET queued == ResyncPeriod + Turns(Cardinality(Machines) - 1) IN
          /\ \/ calm + resync <= ResyncPeriod
             \/ m \in due
             \/ Underway(m)
             \/ work[m].again
          /\ m \in due /\ ~Underway(m) => calm <= ResyncPeriod
          /\ \A i \in DOMAIN queue : queue[i] = m => Reached(i, calm, queued)
          /\ work[m].pc \in {"node", "lease"} => calm <= queued + work[m].spent
          /\ work[m].pc = "patch" => calm <= work[m].spent

Coherent ==
    /\ MissesCounted
    /\ QueueCoherent
    /\ calm > 0 => up /\ ~paused
    /\ \A m \in Machines : WorkCoherent(m) /\ BeatCoherent(m) /\ CalmCoherent(m)
=============================================================================
