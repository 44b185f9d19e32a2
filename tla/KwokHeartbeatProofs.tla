------------------------ MODULE KwokHeartbeatProofs ------------------------
(***************************************************************************)
(* Proofs about KwokHeartbeat, for any finite set of machines, any number   *)
(* of workers, any periods and durations and any number of failures: the    *)
(* age of every Lease is bounded, Leases are kept alive when the numbers    *)
(* leave room for it, and a calm manager recovers every heartbeat.          *)
(***************************************************************************)
EXTENDS KwokHeartbeat, FiniteSetTheorems, TLAPS

-----------------------------------------------------------------------------
(***************************************************************************)
(* Arithmetic of the constants                                              *)
(***************************************************************************)

K == Cardinality(Machines)

\* There is a machine, and they are finitely many.
LEMMA SomeMachines == K \in Nat \ {0}
BY MachinesAssumption, FS_CardinalityType, FS_EmptySet DEF K

\* The types of the constants.
LEMMA Times ==
    /\ Period \in Nat \ {0} /\ Duration \in Nat /\ MaxFaults \in Nat
    /\ ResyncPeriod \in Nat \ {0} /\ Latency \in Nat \ {0} /\ Latency <= ResyncPeriod
    /\ Backoff \in Nat
BY TimesAssumption, FaultsAssumption

\* No delay is longer than the longest.
LEMMA LongestType == Longest \in Nat /\ Period <= Longest /\ Backoff <= Longest
BY Times DEF Longest

\* Turns is linear and grows.
LEMMA TurnsType == \A n \in Int : Turns(n) \in Int
BY Times DEF Turns

\* One more turn takes one more latency.
LEMMA TurnsNext == \A n \in Int : Turns(n + 1) = Turns(n) + Latency
BY Times DEF Turns

\* More turns take no less time.
LEMMA TurnsGrow == \A i, j \in Int : i <= j => Turns(i) <= Turns(j)
<1> SUFFICES ASSUME NEW i \in Int, NEW j \in Int, i <= j
             PROVE  i * Latency <= j * Latency
  BY DEF Turns
<1>1. (j - i) * Latency >= 0
  BY Times
<1>2. (j - i) * Latency = j * Latency - i * Latency
  BY Times
<1> QED
  BY <1>1, <1>2, Times

\* The derived times are natural numbers.
LEMMA CycleType == Turns(0) = 0 /\ Turns(K - 1) \in Nat /\ Cycle \in Nat
                   /\ Cycle = Period + Turns(K - 1) + Latency
<1>1. Turns(0) = 0
  BY Times DEF Turns
<1>2. Turns(0) <= Turns(K - 1) /\ Turns(K - 1) \in Int
  BY TurnsGrow, TurnsType, SomeMachines
<1>3. Turns((K - 1) + 1) = Turns(K - 1) + Latency
  BY TurnsNext, SomeMachines
<1>4. (K - 1) + 1 = K
  BY SomeMachines
<1> QED
  BY <1>1, <1>2, <1>3, <1>4, Times DEF Cycle, K

\* A miss costs one more cycle.
LEMMA MissedNext ==
    /\ 0 * Cycle = 0
    /\ \A n \in Nat : n * Cycle \in Nat /\ (n + 1) * Cycle = n * Cycle + Cycle
<1>1. Cycle \in Nat
  BY CycleType
<1>2. \A n \in Nat : n * Cycle \in Nat
  BY <1>1
<1>3. \A n \in Nat : (n + 1) * Cycle = n * Cycle + Cycle
  BY <1>1
<1> QED
  BY <1>1, <1>2, <1>3

\* An age stops beyond a reconcile.
LEMMA OldType == Old \in Nat /\ Latency < Old
<1>1. (MaxFaults + 1) * Cycle = MaxFaults * Cycle + Cycle /\ MaxFaults * Cycle \in Nat
  BY MissedNext, Times
<1> QED
  BY <1>1, CycleType, Times DEF Old

\* When a calm manager has recovered, turn by turn.
LEMMA RecoveryType == Recovery \in Nat /\ Recovery = ResyncPeriod + Turns(K - 1) + Latency + 1
<1>1. Turns((K - 1) + 1) = Turns(K - 1) + Latency /\ (K - 1) + 1 = K
  BY TurnsNext, SomeMachines
<1> QED
  BY <1>1, CycleType, Times DEF Recovery, K

-----------------------------------------------------------------------------
(***************************************************************************)
(* Types                                                                    *)
(***************************************************************************)

\* The types of what a reconcile is changed to.
LEMMA WorkTypes ==
    /\ Idle \in Works
    /\ [Idle EXCEPT !.pc = "node"] \in Works
    /\ \A w \in Works, pc \in {"idle", "node", "lease", "patch"} :
          /\ [w EXCEPT !.again = TRUE] \in Works
          /\ [w EXCEPT !.pc = pc] \in Works
          /\ [w EXCEPT !.pc = pc, !.stamp = 0] \in Works
    /\ \A w \in Works : w.spent < Latency => Aged(w) \in Works
<1>0. 0 \in 0 .. Latency
  BY Times
<1>1. Idle \in Works
  BY <1>0 DEF Works, Idle
<1>2. [Idle EXCEPT !.pc = "node"] \in Works
  BY <1>0 DEF Works, Idle
<1>3. ASSUME NEW w \in Works, NEW pc \in {"idle", "node", "lease", "patch"}
      PROVE  /\ [w EXCEPT !.again = TRUE] \in Works
             /\ [w EXCEPT !.pc = pc] \in Works
             /\ [w EXCEPT !.pc = pc, !.stamp = 0] \in Works
  BY <1>0 DEF Works
<1>4. ASSUME NEW w \in Works, w.spent < Latency PROVE Aged(w) \in Works
  <2>1. w.spent + 1 \in 0 .. Latency /\ Least(w.stamp + 1, Latency) \in 0 .. Latency
    BY <1>4, Times DEF Works, Least
  <2> QED
    BY <2>1 DEF Works, Aged
<1> QED
  BY <1>1, <1>2, <1>3, <1>4

\* What Add and Done leave of the queue and of the reconciles.
LEMMA AddType ==
    ASSUME TypeOK, NEW m \in Machines
    PROVE  /\ Add(m) => queue' \in Seq(Machines) /\ work' \in [Machines -> Works]
           /\ Done(m) => queue' \in Seq(Machines) /\ work' \in [Machines -> Works]
<1>1. queue \in Seq(Machines) /\ work \in [Machines -> Works] /\ work[m] \in Works
  BY DEF TypeOK
<1>2. Append(queue, m) \in Seq(Machines)
  BY <1>1
<1> QED
  BY <1>1, <1>2, WorkTypes DEF Add, Done

\* A worker that takes the head leaves a queue of machines.
LEMMA TakeType ==
    ASSUME TypeOK, NEW m \in Machines, Take(m)
    PROVE  queue' \in Seq(Machines)
BY DEF TypeOK, Take

\* The earlier of two requeues is one of them.
LEMMA SoonerType ==
    ASSUME TypeOK, NEW m \in Machines
    PROVE  /\ Sooner(m, Period) \in 0 .. Period
           /\ \A delay \in 0 .. Backoff : Sooner(m, delay) \in 0 .. Longest
BY Times, LongestType DEF TypeOK, Sooner, Least, NoTimer

\* The initial states are of their types.
LEMMA InitTypeOK == Init => TypeOK
<1> SUFFICES ASSUME Init PROVE TypeOK
  OBVIOUS
<1>1. timer \in [Machines -> NoTimer .. Longest]
  BY LongestType DEF Init, NoTimer
<1>2. age \in [Machines -> 0 .. Old] /\ misses \in [Machines -> 0 .. MaxFaults]
  BY OldType, Times DEF Init
<1>3. resync \in 1 .. ResyncPeriod /\ calm \in 0 .. Recovery /\ faults \in 0 .. MaxFaults
  BY RecoveryType, Times DEF Init
<1>4. work \in [Machines -> Works] /\ life \in [Machines -> Lives]
  BY WorkTypes DEF Init, Lives
<1>5. queue \in Seq(Machines)
  BY DEF Init
<1> QED
  BY <1>1, <1>2, <1>3, <1>4, <1>5 DEF Init, TypeOK

\* A fault may count as a miss.
LEMMA MissType ==
    ASSUME TypeOK, MissesCounted, Fault, NEW m \in Machines,
           misses' = misses \/ misses' = [misses EXCEPT ![m] = @ + 1]
    PROVE  misses' \in [Machines -> 0 .. MaxFaults] /\ MissesCounted'
<1>1. faults \in Nat /\ faults + 1 <= MaxFaults /\ faults' = faults + 1
  <2>1. faults \in 0 .. MaxFaults
    BY DEF TypeOK
  <2> QED
    BY <2>1, Times DEF Fault
<1>2. \A n \in Machines : misses[n] \in Nat /\ misses[n] <= faults
  <2>1. \A n \in Machines : misses[n] \in 0 .. MaxFaults
    BY DEF TypeOK
  <2> QED
    BY <2>1, Times DEF MissesCounted
<1>3. misses[m] + 1 \in 0 .. MaxFaults /\ misses[m] + 1 <= faults + 1
  <2> DEFINE k == misses[m]
  <2>1. k \in Nat /\ k <= faults
    BY <1>2
  <2>2. k + 1 \in 0 .. MaxFaults /\ k + 1 <= faults + 1
    <3> HIDE DEF k
    <3> QED
      BY <1>1, <2>1, Times
  <2> QED
    BY <2>2
<1>4. misses' \in [Machines -> 0 .. MaxFaults]
  BY <1>3 DEF TypeOK
<1>5. \A n \in Machines : misses'[n] = misses[n] \/ misses'[n] <= faults + 1
  BY <1>3 DEF TypeOK
<1>6. \A n \in Machines : misses'[n] <= faults + 1
  BY <1>1, <1>2, <1>5
<1> QED
  BY <1>1, <1>4, <1>6 DEF MissesCounted

\* Every step keeps every type.
LEMMA StepTypeOK ==
    ASSUME TypeOK, MissesCounted, [Next]_vars
    PROVE  TypeOK' /\ MissesCounted'
<1> USE DEF TypeOK, MissesCounted
<1>f. Fault => faults' \in 0 .. MaxFaults /\ calm' \in 0 .. Recovery /\ faults < MaxFaults
               /\ faults' = faults + 1
  BY Times, RecoveryType DEF Fault
<1>1. ASSUME NEW m \in Machines, Fire(m) \/ Deliver(m) \/ Event(m)
      PROVE  TypeOK' /\ MissesCounted'
  <2>1. queue' \in Seq(Machines) /\ work' \in [Machines -> Works]
    BY <1>1, AddType DEF Fire, Deliver, Event
  <2>2. timer' \in [Machines -> NoTimer .. Longest]
    BY <1>1, LongestType DEF Fire, Deliver, Event, NoTimer
  <2> QED
    BY <1>1, <2>1, <2>2 DEF Fire, Deliver, Event, machineVars
<1>2. ASSUME NEW m \in Machines, Skip(m) \/ Begin(m) PROVE TypeOK' /\ MissesCounted'
  <2>1. queue' \in Seq(Machines) /\ work' \in [Machines -> Works]
    BY <1>2, TakeType, WorkTypes DEF Skip, Begin
  <2>2. beating' \in SUBSET Machines
    BY <1>2 DEF Skip, Begin, machineVars
  <2> QED
    BY <1>2, <2>1, <2>2 DEF Skip, Begin, machineVars
<1>3. ASSUME NEW m \in Machines, ReadTime(m) PROVE TypeOK' /\ MissesCounted'
  <2>1. work' \in [Machines -> Works]
    BY <1>3, WorkTypes DEF ReadTime
  <2> QED
    BY <1>3, <2>1 DEF ReadTime, machineVars
<1>4. ASSUME NEW m \in Machines, WriteLease(m) PROVE TypeOK' /\ MissesCounted'
  <2>1. work' \in [Machines -> Works]
    BY <1>4, WorkTypes DEF WriteLease
  <2>2. work[m].stamp \in 0 .. Old
    BY OldType, Times DEF Works
  <2> QED
    BY <1>4, <2>1, <2>2, Times DEF WriteLease
<1>5. ASSUME NEW m \in Machines, Finish(m) PROVE TypeOK' /\ MissesCounted'
  <2>1. queue' \in Seq(Machines) /\ work' \in [Machines -> Works]
    BY <1>5, AddType DEF Finish
  <2>2. timer' \in [Machines -> NoTimer .. Longest]
    <3>1. Sooner(m, Period) \in NoTimer .. Longest
      BY SoonerType, LongestType, Times DEF NoTimer
    <3> QED
      BY <1>5, <3>1 DEF Finish
  <2>3. life' \in [Machines -> Lives]
    BY <1>5 DEF Finish, Lives
  <2> QED
    BY <1>5, <2>1, <2>2, <2>3 DEF Finish
<1>6. ASSUME NEW m \in Machines, RenewalFails(m) PROVE TypeOK' /\ MissesCounted'
  <2>1. work' \in [Machines -> Works]
    BY <1>6, WorkTypes DEF RenewalFails
  <2>2. misses' \in [Machines -> 0 .. MaxFaults] /\ MissesCounted'
    BY <1>6, MissType DEF RenewalFails
  <2> QED
    BY <1>6, <1>f, <2>1, <2>2 DEF RenewalFails
<1>7. ASSUME NEW m \in Machines, ProvisioningFails(m) PROVE TypeOK' /\ MissesCounted'
  <2>1. queue' \in Seq(Machines) /\ work' \in [Machines -> Works]
    BY <1>7, AddType DEF ProvisioningFails
  <2>2. misses' \in [Machines -> 0 .. MaxFaults] /\ MissesCounted'
    BY <1>7, MissType DEF ProvisioningFails
  <2>3. timer' \in [Machines -> NoTimer .. Longest]
    <3>1. PICK delay \in 0 .. Backoff : timer' = [timer EXCEPT ![m] = Sooner(m, delay)]
      BY <1>7 DEF ProvisioningFails
    <3>2. Sooner(m, delay) \in NoTimer .. Longest
      BY SoonerType, LongestType DEF NoTimer
    <3> QED
      BY <3>1, <3>2
  <2>4. life' \in [Machines -> Lives] /\ beating' \in SUBSET Machines
    BY <1>7 DEF ProvisioningFails, Lives
  <2> QED
    BY <1>7, <1>f, <2>1, <2>2, <2>3, <2>4 DEF ProvisioningFails
<1>8. ASSUME NEW m \in Machines, RemoveNode(m) PROVE TypeOK' /\ MissesCounted'
  <2>1. life' \in [Machines -> Lives]
    BY <1>8 DEF RemoveNode, Lives
  <2> QED
    BY <1>8, <1>f, <2>1, Times DEF RemoveNode, managerVars
<1>9. CASE Tick
  <2>1. age' \in [Machines -> 0 .. Old]
    BY <1>9, OldType DEF Tick, Least
  <2>2. timer' \in [Machines -> NoTimer .. Longest]
    <3>1. \A n \in Machines : timer[n] \in NoTimer .. Longest /\ timer[n] # 0
      BY <1>9 DEF Tick, Urgent
    <3>2. \A n \in Machines :
             (IF timer[n] = NoTimer THEN NoTimer ELSE timer[n] - 1) \in NoTimer .. Longest
      BY <3>1, LongestType DEF NoTimer
    <3> QED
      BY <1>9, <3>2 DEF Tick
  <2>3. work' \in [Machines -> Works]
    <3>1. \A b \in Busy : work[b] \in Works /\ work[b].spent < Latency
      BY <1>9, Times DEF Tick, Urgent, Works, Busy
    <3> QED
      BY <1>9, <3>1, WorkTypes DEF Tick
  <2>4. resync' \in 1 .. ResyncPeriod /\ due' \in SUBSET Machines
    BY <1>9, Times DEF Tick, Resynced
  <2>5. calm' \in 0 .. Recovery
    BY <1>9, RecoveryType DEF Tick, Least
  <2> QED
    BY <1>9, <2>1, <2>2, <2>3, <2>4, <2>5 DEF Tick
<1>10. CASE Crash
  <2>1. NoTimer \in NoTimer .. Longest /\ ResyncPeriod \in 1 .. ResyncPeriod
    BY LongestType, Times DEF NoTimer
  <2>2. timer' \in [Machines -> NoTimer .. Longest] /\ work' \in [Machines -> Works]
    BY <1>10, <2>1, WorkTypes DEF Crash
  <2>3. queue' \in Seq(Machines) /\ due' \in SUBSET Machines /\ beating' \in SUBSET Machines
    BY <1>10 DEF Crash
  <2>4. MissesCounted'
    BY <1>10, <1>f, Times DEF Crash
  <2> QED
    BY <1>10, <1>f, <2>1, <2>2, <2>3, <2>4 DEF Crash
<1>11. CASE Restart \/ SetPaused
  <2>1. 0 \in 0 .. Recovery
    BY RecoveryType
  <2>2. MissesCounted'
    BY <1>11 DEF Restart, SetPaused, machineVars
  <2> QED
    BY <1>11, <2>1, <2>2 DEF Restart, SetPaused, machineVars, managerVars
<1>12. CASE UNCHANGED vars
  BY <1>12 DEF vars, machineVars, managerVars
<1> QED
  BY <1>1, <1>2, <1>3, <1>4, <1>5, <1>6, <1>7, <1>8, <1>9, <1>10, <1>11, <1>12
     DEF Next, Reconcile

\* Every variable keeps its type, whatever the constants are.
THEOREM TypeCorrect == Spec => []TypeOK
<1>1. Init => TypeOK /\ MissesCounted
  BY InitTypeOK, Times DEF Init, MissesCounted
<1>2. (TypeOK /\ MissesCounted) /\ [Next]_vars => (TypeOK /\ MissesCounted)'
  BY StepTypeOK
<1> QED
  BY <1>1, <1>2, PTL DEF Spec

-----------------------------------------------------------------------------
(***************************************************************************)
(* Places in the queue                                                      *)
(***************************************************************************)

\* A queue without repetitions has room for the machines that are not in it.
LEMMA Room ==
    ASSUME TypeOK, QueueCoherent, NEW S \in SUBSET (Machines \ Queued)
    PROVE  Len(queue) \in Nat /\ Cardinality(S) \in Nat /\ Len(queue) + Cardinality(S) <= K
<1>1. Len(queue) \in Nat /\ DOMAIN queue = 1 .. Len(queue)
      /\ \A i \in DOMAIN queue : queue[i] \in Machines
  BY DEF TypeOK
<1>2. Queued \in SUBSET Machines
  BY <1>1 DEF Queued
<1>3. IsFiniteSet(Queued) /\ IsFiniteSet(S)
  BY <1>2, MachinesAssumption, FS_Subset
<1>4. Cardinality(Queued) = Len(queue)
  <2>1. queue \in [1 .. Len(queue) -> Queued]
    BY <1>1 DEF TypeOK, Queued
  <2>2. queue \in Bijection(1 .. Len(queue), Queued)
    BY <1>1, <2>1 DEF QueueCoherent, Bijection, Injection, Surjection, IsInjective, Queued
  <2>3. IsFiniteSet(1 .. Len(queue)) /\ Cardinality(1 .. Len(queue)) = Len(queue)
    BY <1>1, FS_Interval
  <2> QED
    BY <2>2, <2>3, FS_Bijection DEF ExistsBijection
<1>5. /\ IsFiniteSet(Queued \union S)
      /\ Cardinality(Queued \union S) = Cardinality(Queued) + Cardinality(S) - Cardinality(Queued \intersect S)
  BY <1>3, FS_Union
<1>6. Cardinality(Queued \intersect S) = 0
  <2>1. Queued \intersect S = {}
    OBVIOUS
  <2> QED
    BY <2>1, FS_EmptySet
<1>7. Cardinality(Queued \union S) <= K
  BY <1>2, MachinesAssumption, FS_Subset DEF K
<1>8. Cardinality(S) \in Nat
  BY <1>3, FS_CardinalityType
<1> QED
  BY <1>1, <1>4, <1>5, <1>6, <1>7, <1>8

\* Hence the turns ahead of a machine at the end of the queue, and of one that
\* is queued while another one is in a reconcile.
LEMMA LastPlace ==
    ASSUME TypeOK, QueueCoherent, NEW m \in Machines, m \notin Queued
    PROVE  /\ Turns(Len(queue)) \in Int /\ Turns(Len(queue)) <= Turns(K - 1)
           /\ \A b \in Busy \ {m} : Latency + Turns(Len(queue)) <= Turns(K - 1)
<1>1. Len(queue) \in Nat /\ Len(queue) + 1 <= K
  <2>1. {m} \in SUBSET (Machines \ Queued) /\ Cardinality({m}) = 1
    BY FS_Singleton
  <2> QED
    BY <2>1, Room
<1>2. ASSUME NEW b \in Busy \ {m} PROVE Len(queue) + 2 <= K
  <2>1. {m, b} \in SUBSET (Machines \ Queued)
    BY <1>2 DEF QueueCoherent, Busy
  <2>2. Cardinality({m, b}) = 2
    <3>1. {m, b} = {m} \union {b} /\ b \notin {m}
      BY <1>2
    <3>2. IsFiniteSet({m}) /\ Cardinality({m}) = 1
      BY FS_Singleton
    <3>3. /\ IsFiniteSet({m} \union {b})
          /\ b \notin {m} => Cardinality({m} \union {b}) = Cardinality({m}) + 1
      BY <3>2, FS_AddElement
    <3>4. Cardinality({m} \union {b}) = 2
      BY <3>1, <3>2, <3>3
    <3> QED
      BY <3>1, <3>4
  <2> QED
    BY <2>1, <2>2, Room
<1>3. Turns(Len(queue)) \in Int /\ Turns(Len(queue)) <= Turns(K - 1)
  BY <1>1, TurnsGrow, TurnsType, SomeMachines
<1>4. ASSUME NEW b \in Busy \ {m} PROVE Latency + Turns(Len(queue)) <= Turns(K - 1)
  <2>1. Turns(Len(queue) + 1) = Turns(Len(queue)) + Latency
    BY <1>1, TurnsNext
  <2>2. Turns(Len(queue) + 1) <= Turns(K - 1)
    BY <1>1, <1>2, <1>4, TurnsGrow, SomeMachines
  <2> QED
    BY <2>1, <2>2, <1>3, Times
<1> QED
  BY <1>3, <1>4

-----------------------------------------------------------------------------
(***************************************************************************)
(* Steps of the queue                                                       *)
(***************************************************************************)

\* A step brings no new reconcile.
NoNewWork == \A b \in Busy' : b \in Busy /\ work'[b].spent = work[b].spent

\* A step leaves n where it was in the queue, or nearer to its turn.
Carried(n) ==
    \A i \in DOMAIN queue' : queue'[i] = n =>
        \E j \in DOMAIN queue :
            /\ queue[j] = n
            /\ \A t, bound \in Int : Reached(j, t, bound) => Reached(i, t, bound)'

\* Wherever a step puts n in the queue, no more than the others are ahead of it.
Fresh(n) ==
    \A i \in DOMAIN queue' : queue'[i] = n =>
        \A t, bound \in Int : t + Turns(K - 1) <= bound => Reached(i, t, bound)'

\* With the queue as it is everybody keeps their place.
LEMMA QueueStays ==
    ASSUME TypeOK, QueueCoherent, NoNewWork, queue' = queue
    PROVE  QueueCoherent' /\ Queued' = Queued /\ \A n \in Machines : Carried(n)
<1>1. Queued' = Queued /\ QueueCoherent'
  BY DEF Queued, QueueCoherent, NoNewWork
<1>2. ASSUME NEW i \in DOMAIN queue, NEW t \in Int, NEW bound \in Int, Reached(i, t, bound)
      PROVE  Reached(i, t, bound)'
  BY <1>2 DEF Reached, NoNewWork
<1>3. ASSUME NEW n \in Machines PROVE Carried(n)
  BY <1>2 DEF Carried
<1> QED
  BY <1>1, <1>3

\* One that joins the queue is behind the others, who keep their places.
LEMMA QueueGrows ==
    ASSUME TypeOK, QueueCoherent, NoNewWork, NEW m \in Machines, m \notin Queued,
           m \notin Busy', queue' = Append(queue, m)
    PROVE  /\ QueueCoherent'
           /\ Queued' = Queued \union {m}
           /\ \A n \in Machines \ {m} : Carried(n)
           /\ Fresh(m)
<1>1. /\ DOMAIN queue = 1 .. Len(queue)
      /\ Len(queue) \in Nat
      /\ DOMAIN queue' = 1 .. Len(queue) + 1
      /\ queue'[Len(queue) + 1] = m
      /\ \A i \in DOMAIN queue : queue'[i] = queue[i] /\ i \in DOMAIN queue' /\ queue[i] # m
  <2>1. queue \in Seq(Machines)
    BY DEF TypeOK
  <2>2. DOMAIN queue = 1 .. Len(queue) /\ Len(queue) \in Nat
    BY <2>1
  <2>3. Len(queue') = Len(queue) + 1 /\ DOMAIN queue' = 1 .. Len(queue) + 1
    BY <2>1
  <2>4. queue'[Len(queue) + 1] = m /\ \A i \in 1 .. Len(queue) : queue'[i] = queue[i]
    BY <2>1
  <2>5. \A i \in DOMAIN queue : queue[i] # m
    BY DEF Queued
  <2>6. \A i \in DOMAIN queue : i \in DOMAIN queue'
    BY <2>2, <2>3
  <2> QED
    BY <2>2, <2>3, <2>4, <2>5, <2>6
<1>2. \A i \in DOMAIN queue' : i \in DOMAIN queue \/ i = Len(queue) + 1
  BY <1>1
<1>3. Queued' = Queued \union {m}
  BY <1>1, <1>2 DEF Queued
<1>4. QueueCoherent'
  <2>1. \A i, j \in DOMAIN queue' : queue'[i] = queue'[j] => i = j
    BY <1>1, <1>2 DEF QueueCoherent
  <2>2. Queued' \intersect Busy' = {}
    BY <1>3 DEF QueueCoherent, NoNewWork
  <2> QED
    BY <2>1, <2>2 DEF QueueCoherent
<1>5. ASSUME NEW n \in Machines \ {m} PROVE Carried(n)
  <2>1. ASSUME NEW i \in DOMAIN queue, NEW t \in Int, NEW bound \in Int, Reached(i, t, bound)
        PROVE  Reached(i, t, bound)'
    BY <2>1 DEF Reached, NoNewWork
  <2>2. \A i \in DOMAIN queue' : queue'[i] = n => i \in DOMAIN queue /\ queue[i] = n
    BY <1>1, <1>2
  <2> QED
    BY <2>1, <2>2 DEF Carried
<1>6. Fresh(m)
  <2>1. \A i \in DOMAIN queue' : queue'[i] = m => i - 1 = Len(queue)
    BY <1>1, <1>2
  <2>2. ASSUME NEW t \in Int, NEW bound \in Int, t + Turns(K - 1) <= bound
        PROVE  /\ t + Turns(Len(queue)) <= bound
               /\ \A b \in Busy' : t + (Latency - work'[b].spent) + Turns(Len(queue)) <= bound
    <3>1. t + Turns(Len(queue)) <= bound
      BY <2>2, LastPlace, CycleType
    <3>2. ASSUME NEW b \in Busy'
          PROVE  t + (Latency - work'[b].spent) + Turns(Len(queue)) <= bound
      <4>1. b \in Busy \ {m} /\ work'[b].spent = work[b].spent
        BY DEF NoNewWork
      <4>2. work[b].spent \in Nat
        BY <4>1, Times DEF TypeOK, Works, Busy
      <4>3. Latency + Turns(Len(queue)) <= Turns(K - 1) /\ Turns(Len(queue)) \in Int
        BY <4>1, LastPlace
      <4>4. \A x, y \in Int, spent \in Nat :
               Latency + x <= y /\ t + y <= bound => t + (Latency - spent) + x <= bound
        BY Times
      <4>5. Turns(K - 1) \in Int
        BY CycleType
      <4> QED
        BY <2>2, <4>1, <4>2, <4>3, <4>4, <4>5
    <3> QED
      BY <3>1, <3>2
  <2> QED
    BY <2>1, <2>2 DEF Fresh, Reached
<1> QED
  BY <1>3, <1>4, <1>5, <1>6

\* The worker takes the head: everybody else is one place nearer, and waits for
\* one more reconcile.
LEMMA QueueShrinks ==
    ASSUME TypeOK, QueueCoherent, NEW m \in Machines, Take(m),
           \/ NoNewWork /\ m \notin Busy'
           \/ /\ m \in Busy' /\ work'[m].spent = 0
              /\ \A b \in Busy' \ {m} : b \in Busy /\ work'[b].spent = work[b].spent
    PROVE  /\ QueueCoherent'
           /\ Queued' = Queued \ {m} /\ m \in Queued
           /\ \A n \in Machines \ {m} : Carried(n)
           /\ \E j \in DOMAIN queue :
                 queue[j] = m /\ \A t, bound \in Int : Reached(j, t, bound) => t <= bound
<1>1. /\ DOMAIN queue = 1 .. Len(queue)
      /\ Len(queue) \in Nat \ {0}
      /\ queue[1] = m
      /\ DOMAIN queue' = 1 .. Len(queue) - 1
      /\ \A i \in DOMAIN queue' : queue'[i] = queue[i + 1] /\ i + 1 \in DOMAIN queue
  BY DEF TypeOK, Take
<1>2. \A j \in DOMAIN queue : j # 1 => j - 1 \in DOMAIN queue' /\ queue'[j - 1] = queue[j]
  BY <1>1
<1>3. \A j \in DOMAIN queue : j # 1 => queue[j] # m
  BY <1>1 DEF QueueCoherent
<1>4. Queued' = Queued \ {m} /\ m \in Queued
  <2>1. m \in Queued
    BY <1>1 DEF Queued
  <2>2. Queued' = {queue'[i] : i \in DOMAIN queue'}
    BY DEF Queued
  <2>3. ASSUME NEW n \in Queued \ {m} PROVE n \in Queued'
    BY <1>1, <1>2, <2>2 DEF Queued
  <2>4. ASSUME NEW n \in Queued' PROVE n \in Queued /\ n # m
    <3>1. PICK i \in DOMAIN queue' : n = queue'[i]
      BY <2>2
    <3>2. i + 1 # 1 /\ i + 1 \in DOMAIN queue /\ n = queue[i + 1]
      BY <1>1, <3>1
    <3> QED
      BY <1>3, <3>2 DEF Queued
  <2> QED
    BY <2>1, <2>3, <2>4
<1>5. QueueCoherent'
  <2>1. ASSUME NEW i \in DOMAIN queue', NEW j \in DOMAIN queue', queue'[i] = queue'[j]
        PROVE  i = j
    <3>1. i + 1 = j + 1
      BY <1>1, <2>1 DEF QueueCoherent
    <3> QED
      BY <1>1, <3>1
  <2>2. Queued' \intersect Busy' = {}
    BY <1>4 DEF QueueCoherent, NoNewWork
  <2> QED
    BY <2>1, <2>2 DEF QueueCoherent
<1>6. ASSUME NEW n \in Machines \ {m} PROVE Carried(n)
  <2>1. ASSUME NEW i \in DOMAIN queue', NEW t \in Int, NEW bound \in Int,
               Reached(i + 1, t, bound)
        PROVE  Reached(i, t, bound)'
    <3>1. i \in Nat /\ i + 1 - 1 = i /\ Turns(i) = Turns(i - 1) + Latency
          /\ Turns(i - 1) \in Int
      <4>1. i \in Nat /\ i - 1 \in Int /\ (i - 1) + 1 = i /\ i + 1 - 1 = i
        BY <1>1
      <4> QED
        BY <4>1, TurnsNext, TurnsType
    <3>2. t + Turns(i - 1) + Latency <= bound
      BY <2>1, <3>1, Times DEF Reached
    <3>3. t + Turns(i - 1) <= bound
      BY <3>1, <3>2, Times
    <3>4. ASSUME NEW b \in Busy'
          PROVE  t + (Latency - work'[b].spent) + Turns(i - 1) <= bound
      <4>1. CASE b = m /\ work'[b].spent = 0
        BY <4>1, <3>1, <3>2, Times
      <4>2. CASE b \in Busy /\ work'[b].spent = work[b].spent
        <5>1. t + (Latency - work[b].spent) + (Turns(i - 1) + Latency) <= bound
          BY <2>1, <3>1, <4>2 DEF Reached
        <5>2. work[b].spent \in Nat
          BY <4>2, Times DEF TypeOK, Works, Busy
        <5> QED
          BY <3>1, <4>2, <5>1, <5>2, Times
      <4> QED
        BY <4>1, <4>2 DEF NoNewWork
    <3> QED
      BY <3>3, <3>4 DEF Reached
  <2>2. \A i \in DOMAIN queue' : i + 1 \in DOMAIN queue /\ queue[i + 1] = queue'[i]
    BY <1>1
  <2> QED
    BY <2>1, <2>2 DEF Carried
<1>7. 1 \in DOMAIN queue /\ \A t, bound \in Int : Reached(1, t, bound) => t <= bound
  <2>1. Turns(1 - 1) = 0
    BY CycleType
  <2> QED
    BY <1>1, <2>1 DEF Reached
<1> QED
  BY <1>1, <1>4, <1>5, <1>6, <1>7
-----------------------------------------------------------------------------
(***************************************************************************)
(* Machines a step does not concern, and machines it puts in the queue      *)
(***************************************************************************)

\* The numbers of one machine.
LEMMA Numbers ==
    ASSUME TypeOK, NEW n \in Machines
    PROVE  /\ work[n] \in Works
           /\ work[n].spent \in Nat /\ work[n].spent <= Latency /\ work[n].stamp \in Nat
           /\ age[n] \in Nat /\ timer[n] \in Int
           /\ timer[n] # NoTimer => timer[n] \in Nat
           /\ misses[n] \in Nat /\ misses[n] * Cycle \in Nat
           /\ calm \in Nat /\ resync \in Nat \ {0} /\ resync <= ResyncPeriod
<1>1. work[n] \in Works /\ age[n] \in 0 .. Old /\ timer[n] \in NoTimer .. Longest
      /\ misses[n] \in 0 .. MaxFaults /\ calm \in 0 .. Recovery /\ resync \in 1 .. ResyncPeriod
  BY DEF TypeOK
<1>2. work[n].spent \in 0 .. Latency /\ work[n].stamp \in 0 .. Latency
  BY <1>1 DEF Works
<1>3. age[n] \in Nat /\ timer[n] \in Int /\ (timer[n] # NoTimer => timer[n] \in Nat)
  BY <1>1, OldType, LongestType DEF NoTimer
<1>4. misses[n] \in Nat /\ calm \in Nat /\ resync \in Nat \ {0} /\ resync <= ResyncPeriod
  BY <1>1, RecoveryType, Times
<1>5. work[n].spent \in Nat /\ work[n].spent <= Latency /\ work[n].stamp \in Nat
  BY <1>2, Times
<1> QED
  BY <1>1, <1>3, <1>4, <1>5, MissedNext

\* A machine that is left alone and keeps its place is no further from its renewal.
LEMMA BeatFrame ==
    ASSUME TypeOK, NEW n \in Machines, BeatCoherent(n),
           Beats(n)' => Beats(n),
           age'[n] = age[n], misses'[n] = misses[n],
           work'[n].pc = work[n].pc, work'[n].spent = work[n].spent,
           \/ timer'[n] = timer[n]
           \/ timer'[n] = NoTimer /\ n \in Queued \union Busy,
           n \in Queued => n \in Queued', Carried(n)
    PROVE  BeatCoherent(n)'
<1> SUFFICES ASSUME Beats(n)' PROVE BeatCoherent(n)'
  BY DEF BeatCoherent
<1> DEFINE missed == misses[n] * Cycle
<1>1. /\ timer[n] # NoTimer /\ work[n].pc # "patch" =>
            age[n] + timer[n] <= missed + Period + Latency
      /\ timer[n] = NoTimer => n \in Queued \union Busy
      /\ \A i \in DOMAIN queue : queue[i] = n => Reached(i, age[n], missed + Cycle)
      /\ work[n].pc \in {"node", "lease"} => age[n] <= missed + Cycle + work[n].spent
      /\ work[n].pc = "patch" => age[n] <= missed + work[n].spent
  BY DEF BeatCoherent
<1>2. n \in Queued \union Busy => n \in (Queued \union Busy)'
  BY DEF Busy
<1>3. missed' = missed /\ age[n] \in Int /\ missed + Cycle \in Int
  BY Numbers, CycleType
<1>4. \A i \in DOMAIN queue' : queue'[i] = n => Reached(i, age[n], missed + Cycle)'
  <2> HIDE DEF missed
  <2>1. \A j \in DOMAIN queue : queue[j] = n => Reached(j, age[n], missed + Cycle)
    BY <1>1
  <2>2. ASSUME NEW i \in DOMAIN queue', queue'[i] = n
        PROVE  Reached(i, age[n], missed + Cycle)'
    <3>1. PICK j \in DOMAIN queue :
             queue[j] = n /\ \A t, bound \in Int : Reached(j, t, bound) => Reached(i, t, bound)'
      BY <2>2 DEF Carried
    <3> QED
      BY <2>1, <3>1, <1>3 DEF Reached
  <2> QED
    BY <2>2
<1>5. \A i \in DOMAIN queue' : queue'[i] = n => Reached(i, age[n], missed + Cycle)'
                                              /\ age'[n] = age[n]
  BY <1>4
<1> QED
  BY <1>1, <1>2, <1>3, <1>5 DEF BeatCoherent, Reached

\* Within this of the end of a calm period's count a queued machine is reached.
Limit == ResyncPeriod + Turns(K - 1)

\* The same for a machine that has lost its heartbeat.
LEMMA CalmFrame ==
    ASSUME TypeOK, NEW n \in Machines, CalmCoherent(n),
           Lagging(n)' => Lagging(n), Settled(n) => Settled(n)',
           life'[n] = "booted" => life[n] = "booted",
           calm' = calm, resync' = resync,
           n \in due' => n \in due,
           n \in due => n \in due' \/ n \in Queued' \/ work'[n].again,
           work'[n].pc = work[n].pc, work'[n].spent = work[n].spent,
           work[n].again => work'[n].again,
           n \in Queued => n \in Queued', Carried(n)
    PROVE  CalmCoherent(n)'
<1>1. life'[n] = "booted" /\ work'[n].pc = "patch" => Settled(n)'
  BY DEF CalmCoherent
<1> SUFFICES ASSUME Lagging(n)' PROVE CalmCoherent(n)'
  BY <1>1 DEF CalmCoherent
<1>2. /\ calm + resync <= ResyncPeriod \/ n \in due \/ Underway(n) \/ work[n].again
      /\ n \in due /\ ~Underway(n) => calm <= ResyncPeriod
      /\ \A i \in DOMAIN queue : queue[i] = n => Reached(i, calm, Limit)
      /\ work[n].pc \in {"node", "lease"} => calm <= Limit + work[n].spent
      /\ work[n].pc = "patch" => calm <= work[n].spent
  BY DEF CalmCoherent, Limit, K
<1>3. Underway(n) => Underway(n)'
  BY DEF Underway
<1>4. calm \in Int /\ Limit \in Int
  BY Numbers, CycleType, Times DEF Limit
<1>5. \A i \in DOMAIN queue' : queue'[i] = n => Reached(i, calm, Limit)'
  <2>1. ASSUME NEW i \in DOMAIN queue', queue'[i] = n
        PROVE  Reached(i, calm, Limit)'
    <3>1. PICK j \in DOMAIN queue :
             queue[j] = n /\ \A t, bound \in Int : Reached(j, t, bound) => Reached(i, t, bound)'
      BY <2>1 DEF Carried
    <3>2. Reached(j, calm, Limit)
      BY <1>2, <3>1
    <3> QED
      BY <3>1, <3>2, <1>4 DEF Reached
  <2> QED
    BY <2>1
<1>6. n \in due' \/ n \in Queued' \/ work'[n].again \/ calm' + resync' <= ResyncPeriod
      \/ Underway(n)'
  BY <1>2, <1>3
<1>7. n \in Queued' => Underway(n)'
  BY DEF Underway
<1>8. n \in due' /\ ~Underway(n)' => calm' <= ResyncPeriod
  BY <1>2, <1>3
<1> QED
  BY <1>1, <1>2, <1>5, <1>6, <1>7, <1>8 DEF CalmCoherent, Limit, K

\* After a failure, a restart or a pause the count is where nothing is late.
LEMMA CalmReset ==
    ASSUME TypeOK, TypeOK', NEW n \in Machines, calm' = 0,
           life'[n] = "booted" /\ work'[n].pc = "patch" => Settled(n)',
           \A i \in DOMAIN queue' : queue'[i] = n => i \in 1 .. K
    PROVE  CalmCoherent(n)'
<1>1. Turns(K - 1) \in Nat /\ Limit \in Nat /\ Limit = ResyncPeriod + Turns(K - 1)
  BY CycleType, Times DEF Limit
<1>2. /\ resync' \in Nat /\ resync' <= ResyncPeriod
      /\ \A b \in Machines : work'[b].spent \in Nat
  <2>1. resync' \in 1 .. ResyncPeriod /\ \A b \in Machines : work'[b].spent \in 0 .. Latency
    BY DEF TypeOK, Works
  <2> QED
    BY <2>1, Times
<1>3. ASSUME NEW i \in 1 .. K PROVE Reached(i, calm, Limit)'
  <2>1. Turns(i - 1) <= Turns(K - 1) /\ Turns(i - 1) \in Int
    BY SomeMachines, TurnsGrow, TurnsType
  <2>2. calm' + Turns(i - 1) <= Limit
    BY <1>1, <2>1, Times
  <2>3. ASSUME NEW b \in Busy'
        PROVE  calm' + (Latency - work'[b].spent) + Turns(i - 1) <= Limit
    <3>1. work'[b].spent \in Nat
      BY <1>2 DEF Busy
    <3> QED
      BY <1>1, <2>1, <3>1, Times
  <2> QED
    BY <2>2, <2>3 DEF Reached, Limit
<1>4. \A i \in DOMAIN queue' : queue'[i] = n => Reached(i, calm, Limit)'
  BY <1>3
<1>5. /\ calm' + resync' <= ResyncPeriod /\ calm' <= ResyncPeriod
      /\ calm' <= Limit + work'[n].spent /\ calm' <= work'[n].spent
  <2>1. \A spent \in Nat : 0 <= Limit + spent /\ 0 <= spent
    BY <1>1
  <2>2. work'[n].spent \in Nat
    BY <1>2
  <2>3. \A r \in Nat : r <= ResyncPeriod => 0 + r <= ResyncPeriod /\ 0 <= ResyncPeriod
    BY Times
  <2>4. calm' + resync' <= ResyncPeriod /\ calm' <= ResyncPeriod
    BY <1>2, <2>3
  <2> QED
    BY <2>1, <2>2, <2>4
<1> QED
  BY <1>4, <1>5 DEF CalmCoherent, Limit, K

\* A machine put at the end of the queue, or left to its delayed requeue.
LEMMA BeatFresh ==
    ASSUME TypeOK', NEW n \in Machines, work'[n].pc = "idle", Fresh(n),
           timer'[n] = NoTimer => n \in Queued',
           Beats(n)' => /\ age'[n] <= misses'[n] * Cycle + Period + Latency
                        /\ timer'[n] # NoTimer =>
                              age'[n] + timer'[n] <= misses'[n] * Cycle + Period + Latency
    PROVE  BeatCoherent(n)'
<1> SUFFICES ASSUME Beats(n)' PROVE BeatCoherent(n)'
  BY DEF BeatCoherent
<1> DEFINE missed == misses'[n] * Cycle
<1>1. age'[n] \in Int /\ missed \in Nat
  <2>1. misses'[n] \in 0 .. MaxFaults /\ age'[n] \in 0 .. Old
    BY DEF TypeOK
  <2>2. misses'[n] \in Nat /\ age'[n] \in Int
    BY <2>1, OldType, Times
  <2> QED
    BY <2>2, MissedNext
<1>2. age'[n] + Turns(K - 1) <= missed + Cycle /\ missed + Cycle \in Int
  BY <1>1, CycleType, Times
<1>3. \A i \in DOMAIN queue' : queue'[i] = n => Reached(i, age[n], misses[n] * Cycle + Cycle)'
  <2>1. ASSUME NEW i \in DOMAIN queue', queue'[i] = n,
               NEW t \in Int, t = age'[n], NEW bound \in Int, bound = missed + Cycle
        PROVE  Reached(i, age[n], misses[n] * Cycle + Cycle)'
    <3>1. Reached(i, t, bound)'
      BY <2>1, <1>2 DEF Fresh
    <3> QED
      BY <2>1, <3>1 DEF Reached
  <2> QED
    BY <2>1, <1>1, <1>2
<1> QED
  BY <1>3 DEF BeatCoherent

\* The same, for a machine that has lost its heartbeat, when it joins the queue.
LEMMA CalmFresh ==
    ASSUME TypeOK', NEW n \in Machines, work'[n].pc = "idle", Fresh(n),
           Lagging(n)' =>
               /\ calm' <= ResyncPeriod
               /\ calm' + resync' <= ResyncPeriod \/ n \in due' \/ n \in Queued'
    PROVE  CalmCoherent(n)'
<1> SUFFICES ASSUME Lagging(n)' PROVE CalmCoherent(n)'
  BY DEF CalmCoherent
<1>1. calm' \in Int /\ Limit \in Int /\ calm' + Turns(K - 1) <= Limit
  <2>1. calm' \in 0 .. Recovery
    BY DEF TypeOK
  <2>2. calm' \in Int
    BY <2>1, RecoveryType
  <2> QED
    BY <2>2, CycleType, Times DEF Limit
<1>2. ASSUME NEW i \in DOMAIN queue', queue'[i] = n, NEW t \in Int, t = calm'
      PROVE  Reached(i, calm, Limit)'
  <2>1. Reached(i, t, Limit)'
    BY <1>1, <1>2 DEF Fresh
  <2> QED
    BY <1>2, <2>1 DEF Reached
<1>3. n \in Queued' => Underway(n)'
  BY DEF Underway
<1> QED
  BY <1>1, <1>2, <1>3 DEF CalmCoherent, Limit, K
-----------------------------------------------------------------------------
(***************************************************************************)
(* The inductive invariant                                                  *)
(***************************************************************************)

\* The initial states are coherent.
LEMMA InitCoherent == Init => Coherent
<1> SUFFICES ASSUME Init PROVE Coherent
  OBVIOUS
<1>1. DOMAIN queue = {} /\ Queued = {} /\ Busy = {}
  BY DEF Init, Queued, Busy, Idle
<1>2. QueueCoherent
  BY <1>1 DEF QueueCoherent
<1>3. MissesCounted
  BY DEF Init, MissesCounted
<1>4. ASSUME NEW m \in Machines PROVE WorkCoherent(m)
  BY DEF Init, WorkCoherent, Idle
<1>5. ASSUME NEW m \in Machines PROVE BeatCoherent(m)
  BY DEF Init, BeatCoherent, Beats
<1>6. ASSUME NEW m \in Machines PROVE CalmCoherent(m)
  <2>1. calm + resync <= ResyncPeriod /\ calm <= ResyncPeriod
    BY Times DEF Init
  <2> QED
    BY <1>1, <2>1 DEF Init, CalmCoherent, Idle
<1> QED
  BY <1>2, <1>3, <1>4, <1>5, <1>6 DEF Init, Coherent

\* Fire, Deliver and Event.
LEMMA AddStep ==
    ASSUME TypeOK, TypeOK', Coherent, NEW m \in Machines, Add(m),
           \/ timer' = timer
           \/ timer[m] = 0 /\ timer' = [timer EXCEPT ![m] = NoTimer],
           due' = due \/ due' = due \ {m},
           UNCHANGED <<machineVars, resync, up, paused, calm, faults>>
    PROVE  Coherent'
<1> USE DEF machineVars
<1>1. /\ Busy' = Busy /\ NoNewWork
      /\ \A n \in Machines : /\ work'[n].pc = work[n].pc
                             /\ work'[n].spent = work[n].spent
                             /\ work'[n].stamp = work[n].stamp
                             /\ work[n].again => work'[n].again
                             /\ n # m => work'[n] = work[n]
      /\ m \in Busy => work'[m].again
      /\ m \notin Busy => work' = work
  <2>1. ASSUME NEW n \in Machines
        PROVE  /\ work'[n].pc = work[n].pc
               /\ work'[n].spent = work[n].spent
               /\ work'[n].stamp = work[n].stamp
               /\ work[n].again => work'[n].again
               /\ n # m => work'[n] = work[n]
               /\ n = m /\ m \in Busy => work'[m].again
    BY DEF Add, TypeOK, Works
  <2>2. Busy' = Busy
    BY <2>1 DEF Busy
  <2> QED
    BY <2>1, <2>2 DEF NoNewWork, Busy, Add
<1>2. /\ QueueCoherent'
      /\ \A n \in Machines \ {m} : Carried(n)
      /\ \A n \in Machines : n \in Queued => n \in Queued'
      /\ m \in Queued \union Busy => Carried(m)
      /\ m \notin Queued \union Busy => Fresh(m) /\ m \in Queued'
  <2>1. CASE m \in Queued \union Busy
    BY <1>1, <2>1, QueueStays DEF Add, Coherent
  <2>2. CASE m \notin Queued \union Busy
    BY <1>1, <2>2, QueueGrows DEF Add, Coherent
  <2> QED
    BY <2>1, <2>2
<1>3. \A n \in Machines : WorkCoherent(n)'
  BY <1>1 DEF Coherent, WorkCoherent, Add
<1>4. ASSUME NEW n \in Machines, n # m \/ m \in Queued \union Busy
      PROVE  BeatCoherent(n)' /\ CalmCoherent(n)'
  <2>1. BeatCoherent(n) /\ CalmCoherent(n)
    BY DEF Coherent
  <2>2. Carried(n) /\ (n \in Queued => n \in Queued')
    BY <1>2, <1>4
  <2>3. timer'[n] = timer[n] \/ (timer'[n] = NoTimer /\ n \in Queued \union Busy)
    BY <1>4 DEF TypeOK
  <2>4. BeatCoherent(n)'
    BY <1>1, <2>1, <2>2, <2>3, BeatFrame DEF Beats
  <2>5. n \in due' => n \in due
    OBVIOUS
  <2>6. n \in due => n \in due' \/ n \in Queued' \/ work'[n].again
    BY <1>1, <1>2, <1>4
  <2>7. CalmCoherent(n)'
    BY <1>1, <2>1, <2>2, <2>5, <2>6, CalmFrame DEF Lagging, Settled
  <2> QED
    BY <2>4, <2>7
<1>5. ASSUME m \notin Queued \union Busy PROVE BeatCoherent(m)' /\ CalmCoherent(m)'
  <2>1. BeatCoherent(m) /\ CalmCoherent(m) /\ WorkCoherent(m)
    BY DEF Coherent
  <2>2. work'[m].pc = "idle" /\ work[m].pc = "idle" /\ ~work[m].again /\ Fresh(m) /\ m \in Queued'
    BY <1>1, <1>2, <1>5, <2>1 DEF WorkCoherent, Busy
  <2>3. timer'[m] = timer[m] \/ timer'[m] = NoTimer
    BY DEF TypeOK
  <2>4. Beats(m)' =>
          /\ age'[m] <= misses'[m] * Cycle + Period + Latency
          /\ timer'[m] # NoTimer =>
                 age'[m] + timer'[m] <= misses'[m] * Cycle + Period + Latency
    <3> SUFFICES ASSUME Beats(m)
                 PROVE  /\ age[m] <= misses[m] * Cycle + Period + Latency
                        /\ age[m] + timer[m] <= misses[m] * Cycle + Period + Latency
      BY <2>3 DEF Beats
    <3>1. age[m] + timer[m] <= misses[m] * Cycle + Period + Latency /\ timer[m] # NoTimer
      BY <1>5, <2>1, <2>2 DEF BeatCoherent
    <3> QED
      BY <3>1, Numbers, Times
  <2>5. BeatCoherent(m)'
    BY <2>2, <2>4, BeatFresh
  <2>6. Lagging(m)' => calm' <= ResyncPeriod
    <3> SUFFICES ASSUME Lagging(m) PROVE calm <= ResyncPeriod
      BY DEF Lagging, Settled
    <3>1. ~Underway(m)
      BY <1>5, <2>2 DEF Underway
    <3>2. calm + resync <= ResyncPeriod \/ calm <= ResyncPeriod
      BY <2>1, <2>2, <3>1 DEF CalmCoherent
    <3> QED
      BY <3>2, Numbers, Times
  <2>7. CalmCoherent(m)'
    BY <2>2, <2>6, CalmFresh
  <2> QED
    BY <2>5, <2>7
<1>6. MissesCounted' /\ (calm' > 0 => up' /\ ~paused')
  BY DEF Coherent, MissesCounted
<1> QED
  BY <1>2, <1>3, <1>4, <1>5, <1>6 DEF Coherent

\* The worker takes the head of the queue, to skip or to begin.
LEMMA TakeStep ==
    ASSUME TypeOK, TypeOK', Coherent, NEW m \in Machines, Skip(m) \/ Begin(m)
    PROVE  Coherent'
<1> USE DEF machineVars
<1>1. Take(m) /\ work[m].pc = "idle" /\ m \notin Busy
  <2>1. Take(m)
    BY DEF Skip, Begin
  <2>2. m = queue[1] /\ 1 \in DOMAIN queue
    BY <2>1 DEF Take, TypeOK
  <2>3. m \in Queued
    BY <2>2 DEF Queued
  <2> QED
    BY <2>1, <2>3 DEF Coherent, QueueCoherent, Busy
<1>2. /\ UNCHANGED <<life, age, misses, timer, due, resync, up, paused, calm, faults>>
      /\ \A n \in Machines \ {m} : work'[n] = work[n] /\ (n \in beating' <=> n \in beating)
      /\ beating' \subseteq beating
      /\ work'[m].pc = "node" => beating' = beating
      /\ work'[m].pc \in {"idle", "node"} /\ (work'[m].pc = "idle" => paused)
      /\ work'[m].pc = "idle" /\ m \in beating' => timer[m] # NoTimer
      /\ work'[m].pc = "node" => work'[m].spent = 0 /\ work'[m].stamp = 0 /\ ~work'[m].again
      /\ work'[m].pc = "idle" => work' = work
  <2>1. CASE Skip(m)
    <3>1. /\ UNCHANGED <<life, age, misses, timer, due, resync, up, paused, calm, faults>>
          /\ work' = work /\ paused
          /\ beating' = IF timer[m] = NoTimer THEN beating \ {m} ELSE beating
      BY <2>1 DEF Skip
    <3> QED
      BY <1>1, <3>1
  <2>2. CASE Begin(m)
    <3>1. /\ UNCHANGED <<life, age, misses, timer, due, resync, up, paused, calm, faults>>
          /\ work' = [work EXCEPT ![m] = [Idle EXCEPT !.pc = "node"]]
          /\ beating' = beating
      BY <2>2 DEF Begin
    <3>2. /\ work'[m] = [Idle EXCEPT !.pc = "node"]
          /\ \A n \in Machines \ {m} : work'[n] = work[n]
      BY <3>1 DEF TypeOK
    <3>3. /\ work'[m].pc = "node" /\ work'[m].spent = 0 /\ work'[m].stamp = 0
          /\ ~work'[m].again
      BY <3>2 DEF Idle
    <3> QED
      BY <3>1, <3>2, <3>3
  <2> QED
    BY <2>1, <2>2
<1>3. \/ NoNewWork /\ m \notin Busy'
      \/ /\ m \in Busy' /\ work'[m].spent = 0
         /\ \A b \in Busy' \ {m} : b \in Busy /\ work'[b].spent = work[b].spent
  <2>1. CASE work'[m].pc = "idle"
    BY <1>2, <2>1 DEF NoNewWork, Busy
  <2>2. CASE work'[m].pc = "node"
    BY <1>2, <2>2 DEF Busy
  <2> QED
    BY <1>2, <2>1, <2>2
<1>4. /\ QueueCoherent'
      /\ Queued' = Queued \ {m}
      /\ \A n \in Machines \ {m} : Carried(n)
  BY <1>1, <1>3, QueueShrinks DEF Coherent
<1>5. PICK j \in DOMAIN queue :
         queue[j] = m /\ \A t, bound \in Int : Reached(j, t, bound) => t <= bound
  BY <1>1, <1>3, QueueShrinks DEF Coherent
<1>6. \A i \in DOMAIN queue' : queue'[i] # m
  BY <1>4 DEF Queued
<1>7. \A n \in Machines : WorkCoherent(n)'
  <2>1. ASSUME NEW n \in Machines PROVE WorkCoherent(n)'
    <3>1. WorkCoherent(n)
      BY DEF Coherent
    <3>2. CASE n # m \/ work'[m].pc = "idle"
      BY <1>2, <3>1, <3>2 DEF WorkCoherent, Busy
    <3>3. CASE n = m /\ work'[m].pc = "node"
      BY <1>2, <3>3 DEF WorkCoherent
    <3> QED
      BY <1>2, <3>2, <3>3
  <2> QED
    BY <2>1
<1>8. ASSUME NEW n \in Machines \ {m} PROVE BeatCoherent(n)' /\ CalmCoherent(n)'
  <2>1. BeatCoherent(n) /\ CalmCoherent(n) /\ Carried(n) /\ (n \in Queued => n \in Queued')
    BY <1>4 DEF Coherent
  <2>2. BeatCoherent(n)'
    BY <1>2, <2>1, BeatFrame DEF Beats
  <2>3. CalmCoherent(n)'
    BY <1>2, <2>1, CalmFrame DEF Lagging, Settled
  <2> QED
    BY <2>2, <2>3
<1>9. BeatCoherent(m)'
  <2> SUFFICES ASSUME Beats(m)' PROVE BeatCoherent(m)'
    BY DEF BeatCoherent
  <2>1. Beats(m)
    BY <1>2 DEF Beats
  <2>2. /\ timer[m] # NoTimer => age[m] + timer[m] <= misses[m] * Cycle + Period + Latency
        /\ Reached(j, age[m], misses[m] * Cycle + Cycle)
    BY <1>1, <1>5, <2>1 DEF Coherent, BeatCoherent
  <2>3. age[m] \in Int /\ misses[m] * Cycle + Cycle \in Int
    BY Numbers, CycleType
  <2>4. age[m] <= misses[m] * Cycle + Cycle
    BY <1>5, <2>2, <2>3
  <2>5. CASE work'[m].pc = "idle"
    BY <1>2, <1>6, <2>2, <2>5 DEF BeatCoherent, Beats
  <2>6. CASE work'[m].pc = "node"
    <3>1. m \in Busy'
      BY <2>6 DEF Busy
    <3>2. age[m] <= misses[m] * Cycle + Cycle + 0
      BY <2>3, <2>4
    <3> QED
      BY <1>2, <1>6, <2>2, <2>6, <3>1, <3>2 DEF BeatCoherent
  <2> QED
    BY <1>2, <2>5, <2>6
<1>10. CalmCoherent(m)'
  <2>1. work'[m].pc # "patch"
    BY <1>2
  <2> SUFFICES ASSUME Lagging(m)' PROVE CalmCoherent(m)'
    BY <2>1 DEF CalmCoherent
  <2>2. Lagging(m) /\ work'[m].pc = "node"
    BY <1>2 DEF Lagging, Settled
  <2>3. Reached(j, calm, Limit) /\ calm \in Int /\ Limit \in Int
    BY <1>5, <2>2, Numbers, CycleType, Times DEF Coherent, CalmCoherent, Limit, K
  <2>4. calm <= Limit + 0
    BY <1>5, <2>3
  <2>5. Underway(m)'
    BY <2>2 DEF Underway
  <2> QED
    BY <1>2, <1>6, <2>2, <2>4, <2>5 DEF CalmCoherent, Limit, K
<1>11. MissesCounted' /\ (calm' > 0 => up' /\ ~paused')
  BY <1>2 DEF Coherent, MissesCounted
<1> QED
  BY <1>4, <1>7, <1>8, <1>9, <1>10, <1>11 DEF Coherent

\* ReadTime, WriteLease and RenewalFails: the queue stays, and a reconcile goes on.
LEMMA GoesOn ==
    ASSUME TypeOK, Coherent, NEW m \in Machines, m \in Busy, queue' = queue,
           NEW pc \in {"lease", "patch"}, work'[m].pc = pc,
           work'[m].spent = work[m].spent, work'[m].again = work[m].again,
           work'[m].stamp = work[m].stamp \/ work'[m].stamp = 0,
           \A n \in Machines \ {m} : work'[n] = work[n]
    PROVE  /\ QueueCoherent' /\ Busy' = Busy /\ Queued' = Queued
           /\ \A n \in Machines : Carried(n) /\ WorkCoherent(n)'
           /\ \A i \in DOMAIN queue' : queue'[i] # m
<1>1. Busy' = Busy
  BY DEF Busy
<1>2. NoNewWork
  BY <1>1 DEF NoNewWork, Busy
<1>3. QueueCoherent' /\ Queued' = Queued /\ \A n \in Machines : Carried(n)
  BY <1>2, QueueStays DEF Coherent
<1>4. ASSUME NEW n \in Machines PROVE WorkCoherent(n)'
  BY <1>1, Numbers DEF Coherent, WorkCoherent
<1>5. m \notin Queued
  BY DEF Coherent, QueueCoherent
<1> QED
  BY <1>1, <1>3, <1>4, <1>5 DEF Queued

\* The time is read, and the Lease written with it, which is then that old.
LEMMA RenewStep ==
    ASSUME TypeOK, TypeOK', Coherent, NEW m \in Machines, ReadTime(m) \/ WriteLease(m)
    PROVE  Coherent'
<1> USE DEF machineVars
<1>1. m \in Busy /\ work[m].pc \in {"node", "lease"}
  BY DEF ReadTime, WriteLease, Busy
<1>2. /\ UNCHANGED <<life, queue, timer, due, resync, up, paused, calm, faults>>
      /\ work'[m].pc \in {"lease", "patch"}
      /\ work'[m].spent = work[m].spent /\ work'[m].again = work[m].again
      /\ work'[m].stamp = work[m].stamp \/ work'[m].stamp = 0
      /\ \A n \in Machines \ {m} :
            /\ work'[n] = work[n] /\ age'[n] = age[n] /\ misses'[n] = misses[n]
            /\ n \in beating' <=> n \in beating
      /\ m \in beating => m \in beating'
      /\ work'[m].pc = "lease" => age' = age /\ misses' = misses /\ beating' = beating
                                  /\ work[m].pc = "node"
      /\ \/ work'[m].pc = "patch" /\ age'[m] = work[m].stamp /\ misses'[m] = 0 /\ m \in beating'
         \/ work'[m].pc = "patch" /\ life[m] = "nodeless"
         \/ work'[m].pc = "lease"
      /\ misses'[m] = misses[m] \/ misses'[m] = 0
  <2>1. /\ work[m] \in Works /\ work \in [Machines -> Works]
        /\ age \in [Machines -> 0 .. Old] /\ misses \in [Machines -> 0 .. MaxFaults]
    BY DEF TypeOK
  <2>2. CASE ReadTime(m)
    BY <2>1, <2>2 DEF ReadTime, Works
  <2>3. CASE WriteLease(m)
    BY <2>1, <2>3 DEF WriteLease, Works
  <2> QED
    BY <2>2, <2>3
<1>3. /\ QueueCoherent' /\ Busy' = Busy /\ Queued' = Queued
      /\ \A n \in Machines : Carried(n) /\ WorkCoherent(n)'
      /\ \A i \in DOMAIN queue' : queue'[i] # m
  BY <1>1, <1>2, GoesOn
<1>4. ASSUME NEW n \in Machines \ {m} PROVE BeatCoherent(n)' /\ CalmCoherent(n)'
  <2>1. BeatCoherent(n) /\ CalmCoherent(n) /\ Carried(n) /\ (n \in Queued => n \in Queued')
    BY <1>3 DEF Coherent
  <2>2. BeatCoherent(n)'
    BY <1>2, <2>1, BeatFrame DEF Beats
  <2>3. CalmCoherent(n)'
    BY <1>2, <2>1, CalmFrame DEF Lagging, Settled
  <2> QED
    BY <2>2, <2>3
<1>5. BeatCoherent(m)'
  <2> SUFFICES ASSUME Beats(m)' PROVE BeatCoherent(m)'
    BY DEF BeatCoherent
  <2>1. CASE work'[m].pc = "lease"
    <3>1. BeatCoherent(m) /\ Beats(m)
      BY <1>2, <2>1 DEF Coherent, Beats
    <3> QED
      BY <1>1, <1>2, <1>3, <2>1, <3>1 DEF BeatCoherent
  <2>2. CASE work'[m].pc = "patch" /\ age'[m] = work[m].stamp /\ misses'[m] = 0
    <3>1. misses'[m] * Cycle = 0
      BY <2>2, MissedNext
    <3>2. age'[m] <= 0 + work'[m].spent
      BY <1>2, <2>2, Numbers DEF Coherent, WorkCoherent
    <3> QED
      BY <1>1, <1>3, <2>2, <3>1, <3>2 DEF BeatCoherent
  <2>3. CASE life[m] = "nodeless"
    BY <1>2, <2>3 DEF Beats
  <2> QED
    BY <1>2, <2>1, <2>2, <2>3
<1>6. CalmCoherent(m)'
  <2>1. CalmCoherent(m)
    BY DEF Coherent
  <2>2. CASE work'[m].pc = "lease"
    <3>1. work'[m].pc # "patch" /\ (Lagging(m)' => Lagging(m)) /\ Underway(m) /\ Underway(m)'
      BY <1>2, <2>2 DEF Lagging, Settled, Underway
    <3> QED
      BY <1>1, <1>2, <1>3, <2>1, <3>1 DEF CalmCoherent
  <2>3. CASE misses'[m] = 0 /\ m \in beating'
    BY <2>3 DEF CalmCoherent, Lagging, Settled
  <2>4. CASE life[m] = "nodeless"
    BY <1>2, <2>4 DEF CalmCoherent, Lagging
  <2> QED
    BY <1>2, <2>2, <2>3, <2>4
<1>7. MissesCounted'
  <2>1. \A n \in Machines : misses'[n] = misses[n] \/ misses'[n] = 0
    BY <1>2
  <2>2. faults \in Nat
    BY Times DEF TypeOK
  <2> QED
    BY <1>2, <2>1, <2>2 DEF Coherent, MissesCounted
<1>8. calm' > 0 => up' /\ ~paused'
  BY <1>2 DEF Coherent
<1> QED
  BY <1>3, <1>4, <1>5, <1>6, <1>7, <1>8 DEF Coherent

\* Finish and ProvisioningFails: the worker is done with a machine.
LEMMA DoneQueue ==
    ASSUME TypeOK, Coherent, NEW m \in Machines, m \in Busy, Done(m)
    PROVE  /\ QueueCoherent' /\ m \notin Busy' /\ work'[m] = Idle
           /\ \A n \in Machines : WorkCoherent(n)' /\ (n \in Queued => n \in Queued')
           /\ \A n \in Machines \ {m} : Carried(n) /\ work'[n] = work[n]
           /\ Fresh(m)
           /\ work[m].again => m \in Queued'
           /\ \A i \in DOMAIN queue' : i \in 1 .. K
<1>1. work'[m] = Idle /\ \A n \in Machines \ {m} : work'[n] = work[n]
  BY DEF Done, TypeOK
<1>2. m \notin Busy' /\ NoNewWork
  BY <1>1 DEF Busy, NoNewWork, Idle
<1>3. m \notin Queued
  BY DEF Coherent, QueueCoherent
<1>4. ASSUME NEW n \in Machines PROVE WorkCoherent(n)'
  BY <1>1, Times DEF Coherent, WorkCoherent, Idle, Busy
<1>5. Len(queue) \in Nat /\ Len(queue) + 1 <= K
  <2>1. {m} \in SUBSET (Machines \ Queued) /\ Cardinality({m}) = 1
    BY <1>3, FS_Singleton
  <2> QED
    BY <2>1, Room DEF Coherent
<1>6. CASE work[m].again
  <2>1. queue' = Append(queue, m)
    BY <1>6 DEF Done
  <2>2. \A i \in DOMAIN queue' : i \in 1 .. K
    <3>1. queue \in Seq(Machines)
      BY DEF TypeOK
    <3>2. DOMAIN queue' = 1 .. Len(queue) + 1
      BY <2>1, <3>1
    <3> QED
      BY <1>5, <3>2, SomeMachines
  <2>3. /\ QueueCoherent' /\ Queued' = Queued \union {m}
        /\ \A n \in Machines \ {m} : Carried(n)
        /\ Fresh(m)
    <3>1. QueueCoherent
      BY DEF Coherent
    <3> QED
      BY <1>2, <1>3, <2>1, <3>1, QueueGrows
  <2>4. \A n \in Machines : WorkCoherent(n)' /\ (n \in Queued => n \in Queued')
    BY <1>4, <2>3
  <2>5. \A n \in Machines \ {m} : Carried(n) /\ work'[n] = work[n]
    BY <1>1, <2>3
  <2>6. m \in Queued'
    BY <2>3
  <2> QED
    BY <1>1, <1>2, <2>2, <2>3, <2>4, <2>5, <2>6
<1>7. CASE ~work[m].again
  <2>1. queue' = queue
    BY <1>7 DEF Done
  <2>2. \A i \in DOMAIN queue' : i \in 1 .. K
    <3>1. queue \in Seq(Machines)
      BY DEF TypeOK
    <3>2. DOMAIN queue = 1 .. Len(queue)
      BY <3>1
    <3> QED
      BY <1>5, <2>1, <3>2, SomeMachines
  <2>3. QueueCoherent' /\ Queued' = Queued /\ \A n \in Machines : Carried(n)
    BY <1>2, <2>1, QueueStays DEF Coherent
  <2>4. Fresh(m)
    BY <1>3, <2>1 DEF Fresh, Queued
  <2> QED
    BY <1>1, <1>2, <1>4, <1>7, <2>2, <2>3, <2>4
<1> QED
  BY <1>6, <1>7

\* A reconcile that ends leaves its machine with a timer of a period at most.
LEMMA FinishStep ==
    ASSUME TypeOK, TypeOK', Coherent, NEW m \in Machines, Finish(m)
    PROVE  Coherent'
<1>1. m \in Busy /\ work[m].pc = "patch" /\ Done(m)
  BY DEF Finish, Busy
<1>2. /\ UNCHANGED <<age, beating, misses, due, resync, up, paused, calm, faults>>
      /\ timer'[m] = Sooner(m, Period)
      /\ \A n \in Machines \ {m} : timer'[n] = timer[n] /\ life'[n] = life[n]
      /\ life'[m] = IF life[m] = "booted" THEN "provisioned" ELSE life[m]
  BY DEF Finish, TypeOK
<1>3. /\ QueueCoherent' /\ m \notin Busy' /\ work'[m] = Idle
      /\ \A n \in Machines : WorkCoherent(n)' /\ (n \in Queued => n \in Queued')
      /\ \A n \in Machines \ {m} : Carried(n) /\ work'[n] = work[n]
      /\ Fresh(m)
      /\ work[m].again => m \in Queued'
  BY <1>1, DoneQueue
<1>4. ASSUME NEW n \in Machines \ {m} PROVE BeatCoherent(n)' /\ CalmCoherent(n)'
  <2>1. BeatCoherent(n) /\ CalmCoherent(n) /\ Carried(n) /\ (n \in Queued => n \in Queued')
    BY <1>3 DEF Coherent
  <2>2. BeatCoherent(n)'
    BY <1>2, <1>3, <2>1, BeatFrame DEF Beats
  <2>3. CalmCoherent(n)'
    BY <1>2, <1>3, <2>1, CalmFrame DEF Lagging, Settled
  <2> QED
    BY <2>2, <2>3
<1>5. work'[m].pc = "idle"
  BY <1>3 DEF Idle
<1>6. BeatCoherent(m)'
  <2>1. timer'[m] \in 0 .. Period /\ timer'[m] # NoTimer
    BY <1>2, SoonerType, Times DEF NoTimer
  <2>2. Beats(m)' => /\ age'[m] <= misses'[m] * Cycle + Period + Latency
                     /\ age'[m] + timer'[m] <= misses'[m] * Cycle + Period + Latency
    <3> SUFFICES ASSUME Beats(m)'
                 PROVE  /\ age[m] <= misses[m] * Cycle + Period + Latency
                        /\ age[m] + timer'[m] <= misses[m] * Cycle + Period + Latency
      BY <1>2
    <3>1. Beats(m)
      BY <1>2 DEF Beats
    <3>2. age[m] <= misses[m] * Cycle + work[m].spent
      BY <1>1, <3>1 DEF Coherent, BeatCoherent
    <3>3. timer'[m] \in Nat /\ timer'[m] <= Period
      BY <2>1, Times
    <3> QED
      BY <3>2, <3>3, Numbers, Times
  <2> QED
    BY <1>3, <1>5, <2>1, <2>2, BeatFresh
<1>7. CalmCoherent(m)'
  <2>1. CalmCoherent(m)
    BY DEF Coherent
  <2>2. Lagging(m)' => Lagging(m)
    BY <1>1, <1>2, <2>1 DEF Lagging, Settled, CalmCoherent
  <2>3. Lagging(m) => /\ calm <= ResyncPeriod
                      /\ calm + resync <= ResyncPeriod \/ m \in due \/ m \in Queued'
    <3> SUFFICES ASSUME Lagging(m)
                 PROVE  /\ calm <= ResyncPeriod
                        /\ calm + resync <= ResyncPeriod \/ m \in due \/ m \in Queued'
      OBVIOUS
    <3>1. calm <= work[m].spent
      BY <1>1, <2>1 DEF CalmCoherent
    <3>2. ~Underway(m)
      BY <1>1 DEF Underway, Coherent, QueueCoherent
    <3> QED
      BY <1>3, <2>1, <3>1, <3>2, Numbers, Times DEF CalmCoherent
  <2> QED
    BY <1>2, <1>3, <1>5, <2>2, <2>3, CalmFresh
<1>8. MissesCounted' /\ (calm' > 0 => up' /\ ~paused')
  BY <1>2 DEF Coherent, MissesCounted
<1> QED
  BY <1>3, <1>4, <1>6, <1>7, <1>8 DEF Coherent

\* No place in the queue is beyond the number of machines.
LEMMA QueueBound ==
    ASSUME TypeOK, QueueCoherent
    PROVE  \A i \in DOMAIN queue : i \in 1 .. K
<1>1. Len(queue) \in Nat /\ Len(queue) <= K
  BY Room, FS_EmptySet
<1> QED
  BY <1>1, SomeMachines DEF TypeOK

\* A miss makes up for a cycle.
LEMMA OneMore ==
    ASSUME TypeOK, NEW m \in Machines, misses'[m] = misses[m] + 1
    PROVE  misses'[m] * Cycle = misses[m] * Cycle + Cycle
BY Numbers, MissedNext

\* A machine whose provisioning failed is put off, and beats on only if that is no
\* longer than a period.
LEMMA ProvisioningFailsStep ==
    ASSUME TypeOK, TypeOK', MissesCounted', Coherent, NEW m \in Machines, ProvisioningFails(m)
    PROVE  Coherent'
<1>1. m \in Busy /\ life[m] = "booted" /\ Done(m)
  BY DEF ProvisioningFails, Busy
<1>2. /\ UNCHANGED <<age, due, resync, up, paused>>
      /\ calm' = 0
      /\ timer'[m] \in Nat /\ (m \in beating' => m \in beating /\ timer'[m] <= Period)
      /\ \A n \in Machines \ {m} :
            /\ timer'[n] = timer[n] /\ misses'[n] = misses[n] /\ life'[n] = life[n]
            /\ n \in beating' <=> n \in beating
      /\ misses'[m] = IF work[m].pc = "patch" THEN misses[m] ELSE misses[m] + 1
  <2>1. PICK delay \in 0 .. Backoff : timer' = [timer EXCEPT ![m] = Sooner(m, delay)]
    BY DEF ProvisioningFails
  <2>2. timer'[m] \in Nat /\ timer'[m] = Sooner(m, delay)
    BY <2>1, SoonerType, LongestType DEF TypeOK
  <2>3. m \in beating' => m \in beating /\ timer'[m] <= Period
    BY <2>2, Times DEF ProvisioningFails
  <2>4. ASSUME NEW n \in Machines \ {m}
        PROVE  /\ timer'[n] = timer[n] /\ misses'[n] = misses[n] /\ life'[n] = life[n]
               /\ n \in beating' <=> n \in beating
    BY <2>1 DEF ProvisioningFails, TypeOK
  <2>5. misses'[m] = IF work[m].pc = "patch" THEN misses[m] ELSE misses[m] + 1
    BY DEF ProvisioningFails, TypeOK
  <2> QED
    BY <2>2, <2>3, <2>4, <2>5 DEF ProvisioningFails, Fault
<1>3. /\ QueueCoherent' /\ m \notin Busy' /\ work'[m] = Idle
      /\ \A n \in Machines : WorkCoherent(n)' /\ (n \in Queued => n \in Queued')
      /\ \A n \in Machines \ {m} : Carried(n) /\ work'[n] = work[n]
      /\ Fresh(m)
      /\ \A i \in DOMAIN queue' : i \in 1 .. K
  BY <1>1, DoneQueue
<1>4. work'[m].pc = "idle"
  BY <1>3 DEF Idle
<1>5. ASSUME NEW n \in Machines \ {m} PROVE BeatCoherent(n)'
  <2>1. BeatCoherent(n) /\ Carried(n) /\ (n \in Queued => n \in Queued')
    BY <1>3 DEF Coherent
  <2> QED
    BY <1>2, <1>3, <2>1, BeatFrame DEF Beats
<1>6. BeatCoherent(m)'
  <2>1. timer'[m] # NoTimer
    BY <1>2 DEF NoTimer
  <2>2. Beats(m)' => Beats(m) /\ timer'[m] <= Period
    BY <1>1, <1>2 DEF Beats
  <2>3. Beats(m) => age[m] <= misses'[m] * Cycle + Latency
    <3>1. ASSUME Beats(m), work[m].pc = "patch" PROVE age[m] <= misses'[m] * Cycle + Latency
      <4>1. age[m] <= misses[m] * Cycle + work[m].spent
        BY <3>1 DEF Coherent, BeatCoherent
      <4> QED
        BY <1>2, <3>1, <4>1, Numbers, Times
    <3>2. ASSUME Beats(m), work[m].pc \in {"node", "lease"}
          PROVE  age[m] <= misses'[m] * Cycle + Latency
      <4>1. age[m] <= misses[m] * Cycle + Cycle + work[m].spent
        BY <3>2 DEF Coherent, BeatCoherent
      <4>2. misses'[m] * Cycle = misses[m] * Cycle + Cycle
        BY <1>2, <3>2, OneMore
      <4> QED
        BY <4>1, <4>2, Numbers, CycleType, Times
    <3> QED
      BY <1>1, <3>1, <3>2, Numbers DEF Busy, Works
  <2>4. misses'[m] * Cycle \in Int
    BY <1>2, Numbers, OneMore, CycleType
  <2>5. ASSUME Beats(m)'
        PROVE  /\ age[m] <= misses'[m] * Cycle + Period + Latency
               /\ age[m] + timer'[m] <= misses'[m] * Cycle + Period + Latency
    <3> DEFINE missed == misses'[m] * Cycle
    <3>1. age[m] \in Int /\ missed \in Int /\ age[m] <= missed + Latency
      BY <2>2, <2>3, <2>4, <2>5, Numbers
    <3>2. timer'[m] \in Nat /\ timer'[m] <= Period
      BY <1>2, <2>2, <2>5
    <3> HIDE DEF missed
    <3>3. age[m] <= missed + Period + Latency /\ age[m] + timer'[m] <= missed + Period + Latency
      BY <3>1, <3>2, Times
    <3> QED
      BY <3>3 DEF missed
  <2> QED
    BY <1>2, <1>3, <1>4, <2>1, <2>5, BeatFresh
<1>7. ASSUME NEW n \in Machines PROVE CalmCoherent(n)'
  <2>1. life'[n] = "booted" /\ work'[n].pc = "patch" => Settled(n)'
    BY <1>2, <1>3, <1>4 DEF Coherent, CalmCoherent, Settled
  <2> QED
    BY <1>2, <1>3, <2>1, CalmReset
<1> QED
  BY <1>2, <1>3, <1>5, <1>6, <1>7 DEF Coherent

\* A renewal that failed costs a miss, which is worth a cycle.
LEMMA RenewalFailsStep ==
    ASSUME TypeOK, TypeOK', MissesCounted', Coherent, NEW m \in Machines, RenewalFails(m)
    PROVE  Coherent'
<1>1. m \in Busy /\ life[m] = "provisioned" /\ work[m].pc \in {"node", "lease"}
  BY DEF RenewalFails, Busy
<1>2. /\ UNCHANGED <<life, age, beating, queue, timer, due, resync, up, paused>>
      /\ calm' = 0
      /\ work'[m].pc = "patch" /\ work'[m].spent = work[m].spent
      /\ work'[m].again = work[m].again /\ work'[m].stamp = work[m].stamp
      /\ misses'[m] = misses[m] + 1
      /\ \A n \in Machines \ {m} : misses'[n] = misses[n] /\ work'[n] = work[n]
  BY DEF RenewalFails, Fault, TypeOK, Works
<1>3. /\ QueueCoherent' /\ Busy' = Busy /\ Queued' = Queued
      /\ \A n \in Machines : Carried(n) /\ WorkCoherent(n)'
      /\ \A i \in DOMAIN queue' : queue'[i] # m
  BY <1>1, <1>2, GoesOn
<1>4. ASSUME NEW n \in Machines \ {m} PROVE BeatCoherent(n)'
  <2>1. BeatCoherent(n) /\ Carried(n) /\ (n \in Queued => n \in Queued')
    BY <1>3 DEF Coherent
  <2> QED
    BY <1>2, <2>1, BeatFrame DEF Beats
<1>5. BeatCoherent(m)'
  <2> SUFFICES ASSUME Beats(m)' PROVE BeatCoherent(m)'
    BY DEF BeatCoherent
  <2>1. Beats(m) /\ BeatCoherent(m)
    BY <1>2 DEF Beats, Coherent
  <2>2. age[m] <= misses[m] * Cycle + Cycle + work[m].spent
    BY <1>1, <2>1 DEF BeatCoherent
  <2>3. misses'[m] * Cycle = misses[m] * Cycle + Cycle
    BY <1>2, OneMore
  <2> QED
    BY <1>1, <1>2, <1>3, <2>2, <2>3 DEF BeatCoherent
<1>6. ASSUME NEW n \in Machines PROVE CalmCoherent(n)'
  <2>1. life'[n] = "booted" /\ work'[n].pc = "patch" => Settled(n)'
    BY <1>1, <1>2 DEF Coherent, CalmCoherent, Settled
  <2>2. \A i \in DOMAIN queue' : i \in 1 .. K
    BY <1>2, QueueBound DEF Coherent
  <2> QED
    BY <1>2, <2>1, <2>2, CalmReset
<1> QED
  BY <1>2, <1>3, <1>4, <1>5, <1>6 DEF Coherent

\* RemoveNode, Restart and SetPaused leave the queue and the reconciles alone.
LEMMA WorldStep ==
    ASSUME TypeOK, TypeOK', MissesCounted', Coherent,
           UNCHANGED <<queue, timer, work, age, misses>>, calm' = 0, beating' \subseteq beating,
           \/ UNCHANGED <<life, beating>>
           \/ \E m \in Machines :
                 /\ life' = [life EXCEPT ![m] = "nodeless"]
                 /\ beating' = beating \ {m}
    PROVE  Coherent'
<1>1. Busy' = Busy /\ NoNewWork
  BY DEF Busy, NoNewWork
<1>2. QueueCoherent' /\ Queued' = Queued /\ \A n \in Machines : Carried(n)
  BY <1>1, QueueStays DEF Coherent
<1>3. ASSUME NEW n \in Machines PROVE WorkCoherent(n)' /\ BeatCoherent(n)' /\ CalmCoherent(n)'
  <2>1. WorkCoherent(n)'
    BY <1>1 DEF Coherent, WorkCoherent
  <2>2. Beats(n)' => Beats(n)
    BY DEF Beats, TypeOK
  <2>3. BeatCoherent(n)'
    BY <1>2, <2>2, BeatFrame DEF Coherent
  <2>4. life'[n] = "booted" /\ work'[n].pc = "patch" => Settled(n)'
    BY DEF Coherent, CalmCoherent, Settled, TypeOK
  <2>5. CalmCoherent(n)'
    BY <2>4, QueueBound, CalmReset DEF Coherent
  <2> QED
    BY <2>1, <2>3, <2>5
<1> QED
  BY <1>2, <1>3 DEF Coherent

\* A manager that stops drops every heartbeat.
LEMMA CrashStep ==
    ASSUME TypeOK, TypeOK', MissesCounted', Coherent, Crash
    PROVE  Coherent'
<1>1. /\ DOMAIN queue' = {} /\ beating' = {} /\ calm' = 0
      /\ \A n \in Machines : work'[n] = Idle
  BY DEF Crash, Fault
<1>2. QueueCoherent'
  BY <1>1 DEF QueueCoherent, Queued
<1>3. ASSUME NEW n \in Machines PROVE WorkCoherent(n)' /\ BeatCoherent(n)' /\ CalmCoherent(n)'
  <2>1. work'[n].pc = "idle" /\ work'[n].spent = 0 /\ work'[n].stamp = 0 /\ ~work'[n].again
    BY <1>1 DEF Idle
  <2>2. WorkCoherent(n)' /\ BeatCoherent(n)'
    BY <1>1, <2>1 DEF WorkCoherent, BeatCoherent, Beats
  <2>3. CalmCoherent(n)'
    BY <1>1, <2>1, CalmReset
  <2> QED
    BY <2>2, <2>3
<1> QED
  BY <1>1, <1>2, <1>3 DEF Coherent

\* Time passes only while every reconcile in flight has time left, and a machine
\* is queued only while every worker is taken.
LEMMA TickStep ==
    ASSUME TypeOK, TypeOK', MissesCounted', Coherent, Tick
    PROVE  Coherent'
<1>1. /\ UNCHANGED <<life, beating, misses, queue, up, paused>>
      /\ due = {} /\ due' = Resynced
      /\ \A n \in Machines :
            /\ timer[n] # 0
            /\ age'[n] = Least(age[n] + 1, Old)
            /\ timer'[n] = IF timer[n] = NoTimer THEN NoTimer ELSE timer[n] - 1
            /\ work'[n] = IF n \in Busy THEN Aged(work[n]) ELSE work[n]
      /\ queue # <<>> => ~Free
      /\ \A b \in Busy : work[b].spent # Latency
  BY DEF Tick, Urgent
<1>2. /\ Busy' = Busy
      /\ \A n \in Machines : work'[n].pc = work[n].pc /\ work'[n].again = work[n].again
      /\ \A b \in Busy : /\ work'[b].spent = work[b].spent + 1
                         /\ work[b].spent + 1 <= Latency
                         /\ work'[b].stamp = Least(work[b].stamp + 1, Latency)
      /\ \A n \in Machines \ Busy : work'[n] = work[n]
  <2>1. \A n \in Machines : work[n] \in Works /\ work[n].spent \in Nat /\ work[n].spent <= Latency
    BY Numbers
  <2>2. \A n \in Machines :
           /\ work'[n].pc = work[n].pc /\ work'[n].again = work[n].again
           /\ n \in Busy => /\ work'[n].spent = work[n].spent + 1
                            /\ work'[n].stamp = Least(work[n].stamp + 1, Latency)
    BY <1>1, <2>1 DEF Aged, Works
  <2>3. \A b \in Busy : work[b].spent + 1 <= Latency
    BY <1>1, <2>1, Times DEF Busy
  <2> QED
    BY <1>1, <2>2, <2>3 DEF Busy
<1>3. QueueCoherent' /\ Queued' = Queued
  BY <1>1, <1>2 DEF Coherent, QueueCoherent, Queued
<1>4. \A n \in Machines : WorkCoherent(n)'
  <2>1. ASSUME NEW n \in Machines PROVE WorkCoherent(n)'
    <3>1. CASE n \in Busy
      BY <1>2, <3>1, Numbers, Times DEF Coherent, WorkCoherent, Least
    <3>2. CASE n \notin Busy
      BY <1>2, <3>2 DEF Coherent, WorkCoherent
    <3> QED
      BY <3>1, <3>2
  <2> QED
    BY <2>1
<1>5. ASSUME NEW i \in DOMAIN queue, NEW t \in Int, NEW next \in Int, NEW bound \in Int,
             next <= t + 1, Reached(i, t, bound)
      PROVE  next + Turns(i - 1) <= bound
             /\ \A b \in Busy' : next + (Latency - work'[b].spent) + Turns(i - 1) <= bound
  <2>1. Turns(i - 1) \in Int
    BY TurnsType DEF TypeOK
  <2>2. ASSUME NEW b \in Busy
        PROVE  /\ next + Turns(i - 1) <= bound
               /\ next + (Latency - work'[b].spent) + Turns(i - 1) <= bound
    <3>1. /\ t + (Latency - work[b].spent) + Turns(i - 1) <= bound
          /\ work[b].spent \in Nat /\ work[b].spent + 1 <= Latency
          /\ work'[b].spent = work[b].spent + 1
      BY <1>2, <1>5, Numbers DEF Reached, Busy
    <3>2. \A x \in Int, spent \in Nat :
             t + (Latency - spent) + x <= bound /\ spent + 1 <= Latency =>
                 next + x <= bound /\ next + (Latency - (spent + 1)) + x <= bound
      BY <1>5, Times
    <3> QED
      BY <2>1, <3>1, <3>2
  <2>3. PICK b \in Busy : TRUE
    <3>1. ~Free
      BY <1>1 DEF TypeOK
    <3>2. Busy # {}
      BY <3>1, ConcurrencyAssumption, FS_EmptySet DEF Free
    <3> QED
      BY <3>2
  <2> QED
    BY <1>2, <2>2, <2>3
<1>6. ASSUME NEW n \in Machines PROVE BeatCoherent(n)'
  <2> SUFFICES ASSUME Beats(n)' PROVE BeatCoherent(n)'
    BY DEF BeatCoherent
  <2> DEFINE missed == misses[n] * Cycle
  <2>1. /\ timer[n] # NoTimer /\ work[n].pc # "patch" =>
              age[n] + timer[n] <= missed + Period + Latency
        /\ timer[n] = NoTimer => n \in Queued \union Busy
        /\ \A i \in DOMAIN queue : queue[i] = n => Reached(i, age[n], missed + Cycle)
        /\ work[n].pc \in {"node", "lease"} => age[n] <= missed + Cycle + work[n].spent
        /\ work[n].pc = "patch" => age[n] <= missed + work[n].spent
    BY <1>1 DEF Coherent, BeatCoherent, Beats
  <2>2. missed' = missed /\ missed \in Nat /\ age[n] \in Nat /\ age'[n] \in Int /\ age'[n] <= age[n] + 1
    BY <1>1, Numbers, OldType DEF Least
  <2> HIDE DEF missed
  <2>3. timer'[n] # NoTimer /\ work'[n].pc # "patch" =>
           age'[n] + timer'[n] <= missed + Period + Latency
    <3>1. timer'[n] # NoTimer => timer[n] # NoTimer /\ timer'[n] = timer[n] - 1
      BY <1>1
    <3> QED
      BY <1>2, <2>1, <2>2, <3>1, Numbers, Times
  <2>4. timer'[n] = NoTimer => timer[n] = NoTimer
    <3>1. timer[n] # NoTimer => timer[n] \in Nat
      BY Numbers
    <3> QED
      BY <1>1, <3>1 DEF NoTimer
  <2>5. \A i \in DOMAIN queue' : queue'[i] = n => Reached(i, age[n], misses[n] * Cycle + Cycle)'
    <3>1. ASSUME NEW i \in DOMAIN queue, queue[i] = n
          PROVE  /\ age'[n] + Turns(i - 1) <= missed + Cycle
                 /\ \A b \in Busy' : age'[n] + (Latency - work'[b].spent) + Turns(i - 1) <= missed + Cycle
      <4>1. Reached(i, age[n], missed + Cycle)
        BY <2>1, <3>1
      <4>2. age[n] \in Int /\ missed + Cycle \in Int
        BY <2>2, CycleType
      <4> QED
        BY <1>5, <2>2, <4>1, <4>2
    <3> QED
      BY <1>1, <2>2, <3>1 DEF Reached, missed
  <2>6. work'[n].pc \in {"node", "lease"} => age'[n] <= missed + Cycle + work'[n].spent
    <3>1. work'[n].pc \in {"node", "lease"} => n \in Busy
      BY <1>2 DEF Busy
    <3> QED
      BY <1>2, <2>1, <2>2, <3>1, Numbers, CycleType
  <2>7. work'[n].pc = "patch" => age'[n] <= missed + work'[n].spent
    <3>1. work'[n].pc = "patch" => n \in Busy
      BY <1>2 DEF Busy
    <3> QED
      BY <1>2, <2>1, <2>2, <3>1, Numbers
  <2> QED
    BY <1>2, <1>3, <2>1, <2>2, <2>3, <2>4, <2>5, <2>6, <2>7 DEF BeatCoherent, missed
<1>7. ASSUME NEW n \in Machines PROVE CalmCoherent(n)'
  <2>1. CalmCoherent(n)
    BY DEF Coherent
  <2>2. life'[n] = "booted" /\ work'[n].pc = "patch" => Settled(n)'
    BY <1>1, <1>2, <2>1 DEF CalmCoherent, Settled
  <2> SUFFICES ASSUME Lagging(n)' PROVE CalmCoherent(n)'
    BY <2>2 DEF CalmCoherent
  <2>3. /\ calm + resync <= ResyncPeriod \/ Underway(n) \/ work[n].again
        /\ \A i \in DOMAIN queue : queue[i] = n => Reached(i, calm, Limit)
        /\ work[n].pc \in {"node", "lease"} => calm <= Limit + work[n].spent
        /\ work[n].pc = "patch" => calm <= work[n].spent
        /\ up /\ ~paused
    BY <1>1, <2>1 DEF CalmCoherent, Lagging, Settled, Limit, K
  <2>4. /\ calm \in Nat /\ calm' \in Int /\ calm' <= calm + 1 /\ Limit \in Int
        /\ resync \in Nat \ {0}
    BY <2>3, Numbers, RecoveryType, CycleType, Times DEF Tick, Least, Limit
  <2>5. Underway(n)' = Underway(n)
    BY <1>2, <1>3 DEF Underway
  <2>6. \/ resync = 1 /\ n \in due'
        \/ resync' = resync - 1 /\ due' = {}
    BY <2>3 DEF Tick, Resynced
  <2>7. \/ calm' + resync' <= ResyncPeriod
        \/ n \in due' \/ Underway(n)' \/ work'[n].again
    BY <1>2, <2>3, <2>4, <2>5, <2>6, Times
  <2>8. n \in due' /\ ~Underway(n)' => calm' <= ResyncPeriod
    <3> SUFFICES ASSUME n \in due', ~Underway(n) PROVE calm' <= ResyncPeriod
      BY <2>5
    <3>1. CASE calm + resync <= ResyncPeriod
      BY <2>4, <3>1, Times
    <3>2. CASE work[n].again
      <4>1. n \in Busy /\ work[n].pc = "patch"
        BY <3>2, Numbers DEF Coherent, WorkCoherent, Underway, Busy, Works
      <4>2. calm <= work[n].spent /\ work[n].spent + 1 <= Latency
        BY <1>2, <2>3, <4>1
      <4> QED
        BY <2>4, <4>2, Numbers, Times
    <3> QED
      BY <2>3, <3>1, <3>2
  <2>9. \A i \in DOMAIN queue' : queue'[i] = n => Reached(i, calm, Limit)'
    <3>1. ASSUME NEW i \in DOMAIN queue, queue[i] = n
          PROVE  /\ calm' + Turns(i - 1) <= Limit
                 /\ \A b \in Busy' : calm' + (Latency - work'[b].spent) + Turns(i - 1) <= Limit
      BY <1>5, <2>3, <2>4, <3>1
    <3> QED
      BY <1>1, <3>1 DEF Reached, Limit
  <2>10. work'[n].pc \in {"node", "lease"} => calm' <= Limit + work'[n].spent
    <3>1. work'[n].pc \in {"node", "lease"} => n \in Busy
      BY <1>2 DEF Busy
    <3> QED
      BY <1>2, <2>3, <2>4, <3>1, Numbers
  <2>11. work'[n].pc = "patch" => calm' <= work'[n].spent
    <3>1. work'[n].pc = "patch" => n \in Busy
      BY <1>2 DEF Busy
    <3> QED
      BY <1>2, <2>3, <2>4, <3>1, Numbers
  <2> QED
    BY <2>2, <2>7, <2>8, <2>9, <2>10, <2>11 DEF CalmCoherent, Limit, K
<1>8. calm' > 0 => up' /\ ~paused'
  BY DEF Tick
<1> QED
  BY <1>3, <1>4, <1>6, <1>7, <1>8 DEF Coherent

\* Every step keeps the invariant.
LEMMA StepCoherent ==
    ASSUME TypeOK, Coherent, [Next]_vars
    PROVE  TypeOK' /\ Coherent'
<1>1. TypeOK' /\ MissesCounted'
  BY StepTypeOK DEF Coherent
<1>2. ASSUME NEW m \in Machines, Fire(m) \/ Deliver(m) \/ Event(m) PROVE Coherent'
  <2>1. CASE Fire(m)
    BY <1>1, <2>1, AddStep DEF Fire
  <2>2. CASE Deliver(m)
    BY <1>1, <2>2, AddStep DEF Deliver
  <2>3. CASE Event(m)
    BY <1>1, <2>3, AddStep DEF Event
  <2> QED
    BY <1>2, <2>1, <2>2, <2>3
<1>3. ASSUME NEW m \in Machines, Reconcile(m) PROVE Coherent'
  BY <1>1, <1>3, TakeStep, RenewStep, FinishStep, RenewalFailsStep, ProvisioningFailsStep
     DEF Reconcile
<1>4. ASSUME NEW m \in Machines, RemoveNode(m) PROVE Coherent'
  BY <1>1, <1>4, WorldStep DEF RemoveNode, managerVars, Fault
<1>5. CASE Tick
  BY <1>1, <1>5, TickStep
<1>6. CASE Crash
  BY <1>1, <1>6, CrashStep
<1>7. CASE Restart \/ SetPaused
  BY <1>1, <1>7, WorldStep DEF Restart, SetPaused, machineVars, managerVars
<1>8. CASE UNCHANGED vars
  <2> USE <1>8 DEF vars, machineVars, managerVars
  <2>1. NoNewWork
    BY DEF NoNewWork, Busy
  <2>2. QueueCoherent' /\ Queued' = Queued /\ \A n \in Machines : Carried(n)
    BY <2>1, QueueStays DEF Coherent
  <2>3. ASSUME NEW n \in Machines PROVE WorkCoherent(n)' /\ BeatCoherent(n)' /\ CalmCoherent(n)'
    <3>1. WorkCoherent(n)'
      BY DEF Coherent, WorkCoherent, Busy
    <3>2. BeatCoherent(n)'
      BY <2>2, BeatFrame DEF Coherent, Beats
    <3>3. CalmCoherent(n)'
      BY <2>2, CalmFrame DEF Coherent, Lagging, Settled
    <3> QED
      BY <3>1, <3>2, <3>3
  <2> QED
    BY <1>1, <2>2, <2>3 DEF Coherent
<1> QED
  BY <1>1, <1>2, <1>3, <1>4, <1>5, <1>6, <1>7, <1>8 DEF Next

-----------------------------------------------------------------------------
(***************************************************************************)
(* Theorems                                                                 *)
(***************************************************************************)

\* The types and Coherent together are inductive.
THEOREM InductiveInvariant == Spec => [](TypeOK /\ Coherent)
<1>1. Init => TypeOK /\ Coherent
  BY InitTypeOK, InitCoherent
<1>2. (TypeOK /\ Coherent) /\ [Next]_vars => (TypeOK /\ Coherent)'
  BY StepCoherent
<1> QED
  BY <1>1, <1>2, PTL DEF Spec

\* The age of the Lease of a machine that beats grows by one cycle of the queue
\* with every renewal that fails in a row, however many machines share the workers.
THEOREM LeaseAgeIsBounded == Spec => []LeaseAgeBounded
<1>1. TypeOK /\ Coherent => LeaseAgeBounded
  <2> SUFFICES ASSUME TypeOK, Coherent, NEW m \in Machines, Beats(m)
               PROVE  age[m] <= (misses[m] + 1) * Cycle + Latency
    BY DEF LeaseAgeBounded
  <2> DEFINE missed == misses[m] * Cycle
  <2>1. /\ timer[m] # NoTimer /\ work[m].pc # "patch" =>
              age[m] + timer[m] <= missed + Period + Latency
        /\ timer[m] = NoTimer => m \in Queued \union Busy
        /\ \A i \in DOMAIN queue : queue[i] = m => Reached(i, age[m], missed + Cycle)
        /\ work[m].pc \in {"node", "lease"} => age[m] <= missed + Cycle + work[m].spent
        /\ work[m].pc = "patch" => age[m] <= missed + work[m].spent
    BY DEF Coherent, BeatCoherent
  <2>2. missed \in Nat /\ (misses[m] + 1) * Cycle = missed + Cycle
    BY Numbers, MissedNext
  <2>3. age[m] \in Nat /\ work[m].spent \in Nat /\ work[m].spent <= Latency
    BY Numbers
  <2> HIDE DEF missed
  <2>4. CASE timer[m] # NoTimer /\ work[m].pc # "patch"
    <3>1. timer[m] \in Nat
      BY <2>4, Numbers
    <3> QED
      BY <2>1, <2>2, <2>3, <2>4, <3>1, CycleType, Times
  <2>5. CASE m \in Queued
    <3>1. PICK i \in DOMAIN queue : queue[i] = m
      BY <2>5 DEF Queued
    <3>2. age[m] + Turns(i - 1) <= missed + Cycle
      BY <2>1, <3>1 DEF Reached
    <3>3. i - 1 \in Int /\ 0 <= i - 1
      BY DEF TypeOK
    <3>4. 0 <= Turns(i - 1) /\ Turns(i - 1) \in Int
      BY <3>3, TurnsGrow, TurnsType, CycleType
    <3> QED
      BY <2>2, <2>3, <3>2, <3>4, CycleType, Times
  <2>6. CASE m \in Busy
    <3>1. work[m].pc \in {"node", "lease", "patch"}
      BY <2>6, Numbers DEF Busy, Works
    <3> QED
      BY <2>1, <2>2, <2>3, <3>1, CycleType, Times
  <2> QED
    BY <2>1, <2>4, <2>5, <2>6 DEF Busy
<1> QED
  BY <1>1, InductiveInvariant, PTL

\* While every renewal succeeds no Lease expires, if the slack between Duration and
\* Period is enough for a reconcile of every machine and one more.
THEOREM LeasesAreKeptAlive == Spec => []LeaseKeptAlive
<1>1. TypeOK /\ LeaseAgeBounded => LeaseKeptAlive
  <2> SUFFICES ASSUME TypeOK, LeaseAgeBounded, Cycle + Latency <= Duration,
                      NEW m \in Machines, Beats(m), misses[m] = 0
               PROVE  age[m] <= Duration
    BY DEF LeaseKeptAlive
  <2>1. age[m] <= (0 + 1) * Cycle + Latency
    BY DEF LeaseAgeBounded
  <2>2. age[m] \in Nat /\ (0 + 1) * Cycle = Cycle
    BY Numbers, CycleType
  <2> QED
    BY <2>1, <2>2, CycleType, Times
<1> QED
  BY <1>1, TypeCorrect, LeaseAgeIsBounded, PTL

\* A manager that has run for Recovery, unpaused and without a failure, has renewed
\* every provisioned machine, whatever was lost before.
THEOREM HeartbeatsRecover == Spec => []HeartbeatRecovers
<1>1. TypeOK /\ Coherent => HeartbeatRecovers
  <2> SUFFICES ASSUME TypeOK, Coherent, calm = Recovery, NEW m \in Machines,
                      life[m] = "provisioned", ~Settled(m)
               PROVE  FALSE
    BY DEF HeartbeatRecovers, Settled
  <2>1. calm = Limit + Latency + 1 /\ Limit \in Nat /\ Limit >= ResyncPeriod
    BY RecoveryType, CycleType, Times DEF Limit
  <2>2. Lagging(m)
    <3>1. calm > 0
      BY <2>1, Times
    <3> QED
      BY <3>1 DEF Lagging, Coherent
  <2>3. /\ calm + resync <= ResyncPeriod \/ m \in due \/ Underway(m) \/ work[m].again
        /\ m \in due /\ ~Underway(m) => calm <= ResyncPeriod
        /\ \A i \in DOMAIN queue : queue[i] = m => Reached(i, calm, Limit)
        /\ work[m].pc \in {"node", "lease"} => calm <= Limit + work[m].spent
        /\ work[m].pc = "patch" => calm <= work[m].spent
        /\ work[m].again => m \in Busy
    BY <2>2 DEF Coherent, CalmCoherent, WorkCoherent, Limit, K
  <2>4. resync \in Nat /\ work[m].spent \in Nat /\ work[m].spent <= Latency
        /\ work[m] \in Works
    BY Numbers
  <2>5. work[m].pc = "idle" /\ ~work[m].again
    <3>1. work[m].pc \notin {"node", "lease", "patch"}
      BY <2>1, <2>3, <2>4, Times
    <3> QED
      BY <2>3, <2>4, <3>1 DEF Works, Busy
  <2>6. m \notin Queued
    <3> SUFFICES ASSUME NEW i \in DOMAIN queue, queue[i] = m PROVE FALSE
      BY DEF Queued
    <3>1. calm + Turns(i - 1) <= Limit
      BY <2>3 DEF Reached
    <3>2. i - 1 \in Int /\ 0 <= i - 1
      BY DEF TypeOK
    <3>3. 0 <= Turns(i - 1) /\ Turns(i - 1) \in Int
      BY <3>2, TurnsGrow, TurnsType, CycleType
    <3> QED
      BY <2>1, <3>1, <3>3, Times
  <2> QED
    BY <2>1, <2>3, <2>4, <2>5, <2>6, Times DEF Underway
<1> QED
  BY <1>1, InductiveInvariant, PTL
=============================================================================
