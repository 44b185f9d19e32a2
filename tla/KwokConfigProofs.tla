-------------------------- MODULE KwokConfigProofs --------------------------
(***************************************************************************)
(* Proofs about KwokConfig, for any number of KwokConfigs that bear the     *)
(* name in turn and any number of failures: type correctness, and that a    *)
(* ready KwokConfig of a clean start has a secret of its own.               *)
(***************************************************************************)
EXTENDS KwokConfig, TLAPS

LEMMA ConstantTypes == Idle \in Works /\ NoConfig \in Configs /\ NoSecret \in Secrets
BY LimitsAssumption DEF Idle, Works, NoConfig, Configs, NoSecret, Secrets

LEMMA NewConfigType ==
    ASSUME NEW u \in 1 .. MaxUid
    PROVE  [NoConfig EXCEPT !.uid = u] \in Configs
<1>1. NoConfig \in [uid : {0}, owned : BOOLEAN, ready : BOOLEAN]
  BY DEF NoConfig
<1>2. [NoConfig EXCEPT !.uid = u] \in [uid : 1 .. MaxUid, owned : BOOLEAN, ready : BOOLEAN]
  BY <1>1
<1> QED
  BY <1>2 DEF Configs

LEMMA InitTypeOK == Init => TypeOK
<1> SUFFICES ASSUME Init PROVE TypeOK
  OBVIOUS
<1>1. uids \in 0 .. MaxUid /\ faults \in 0 .. MaxFaults
  BY LimitsAssumption DEF Init
<1>2. paused \in BOOLEAN /\ queue \in BOOLEAN /\ clean \in BOOLEAN
  BY DEF Init
<1> QED
  BY <1>1, <1>2, ConstantTypes DEF Init, TypeOK

\* The uid of a stored or cached KwokConfig, and what Create leaves, are in range.
LEMMA RecordTypes ==
    ASSUME TypeOK
    PROVE  /\ config.uid \in 0 .. MaxUid /\ cache.uid \in 0 .. MaxUid
           /\ config.uid # 0 => config \in [uid : 1 .. MaxUid, owned : BOOLEAN, ready : BOOLEAN]
           /\ Created \in Secrets
BY LimitsAssumption DEF TypeOK, Configs, NoConfig, Created, Secrets, Works

LEMMA StepTypeOK == TypeOK /\ [Next]_vars => TypeOK'
<1> SUFFICES ASSUME TypeOK, [Next]_vars PROVE TypeOK'
  OBVIOUS
<1> USE RecordTypes, ConstantTypes DEF TypeOK
<1>f. Fault => faults' \in 0 .. MaxFaults
  BY LimitsAssumption DEF Fault
<1>s. config.uid # 0 => /\ [config EXCEPT !.ready = TRUE] \in Configs
                        /\ [config EXCEPT !.owned = TRUE] \in Configs
  BY DEF Configs
<1>1. CASE Skip \/ Begin
  <2>1. [pc |-> "createSecret", uid |-> cache.uid] \in Works
    BY DEF Works
  <2>2. work' \in Works /\ queue' \in BOOLEAN
    BY <1>1, <2>1 DEF Skip, Begin, Take
  <2> QED
    BY <1>1, <2>2 DEF Skip, Begin
<1>2. CASE CreateSecret \/ CreateFails
  <2>1. [work EXCEPT !.pc = "patch"] \in Works
    BY DEF Works
  <2>2. work' \in Works /\ secret' \in Secrets /\ queue' \in BOOLEAN
    BY <1>2, <2>1 DEF CreateSecret, CreateFails, Retry
  <2> QED
    BY <1>2, <1>f, <2>2 DEF CreateSecret, CreateFails
<1>3. CASE Patch \/ PatchFails
  <2>1. config' \in Configs /\ work' = Idle /\ queue' \in BOOLEAN
    BY <1>3, <1>s DEF Patch, PatchFails, Retry
  <2> QED
    BY <1>3, <1>f, <2>1 DEF Patch, PatchFails
<1>4. CASE Sync \/ Resync \/ Restart
  BY <1>4, <1>f DEF Sync, Resync, Restart
<1>5. CASE CreateConfig
  <2>1. uids + 1 \in 1 .. MaxUid /\ uids + 1 \in 0 .. MaxUid
    BY <1>5, LimitsAssumption DEF CreateConfig
  <2>2. [NoConfig EXCEPT !.uid = uids + 1] \in Configs
    BY <2>1, NewConfigType
  <2>3. clean' \in BOOLEAN
    BY <1>5 DEF CreateConfig
  <2> QED
    BY <1>5, <2>1, <2>2, <2>3 DEF CreateConfig
<1>6. CASE SetOwner \/ DeleteConfig \/ SetPaused \/ Collect
  BY <1>6, <1>s DEF SetOwner, DeleteConfig, SetPaused, Collect
<1>7. CASE UNCHANGED vars
  BY <1>7 DEF vars
<1> QED
  BY <1>1, <1>2, <1>3, <1>4, <1>5, <1>6, <1>7 DEF Next, Reconcile

\* Every variable keeps its type; a KwokConfig that is gone is never patched
\* back into being.
THEOREM TypeCorrect == Spec => []TypeOK
BY InitTypeOK, StepTypeOK, PTL DEF Spec

\* A step of the reconcile acts for the KwokConfig it was started for.
LEMMA ReconcileCleanLife ==
    ASSUME TypeOK, CleanLife, Reconcile
    PROVE  CleanLife'
<1> USE DEF CleanLife, TypeOK
<1>1. CASE Skip
  BY <1>1 DEF Skip, Take
<1>2. CASE Begin
  BY <1>2 DEF Begin, Take, Idle
<1>3. CASE CreateSecret
  BY <1>3 DEF CreateSecret, Created, Idle, Works
<1>4. CASE CreateFails
  BY <1>4 DEF CreateFails, Created, Retry, Idle, Works
<1>5. CASE Patch
  <2>1. [config EXCEPT !.ready = TRUE].uid = config.uid
    BY DEF Configs, NoConfig
  <2> QED
    BY <1>5, <2>1 DEF Patch, Retry, Idle
<1>6. CASE PatchFails
  <2>1. [config EXCEPT !.ready = TRUE].uid = config.uid
    BY DEF Configs, NoConfig
  <2> QED
    BY <1>6, <2>1 DEF PatchFails, Retry, Idle
<1> QED
  BY <1>1, <1>2, <1>3, <1>4, <1>5, <1>6 DEF Reconcile

\* A new life is clean only if nothing is left of an earlier one, and what the
\* informer delivers or collects is then of this life.
LEMMA StepCleanLife == TypeOK /\ CleanLife /\ [Next]_vars => CleanLife'
<1> SUFFICES ASSUME TypeOK, CleanLife, [Next]_vars PROVE CleanLife'
  OBVIOUS
<1> USE DEF CleanLife, TypeOK
<1>1. CASE Reconcile
  BY <1>1, ReconcileCleanLife
<1>2. CASE Sync \/ Resync
  BY <1>2 DEF Sync, Resync
<1>3. CASE Restart
  BY <1>3 DEF Restart, Idle
<1>4. CASE CreateConfig
  BY <1>4 DEF CreateConfig, NoConfig, Idle
<1>5. CASE SetOwner
  <2>1. /\ [config EXCEPT !.owned = TRUE].uid = config.uid
        /\ [config EXCEPT !.owned = TRUE].ready = config.ready
    BY DEF Configs, NoConfig
  <2> QED
    BY <1>5, <2>1 DEF SetOwner
<1>6. CASE DeleteConfig \/ SetPaused
  BY <1>6 DEF DeleteConfig, SetPaused
<1>7. CASE Collect
  BY <1>7 DEF Collect
<1>8. CASE UNCHANGED vars
  BY <1>8 DEF vars
<1> QED
  BY <1>1, <1>2, <1>3, <1>4, <1>5, <1>6, <1>7, <1>8 DEF Next

\* A ready KwokConfig of a clean start has its own secret, for any number of
\* failures and of KwokConfigs of that name.
THEOREM ReadyConfigHasSecret == Spec => []ReadyHasSecret
<1>1. Init => CleanLife
  BY DEF Init, CleanLife
<1>2. TypeOK /\ CleanLife => ReadyHasSecret
  BY DEF TypeOK, CleanLife, ReadyHasSecret, Secrets
<1> QED
  BY <1>1, <1>2, InitTypeOK, StepTypeOK, StepCleanLife, PTL DEF Spec

=============================================================================
