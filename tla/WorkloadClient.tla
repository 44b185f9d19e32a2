--------------------------- MODULE WorkloadClient ---------------------------
(***************************************************************************)
(* The workload cluster of one CAPI Cluster as the machine controller sees *)
(* it: an API server that appears and disappears (kwokctl up and down), the *)
(* kubeconfig secret in the management cluster, and the process-wide cache  *)
(* of clients, WorkloadClusterClientFactory (workload_client.go).           *)
(*                                                                          *)
(* A cluster that is torn down and built again under the same name gets a   *)
(* new generation: new certificates and a new address, so that a client     *)
(* built for an earlier generation reaches nothing.                         *)
(***************************************************************************)
EXTENDS Naturals

CONSTANT MaxGen      \* bound on how often the workload cluster is (re)built

ASSUME MaxGenAssumption == MaxGen \in Nat

VARIABLES
    gen,      \* generation of the workload cluster, 0 before the first
    server,   \* is it not there, installed but not answering, or running?
    secret,   \* generation the <cluster>-kubeconfig secret gives access to, 0 if absent
    client    \* generation the factory's cached client talks to, 0 if none is cached

clientVars == <<gen, server, secret, client>>

Gens == 0 .. MaxGen
ServerStates == {"none", "stopped", "running"}

ClientTypeOK ==
    /\ gen \in Gens
    /\ server \in ServerStates
    /\ secret \in Gens
    /\ client \in Gens

ClientInit ==
    /\ gen = 0
    /\ server = "none"
    /\ secret = 0
    /\ client = 0

(***************************************************************************)
(* GetClient                                                                *)
(***************************************************************************)

\* The first critical section of GetClient finds an entry for the cluster.
Cached == client # 0

\* A client built for generation c gets an answer from the API server.
Reaches(c) == server = "running" /\ c = gen

\* The second critical section stores what was built, whoever stored before.
StoreClient(c) == client' = c

(***************************************************************************)
(* The workload cluster's own life, driven by the control plane controller  *)
(* (KwokControlPlane implements it)                                         *)
(***************************************************************************)

\* Install: new certificates in a new working directory.
WorkloadInstall ==
    /\ server = "none"
    /\ gen < MaxGen
    /\ gen' = gen + 1
    /\ server' = "stopped"
    /\ UNCHANGED <<secret, client>>

\* Up, at first or again after an outage.
WorkloadStart ==
    /\ server = "stopped"
    /\ server' = "running"
    /\ UNCHANGED <<gen, secret, client>>

\* Its processes or containers die, what it stored stays.
WorkloadStop ==
    /\ server = "running"
    /\ server' = "stopped"
    /\ UNCHANGED <<gen, secret, client>>

\* Mutant: the secret is for the cluster that comes next.
PublishKubeconfigAhead ==
    /\ server # "none"
    /\ secret = 0
    /\ secret' = gen + 1
    /\ UNCHANGED <<gen, server, client>>

\* createKindKubeconfigSecret and createKubeconfigSecret only ever create it.
PublishKubeconfig ==
    /\ server # "none"
    /\ secret = 0
    /\ secret' = gen
    /\ UNCHANGED <<gen, server, client>>

\* Down and Uninstall.
WorkloadDown ==
    /\ server # "none"
    /\ server' = "none"
    /\ UNCHANGED <<gen, secret, client>>

\* The secret is collected some time after the control plane that owned it
\* has gone, possibly after its successor was installed.
CollectKubeconfig ==
    /\ secret # 0
    /\ secret' = 0
    /\ UNCHANGED <<gen, server, client>>

WorkloadSteps ==
    \/ WorkloadInstall \/ WorkloadStart \/ WorkloadStop
    \/ PublishKubeconfig \/ CollectKubeconfig

WorkloadSpec == ClientInit /\ [][WorkloadSteps \/ WorkloadDown]_clientVars
=============================================================================
