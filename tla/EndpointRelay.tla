----------------------------- MODULE EndpointRelay -----------------------------
(***************************************************************************)
(* What the KwokClusters promise their readers, the Cluster controller of    *)
(* Cluster API above all, about the endpoints they show: it says nothing of  *)
(* control planes, informers, reconciles, patches or restarts.  An endpoint  *)
(* is told apart by how many its control plane's name had published by then. *)
(* Both KwokControlPlane, where the controller is one step, and KwokCluster, *)
(* where it is many, implement this module.                                 *)
(***************************************************************************)
EXTENDS Naturals

CONSTANT Clusters

VARIABLES
    last,    \* for each, the endpoint published last, 0 before the first
    due,     \* the oldest endpoint that may still arrive
    shown    \* what a reader sees of the KwokCluster

relayVars == <<last, due, shown>>

Nothing == [exists |-> FALSE, ep |-> 0, ready |-> FALSE]

Bare == [exists |-> TRUE, ep |-> 0, ready |-> FALSE]

RelayInit ==
    /\ last = [c \in Clusters |-> 0]
    /\ due = [c \in Clusters |-> 1]
    /\ shown \in [Clusters -> {Nothing, Bare}]

\* An endpoint that was passed over never arrives any more; what is due has been
\* published, or will be next.
Forward(c) == due'[c] \in due[c] .. (last'[c] + 1)

Publish(c) ==
    /\ last'[c] = last[c] + 1
    /\ shown'[c] = shown[c]

\* Only what is due arrives, and only when it has been published; Ready is not
\* taken back.
Show(c) ==
    /\ last'[c] = last[c]
    /\ shown[c].exists
    /\ \E ep \in {0, shown[c].ep, due[c]}, ready \in {TRUE, shown[c].ready} :
          /\ ep <= last[c]
          /\ shown'[c] = [exists |-> TRUE, ep |-> ep, ready |-> ready]

\* A KwokCluster comes back without anything of its predecessor.
Appear(c) ==
    /\ last'[c] = last[c]
    /\ ~shown[c].exists
    /\ shown'[c] \in {shown[c], Bare}

Vanish(c) ==
    /\ last'[c] = last[c]
    /\ shown'[c] = Nothing

\* A restart of the manager moves on what is due of several clusters at once.
RelayNext ==
    \A c \in Clusters :
        Forward(c) /\ (Publish(c) \/ Show(c) \/ Appear(c) \/ Vanish(c))

RelaySpec == RelayInit /\ [][RelayNext]_relayVars
=============================================================================
