-------------------------- MODULE EndpointRelayProofs --------------------------
(***************************************************************************)
(* What a reader of the KwokClusters may rely on, from EndpointRelay alone:  *)
(* it holds of every module that implements EndpointRelay.                  *)
(***************************************************************************)
EXTENDS EndpointRelay, TLAPS

\* What is shown was due, and has been published.
Ordered(c) ==
    /\ last[c] \in Nat /\ due[c] \in Nat /\ shown[c].ep \in Nat
    /\ shown[c].ep <= last[c] /\ shown[c].ep <= due[c]

RelayInv == \A c \in Clusters : Ordered(c)

\* At first nothing has been shown.
LEMMA InitOrdered == RelayInit => RelayInv
<1> SUFFICES ASSUME RelayInit, NEW c \in Clusters PROVE Ordered(c)
  BY DEF RelayInv
<1>1. last[c] = 0 /\ due[c] = 1 /\ shown[c] \in {Nothing, Bare}
  BY DEF RelayInit
<1> QED
  BY <1>1 DEF Ordered, Nothing, Bare

\* What a step leaves of one cluster.
LEMMA Moves ==
    ASSUME NEW c \in Clusters, RelayNext
    PROVE  /\ Forward(c)
           /\ last'[c] \in {last[c], last[c] + 1}
           /\ shown'[c].ep \in {0, shown[c].ep, due[c]}
           /\ shown'[c].ep \in {0, shown[c].ep} \/ shown'[c].ep <= last'[c]
<1>1. Forward(c) /\ (Publish(c) \/ Show(c) \/ Appear(c) \/ Vanish(c))
  BY DEF RelayNext
<1>2. CASE Publish(c)
  BY <1>1, <1>2 DEF Publish
<1>3. CASE Show(c)
  BY <1>1, <1>3 DEF Show
<1>4. CASE Appear(c)
  BY <1>1, <1>4 DEF Appear, Bare
<1>5. CASE Vanish(c)
  BY <1>1, <1>5 DEF Vanish, Nothing
<1> QED
  BY <1>1, <1>2, <1>3, <1>4, <1>5

\* Every step keeps each cluster's numbers in order.
LEMMA StepOrdered == RelayInv /\ [RelayNext]_relayVars => RelayInv'
<1> SUFFICES ASSUME RelayInv, [RelayNext]_relayVars, NEW c \in Clusters PROVE Ordered(c)'
  BY DEF RelayInv
<1>1. Ordered(c)
  BY DEF RelayInv
<1>2. CASE RelayNext
  BY <1>1, <1>2, Moves DEF Ordered, Forward
<1>3. CASE UNCHANGED relayVars
  BY <1>1, <1>3 DEF Ordered, relayVars
<1> QED
  BY <1>2, <1>3

\* No KwokCluster shows an endpoint before its control plane has published it.
THEOREM ShownIsPublished == RelaySpec => [](\A c \in Clusters : shown[c].ep <= last[c])
<1>1. RelayInv => \A c \in Clusters : shown[c].ep <= last[c]
  BY DEF RelayInv, Ordered
<1> QED
  BY <1>1, InitOrdered, StepOrdered, PTL DEF RelaySpec

\* Once a KwokCluster has shown an endpoint, no older one is ever shown under its
\* name: not in between, not after it showed none, not when it has been deleted
\* and created again.
THEOREM NoOlderOneComes ==
    ASSUME NEW c \in Clusters, NEW e \in Nat \ {0}
    PROVE  RelaySpec => [](shown[c].ep = e => [](shown[c].ep # 0 => shown[c].ep >= e))
<1> DEFINE Passed == due[c] >= e /\ (shown[c].ep # 0 => shown[c].ep >= e)
<1>1. RelayInv /\ shown[c].ep = e => Passed
  BY DEF RelayInv, Ordered
<1>2. RelayInv /\ Passed /\ [RelayNext]_relayVars => Passed'
  <2> SUFFICES ASSUME RelayInv, Passed, [RelayNext]_relayVars PROVE Passed'
    OBVIOUS
  <2>1. Ordered(c) /\ Ordered(c)'
    BY StepOrdered DEF RelayInv
  <2>2. CASE RelayNext
    BY <2>1, <2>2, Moves DEF Ordered, Forward
  <2>3. CASE UNCHANGED relayVars
    BY <2>3 DEF relayVars
  <2> QED
    BY <2>2, <2>3
<1>3. Passed => (shown[c].ep # 0 => shown[c].ep >= e)
  OBVIOUS
<1> HIDE DEF Passed
<1> QED
  BY <1>1, <1>2, <1>3, InitOrdered, StepOrdered, PTL DEF RelaySpec
=============================================================================
