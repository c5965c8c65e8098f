------------------------------- MODULE MCPsci -------------------------------
(* Topologies for TLC.                                                     *)
EXTENDS PsciPowerDomains

(* One cluster of two CPUs, the Armada 3700.                               *)
OneCluster == {"cluster"}
OneClusterLevel == [n \in OneCluster |-> 1]
OneClusterParents == [c \in 0 .. 1 |-> [l \in 1 .. 1 |-> "cluster"]]

(* Two root clusters of two CPUs and no system domain, the Armada 8K.      *)
TwoClusters == {"cluster0", "cluster1"}
TwoClustersLevel == [n \in TwoClusters |-> 1]
TwoClustersParents == [c \in 0 .. 3 |-> [l \in 1 .. 1 |->
                         IF c < 2 THEN "cluster0" ELSE "cluster1"]]

(* Two clusters, of two CPUs and of one, in a system domain.               *)
ThreeNodes == {"cluster0", "cluster1", "system"}
ThreeNodesLevel == [n \in ThreeNodes |-> IF n = "system" THEN 2 ELSE 1]
ThreeNodesParents ==
  [c \in 0 .. 2 |-> [l \in 1 .. 2 |->
     IF l = 2 THEN "system" ELSE IF c < 2 THEN "cluster0" ELSE "cluster1"]]

(* For the large instance: everything off, the CPU alone off, a cluster in *)
(* retention under a CPU that is off, and retention of everything.         *)
FourStates == {[l \in 0 .. 2 |-> s[l + 1]] :
                 s \in {<<2, 2, 2>>, <<2, 0, 0>>, <<2, 1, 0>>, <<1, 1, 1>>}}
=============================================================================
