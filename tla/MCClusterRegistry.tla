-------------------------- MODULE MCClusterRegistry --------------------------
(* Instances of ClusterRegistry for TLC *)
EXTENDS ClusterRegistry

Data(a, b) == [c \in Clusters |-> IF c = "a" THEN a ELSE b]

\* One or two clusters, two API servers, and a kubeconfig that cannot be loaded
SomeContents == {Data("h1", None), Data("h2", None), Data("h1", "h2"),
                 Data("h2", Unusable)}

B(c, f, r) == [changes |-> c, failures |-> f, restarts |-> r]
SomeBudgets == {B(3, 1, 0), B(2, 1, 1)}
=============================================================================
