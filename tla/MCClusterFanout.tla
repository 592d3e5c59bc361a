--------------------------- MODULE MCClusterFanout ---------------------------
(***************************************************************************)
(* Instances of ClusterFanout for TLC.                                     *)
(***************************************************************************)
EXTENDS ClusterFanout, TLC

CONSTANTS a, b, policy, bad

\* One of the entries has a traffic policy that adds a pair of objects
Lengths == (a :> 1) @@ (b :> 1) @@ (policy :> 2) @@ (bad :> 1)

\* The entry with the policy, alone and beside one without hosts, and two
\* plain entries
SomeCalls == {{policy}, {policy, bad}, {a, b}}
=============================================================================
