------------------------- MODULE MCEntryGeneration -------------------------
(* Instances of EntryGeneration for TLC *)
EXTENDS EntryGeneration, TLC

CONSTANTS c1, c2

Nothing   == Unseen
Deployed  == [dep |-> TRUE, rol |-> "none", svc |-> {"d1"}]
Migration == [dep |-> TRUE, rol |-> "plain", svc |-> {"d1", "r"}]
Rolled(s) == [dep |-> FALSE, rol |-> s, svc |-> {"r"}]

B(changes, failures, suspensions, overlaps) ==
    [changes |-> changes, failures |-> failures,
     suspensions |-> suspensions, overlaps |-> overlaps]

\* A deployment alone and next to a rollout in another cluster, and a cluster
\* in the middle of a migration
SomeScenarios ==
    [holds : {c1 :> Deployed @@ c2 :> Nothing},
     budget : {B(2, 0, 0, 0), B(1, 1, 0, 0), B(1, 0, 2, 1)}]
    \cup [holds : {c1 :> Migration @@ c2 :> Nothing},
          budget : {B(1, 0, 0, 0), B(0, 1, 0, 0), B(0, 0, 1, 1)}]
    \cup [holds : {c1 :> Deployed @@ c2 :> Rolled("split")},
          budget : {B(1, 0, 0, 0), B(0, 1, 0, 0), B(0, 0, 0, 1)}]
=============================================================================
