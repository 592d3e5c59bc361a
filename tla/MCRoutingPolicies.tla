------------------------- MODULE MCRoutingPolicies -------------------------
(***************************************************************************)
(* Instances of RoutingPolicies for TLC.                                   *)
(***************************************************************************)
EXTENDS RoutingPolicies, TLC

CONSTANTS c1, c2, k1, k2

Some(changes, asks, moves, failures, overlaps, toggles, restarts) ==
    [changes |-> changes, asks |-> asks, moves |-> moves, failures |-> failures,
     overlaps |-> overlaps, toggles |-> toggles, restarts |-> restarts]

\* One client in both clusters and the other in one, or in none
SomeWorlds == {(c1 :> {k1, k2}) @@ (c2 :> {k1}), (c1 :> {k1}) @@ (c2 :> {})}

\* A deletion that fails while policies are made anew and clients come; the two
\* workers at once; a restart; a client that moves and a change of the mode
SomeBudgets ==
    {Some(3, 1, 0, 1, 0, 0, 0), Some(2, 2, 0, 1, 0, 0, 0), Some(2, 2, 0, 0, 1, 0, 0),
     Some(2, 1, 0, 0, 0, 0, 1), Some(2, 1, 1, 0, 0, 1, 0)}

Alike == Permutations(Names) \cup Permutations(Plugins) \cup Permutations(Versions)
=============================================================================
