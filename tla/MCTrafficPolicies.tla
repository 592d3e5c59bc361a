------------------------- MODULE MCTrafficPolicies -------------------------
(* Instances of TrafficPolicies for TLC *)
EXTENDS TrafficPolicies, TLC

\* Two clusters in two regions
TwoRegions == "west" :> "west" @@ "east" :> "east"

\* Two prefixes: one in each region, either way round, and one that is no failover
D(p, default, canary) == [to |-> "default" :> default @@ "canary" :> canary, prio |-> p]
SomeDesigns ==
    {D(0, "west", "east"), D(0, "east", "none"), D(1, "east", "west")}

\* `<` on the decimal representations of versions below 100
LeftAligned(v) == IF v < 10 THEN 10 * v ELSE v
DecimalLess(a, b) ==
    \/ LeftAligned(a) < LeftAligned(b)
    \/ LeftAligned(a) = LeftAligned(b) /\ a < b

B(c, j, f, o) == [changes |-> c, joins |-> j, failures |-> f, overlaps |-> o]
SomePlaces  == {<<"west", "p">>, <<"west", "q">>, <<"east", "p">>}
SomeBudgets == {B(3, 1, 0, 0), B(2, 1, 1, 0), B(2, 0, 0, 1)}
=============================================================================
