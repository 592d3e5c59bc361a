-------------------------- MODULE MCLocalityRouting --------------------------
(* Instances of LocalityRouting for TLC *)
EXTENDS LocalityRouting

Plain(d)   == [dep |-> d, rol |-> "plain", step |-> 0]
Canary(n)  == [dep |-> FALSE, rol |-> "canary", step |-> n]
Deployed   == [dep |-> TRUE, rol |-> "none", step |-> 0]
BlueGreen  == [dep |-> FALSE, rol |-> "bluegreen", step |-> 0]

Failover(n) == [lb |-> "FAILOVER", here |-> n]
Topology    == [lb |-> "TOPOLOGY", here |-> 0]

\* A third of the traffic to the canary: 33 * 50 is not a whole percentage
SomeWorks    == {Deployed, Canary(33), Nothing}
SomePolicies == {[default |-> Failover(50), extra |-> Unset],
                 [default |-> Topology, extra |-> Failover(75)]}
B(c, f, o, n) == [changes |-> c, failures |-> f, overlaps |-> o, nudges |-> n]

Begin(w, g, m, d, b) == [work |-> w, gtp |-> g, multi |-> m, disabled |-> d, budget |-> b]

Half == [default |-> Failover(50), extra |-> Unset]
SomeBudgets == {B(2, 1, 0, 0), B(1, 0, 1, 0), B(1, 1, 0, 1)}

\* The last one: the switch goes back and forth between three runs
SomeStarts ==
    {Begin(w, g, TRUE, FALSE, b) :
       w \in {Canary(33), Deployed}, g \in {NoPolicy, Half}, b \in SomeBudgets}
    \cup {Begin(w, NoPolicy, FALSE, FALSE, b) :
       w \in {Canary(84), BlueGreen, Plain(TRUE)}, b \in SomeBudgets}
    \cup {Begin(Deployed, NoPolicy, FALSE, TRUE, B(2, 0, 0, 2))}
=============================================================================
