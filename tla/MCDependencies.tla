--------------------------- MODULE MCDependencies ---------------------------
(* Instances of Dependencies for TLC *)
EXTENDS Dependencies

World(s, d, e) == [i \in Identities |-> CASE i = "s" -> s [] i = "d" -> d [] i = "e" -> e]
SomeWorlds == {World({}, {"west"}, {"west"}), World({"west"}, {"east"}, {}),
               World({"west"}, {"east"}, {"west"})}

AnyRequest == {{"d"}, {"d", "e"}}

B(c, m, f, o, r) == [changes |-> c, moves |-> m, failures |-> f, overlaps |-> o, restarts |-> r]
SomeBudgets == {B(1, 2, 0, 0, 0), B(2, 1, 1, 0, 0), B(1, 1, 0, 1, 0), B(1, 1, 0, 0, 1)}
=============================================================================
