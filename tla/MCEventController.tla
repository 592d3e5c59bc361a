-------------------------- MODULE MCEventController --------------------------
(***************************************************************************)
(* Instances of EventController for TLC, and its properties.               *)
(***************************************************************************)
EXTENDS EventController, FiniteSets

\* `<` on the decimal representations of versions below 100
LeftAligned(v) == IF v < 10 THEN 10 * v ELSE v

DecimalLess(a, b) ==
    \/ LeftAligned(a) < LeftAligned(b)
    \/ LeftAligned(a) = LeftAligned(b) /\ a < b

\* Handlers that fail until they are given up, a handler that fails while the
\* versions gain a digit, deployments that are deleted and created again, a bit
\* of everything, and workers that overlap
AllBudgets ==
    {[writes |-> 2, deletes |-> 0, ignores |-> 0, failures |-> 3, toggles |-> 0, overlaps |-> 0],
     [writes |-> 3, deletes |-> 0, ignores |-> 0, failures |-> 1, toggles |-> 0, overlaps |-> 0],
     [writes |-> 4, deletes |-> 2, ignores |-> 0, failures |-> 0, toggles |-> 0, overlaps |-> 0],
     [writes |-> 2, deletes |-> 1, ignores |-> 1, failures |-> 1, toggles |-> 1, overlaps |-> 0],
     [writes |-> 2, deletes |-> 1, ignores |-> 0, failures |-> 1, toggles |-> 0, overlaps |-> 1]}

\* A handler that fails once, and a deployment that is deleted once
RetryAndDelete ==
    {[writes |-> 3, deletes |-> 1, ignores |-> 0, failures |-> 1, toggles |-> 0, overlaps |-> 0]}
=============================================================================
