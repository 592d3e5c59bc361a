----------------------------- MODULE MCIstioSync -----------------------------
(***************************************************************************)
(* Instances of IstioSync for TLC.                                         *)
(***************************************************************************)
EXTENDS IstioSync

CONSTANTS c1, c2

Spare == [edits |-> 1, namesakes |-> 0, deletes |-> 0, skips |-> 0, failures |-> 0,
          registers |-> 0, deregisters |-> 0, switches |-> 0, toggles |-> 0,
          interrupts |-> 0, clients |-> 1]

\* Failures, of an object that is edited and of one that is not; clusters that come and
\* go; dependents that appear; changes of the mode; an object that is no longer to be
\* copied; two objects, or one that is edited, and their deletions, without
\* dependents, which is when every cluster is a target; two objects with a dependent;
\* an object that is edited, deleted and perhaps created again, with a dependent
Disturbances == {
    [Spare EXCEPT !.failures = 2],
    [Spare EXCEPT !.failures = 1, !.edits = 2],
    [Spare EXCEPT !.registers = 1, !.deregisters = 1, !.deletes = 1],
    [Spare EXCEPT !.switches = 1, !.deletes = 1],
    [Spare EXCEPT !.toggles = 2, !.interrupts = 2],
    [Spare EXCEPT !.skips = 1, !.edits = 2],
    [Spare EXCEPT !.edits = 2, !.namesakes = 1, !.deletes = 2, !.clients = 0],
    [Spare EXCEPT !.edits = 2, !.namesakes = 1],
    [Spare EXCEPT !.edits = 2, !.deletes = 1]}

Deps == {{}, {c2}}
Regs == {{c1}, {c1, c2}}
=============================================================================
