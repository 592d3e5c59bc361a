------------------------ MODULE MCServiceEntryWriter ------------------------
(***************************************************************************)
(* Instances of ServiceEntryWriter for TLC.                                *)
(***************************************************************************)
EXTENDS ServiceEntryWriter
CONSTANTS e1, e2, e3, w1

\* Specs whose endpoints have a locality
Located == SUBSET {e1, e2, Dummy}

\* One worker, writes that fail, and three changes of the desired spec
FailedWrites ==
    [cache |-> FALSE, booting |-> FALSE, workers |-> {w1},
     failing |-> {"create", "update", "delete"},
     specs |-> Located \cup {{e3}, {e1, e3}},
     leftovers |-> {{e1}, {e1, e2}, {Dummy}, {Dummy, e2}},
     wants |-> 3, failures |-> 1, custom |-> 0]

\* Reads that fail, in the boot phase
FailedReads ==
    [cache |-> FALSE, booting |-> TRUE, workers |-> {w1},
     failing |-> {"get", "update"}, specs |-> Located, leftovers |-> {{e1}, {e1, e2}},
     wants |-> 2, failures |-> 2, custom |-> 0]

\* Two workers, the cache, a user's service entry, and any request may fail
Races ==
    [cache |-> TRUE, booting |-> TRUE, workers |-> Workers,
     failing |-> {"get", "create", "update", "delete"},
     specs |-> SUBSET {e1, Dummy} \cup {{e3}}, leftovers |-> {{e1}, {Dummy}},
     wants |-> 2, failures |-> 1, custom |-> 1]

SomeSettings == {FailedWrites, FailedReads, Races}
=============================================================================
