------------------------------ MODULE IstioSync ------------------------------
(***************************************************************************)
(* How virtual services and destination rules that users create are copied *)
(* into the sync namespace of other clusters:                              *)
(*   admiral/pkg/clusters/virtualservice_handler.go                        *)
(*   admiral/pkg/clusters/destinationrule_handler.go                       *)
(*   admiral/pkg/controller/istio/virtualservice.go, destinationrule.go    *)
(*                                                                         *)
(* The model follows ONE name.  An object of that name may exist in each   *)
(* of the clusters of Sources, and all of them are copied to the same      *)
(* name, so the copies of a cluster are one object with several writers.   *)
(* Every source cluster has its own controller with one worker.            *)
(***************************************************************************)
EXTENDS Naturals, Sequences, FiniteSets

CONSTANTS
    Clusters,      \* every cluster there is
    Sources,       \* those in which the object may be created: CnameClusterCache
    Kinds,         \* "VS", "DR": which of the two kinds the behaviour is about
    InitialDeps,   \* what CnameDependentClusterCache may hold at first
    InitialRegs,   \* which clusters may be registered at first
    NumRetries,    \* numRetries of retryUpdatingVS and retryUpdatingDR
    MaxRetries,    \* maxRetries of controller.go
    \* Bounds of the environment
    Budgets,       \* how often what may happen in a behaviour
    MaxQueue       \* queued events above which no resync is started

Budget == [edits : Nat, namesakes : Nat, deletes : Nat, skips : Nat, failures : Nat,
           registers : Nat, deregisters : Nat, switches : Nat, toggles : Nat,
           interrupts : Nat, clients : Nat]

ASSUME SyncAssumption ==
    /\ Sources \subseteq Clusters /\ IsFiniteSet(Clusters)
    /\ Kinds \subseteq {"VS", "DR"}
    /\ InitialDeps \subseteq SUBSET Clusters /\ InitialRegs \subseteq SUBSET Clusters
    /\ NumRetries \in Nat \ {0} /\ MaxRetries \in Nat /\ MaxQueue \in Nat
    /\ Budgets \subseteq Budget

None == [ver |-> 0]

(***************************************************************************)
(* A user's object.  skip: the handler does not copy it, since its         *)
(* annotation or exportTo says so (IgnoreIstioResource), it has no host or *)
(* several, or it belongs to a canary rollout.                             *)
(***************************************************************************)
Object == [ver : Nat \ {0}, skip : BOOLEAN]

\* A copy: whose version of the object it holds
Copy == [src : Sources, ver : Nat \ {0}]

Event == [type : {"Update", "Delete"}, obj : Object, requeues : Nat]

VARIABLES
    kind,        \* the kind of the objects
    source,      \* the object of each source cluster
    queue,       \* events of each source cluster's controller
    delayed,     \* events that wait for the rate limiter
    status,      \* DestinationRuleCache: process status, "none" without an item
    work,        \* the event each controller's worker is handling
    copies,      \* the copy in each cluster
    legacy,      \* clusters that hold a copy under the name used formerly
    registered,  \* clusters with a remote controller
    dependents,  \* CnameDependentClusterCache of the host
    readOnly,    \* CurrentAdmiralState.ReadOnly
    spent        \* what the environment has done so far, counted

vars == <<kind, source, queue, delayed, status, work, copies, legacy, registered,
          dependents, readOnly, spent>>

envVars == <<kind, source, registered, dependents, readOnly>>

Idle == [pc |-> "idle"]

\* A target, and which of its goroutines: handleVirtualServiceEvent appends the source
\* clusters to the dependent ones, so a cluster that is both has two
Job == Clusters \X {1, 2}

\* What is going on for one job.  fresh: the resource version of the copy that was
\* read is still its current one, tries: retries of a conflict so far.
Run == [pc : {"get", "create", "reget", "update", "retryget", "retryupdate", "delete",
              "old"}, fresh : BOOLEAN, tries : 0 .. NumRetries - 1]

\* todo: jobs that were not started, runs: those under way.  A virtual service
\* has a goroutine for every job, a destination rule one job at a time.
IsBusy(w) ==
    /\ w.pc = "busy" /\ w.event \in Event /\ w.todo \subseteq Job
    /\ w.err \in BOOLEAN
    /\ DOMAIN w.runs \subseteq Job /\ \A j \in DOMAIN w.runs : w.runs[j] \in Run

TypeOK ==
    /\ kind \in Kinds
    /\ source \in [Sources -> Object \cup {None}]
    /\ queue \in [Sources -> Seq(Event)]
    /\ delayed \in [Sources -> Seq(Event)]
    /\ status \in [Sources -> {"none", "NotProcessed", "ProcessingInProgress", "Processed"}]
    /\ DOMAIN work = Sources /\ \A s \in Sources : work[s] = Idle \/ IsBusy(work[s])
    /\ copies \in [Clusters -> Copy \cup {None}]
    /\ legacy \subseteq Clusters
    /\ registered \subseteq Clusters /\ dependents \subseteq Clusters
    /\ readOnly \in BOOLEAN
    /\ spent \in Budget

Init ==
    /\ kind \in Kinds
    /\ source = [s \in Sources |-> None]
    /\ queue = [s \in Sources |-> <<>>] /\ delayed = [s \in Sources |-> <<>>]
    /\ status = [s \in Sources |-> "none"]
    /\ work = [s \in Sources |-> Idle]
    /\ copies = [t \in Clusters |-> None]
    /\ legacy = IF kind = "VS" THEN Sources ELSE {}
    /\ registered \in InitialRegs
    /\ dependents \in InitialDeps
    /\ readOnly = FALSE
    /\ spent = [edits |-> 0, namesakes |-> 0, deletes |-> 0, skips |-> 0, failures |-> 0,
                registers |-> 0, deregisters |-> 0, switches |-> 0, toggles |-> 0,
                interrupts |-> 0, clients |-> Cardinality(dependents)]

Spend(kinds) ==
    /\ spent' = [k \in DOMAIN spent |-> IF k \in kinds THEN spent[k] + 1 ELSE spent[k]]
    /\ \E b \in Budgets : \A k \in DOMAIN b : spent'[k] <= b[k]

-----------------------------------------------------------------------------
(* The users' objects, and the events of the informer (external) *)

Enqueue(s, type, obj) ==
    queue' = [queue EXCEPT ![s] = Append(@, [type |-> type, obj |-> obj, requeues |-> 0])]

\* UpdateProcessItemStatus: a missing item has no status to set, and the cache of
\* virtual services has none for the ones that users create
SetStatus(s, st) ==
    status' = IF status[s] = "none" THEN status ELSE [status EXCEPT ![s] = st]

\* A new version of an object is always enqueued: the controllers' generations
\* never match
Edit(s) ==
    /\ s \in registered
    /\ \E skip \in BOOLEAN :
        LET obj == [ver |-> spent.edits + 1, skip |-> skip]
           namesake == \E u \in Sources \ {s} : source[u] # None
        IN /\ Spend({"edits"} \cup (IF skip THEN {"skips"} ELSE {})
                            \cup (IF namesake THEN {"namesakes"} ELSE {}))
           /\ source' = [source EXCEPT ![s] = obj]
           /\ Enqueue(s, "Update", obj)
    /\ IF readOnly THEN UNCHANGED status ELSE SetStatus(s, "ProcessingInProgress")
    /\ UNCHANGED <<kind, delayed, work, copies, legacy, registered, dependents, readOnly>>

Remove(s) ==
    /\ source[s] # None
    /\ Spend({"deletes"})
    /\ source' = [source EXCEPT ![s] = None]
    /\ Enqueue(s, "Delete", source[s])
    /\ UNCHANGED <<kind, delayed, status, work, copies, legacy, registered, dependents,
                   readOnly>>

\* GetDRProcessStatus is NotProcessed
NotProcessed(s) == status[s] \in {"none", "NotProcessed"}

\* Only the informer of destination rules has a resync period: registry.go creates the
\* virtual services' controllers with a period of 0
Resync(s) ==
    /\ kind = "DR" /\ source[s] # None
    /\ NotProcessed(s)
    /\ Len(queue[s]) + Len(delayed[s]) < MaxQueue
    /\ Enqueue(s, "Update", source[s])
    /\ IF readOnly THEN UNCHANGED status ELSE SetStatus(s, "ProcessingInProgress")
    /\ UNCHANGED <<envVars, delayed, work, copies, legacy, spent>>

\* Clusters come and go, dependents appear, the mode changes
Register(t) ==
    /\ t \notin registered
    /\ Spend({"registers"})
    /\ registered' = registered \cup {t}
    /\ UNCHANGED <<kind, source, queue, delayed, status, work, copies, legacy, dependents,
                   readOnly>>

\* A cluster without the object
Deregister(t) ==
    /\ t \in registered
    /\ t \in Sources => source[t] = None /\ queue[t] = <<>> /\ delayed[t] = <<>>
                        /\ work[t] = Idle
    /\ Spend({"deregisters"})
    /\ registered' = registered \ {t}
    /\ UNCHANGED <<kind, source, queue, delayed, status, work, copies, legacy, dependents,
                   readOnly>>

AddDependent(t) ==
    /\ t \notin dependents
    /\ Spend({"switches"})
    /\ dependents' = dependents \cup {t}
    /\ UNCHANGED <<kind, source, queue, delayed, status, work, copies, legacy, registered,
                   readOnly>>

ToggleMode ==
    /\ Spend({"toggles"} \cup IF \A s \in Sources : work[s] = Idle THEN {}
                            ELSE {"interrupts"})
    /\ readOnly' = ~readOnly
    /\ UNCHANGED <<kind, source, queue, delayed, status, work, copies, legacy, registered,
                   dependents>>

-----------------------------------------------------------------------------
(* The worker of a source cluster: one event at a time *)

\* Mutant: the source clusters are left out when a virtual service is deleted
TargetsForget(s, type) ==
    IF dependents # {}
    THEN IF kind = "VS" THEN IF type = "Delete" THEN dependents ELSE dependents \cup Sources
         ELSE IF type = "Delete" THEN dependents \cup {s} ELSE dependents \ {s}
    ELSE IF kind = "VS" THEN registered ELSE registered \ {s}

\* The clusters an event is for.  A destination rule is deleted in its own cluster,
\* but not written there.
Targets(s, type) ==
    IF dependents # {}
    THEN IF kind = "VS" THEN dependents \cup Sources
         ELSE IF type = "Delete" THEN dependents \cup {s} ELSE dependents \ {s}
    ELSE IF kind = "VS" THEN registered ELSE registered \ {s}

Jobs(s, type) ==
    (Targets(s, type) \X {1}) \cup
    (IF kind = "VS" THEN (dependents \cap Sources) \X {2} ELSE {})

CachePut(s, event) ==
    status' = IF kind = "VS" THEN status
              ELSE [status EXCEPT ![s] = IF event.type = "Delete" THEN "none"
                                         ELSE "ProcessingInProgress"]

\* A virtual service is first looked up among the rollouts, and the lookup may fail
LookupFails == kind = "VS" /\ Spend({"failures"})

\* Added, Updated and Deleted of the controller and of the handler
Take(s) ==
    /\ work[s] = Idle
    /\ queue[s] # <<>>
    /\ queue' = [queue EXCEPT ![s] = Tail(@)]
    /\ LET event == Head(queue[s])
           skip == readOnly \/ event.obj.skip
           Begin(err) ==
             work' = [work EXCEPT ![s] =
                       [pc |-> "busy", event |-> event, err |-> err, runs |-> <<>>,
                        todo |-> IF skip \/ err THEN {} ELSE Jobs(s, event.type)]]
       IN /\ CachePut(s, event)
          /\ \/ Begin(FALSE) /\ UNCHANGED spent
             \/ ~skip /\ Begin(TRUE) /\ LookupFails
    /\ UNCHANGED <<envVars, delayed, copies, legacy>>

\* A run for j at its start
Begun(s, j) ==
    [c \in DOMAIN work[s].runs \cup {j} |->
        IF c # j THEN work[s].runs[c]
        ELSE [fresh |-> FALSE, tries |-> 0,
              pc |-> IF work[s].event.type = "Delete" THEN "delete" ELSE "get"]]

\* Mutant: a cluster without a remote controller is left out
StartOrLeaveOut(s, j) ==
    /\ work[s].pc = "busy" /\ j \in work[s].todo
    /\ j[2] = 2 => <<j[1], 1>> \notin work[s].todo
    /\ kind = "VS" \/ work[s].runs = <<>>
    /\ work' = [work EXCEPT ![s].todo = @ \ {j},
                            ![s].runs = IF j[1] \in registered THEN Begun(s, j) ELSE @]
    /\ UNCHANGED <<envVars, queue, delayed, status, copies, legacy, spent>>

\* The next job.  Without a remote controller a virtual service's goroutine ends
\* with an error that is only logged; a destination rule's loop is left with an
\* error that requeues the event.  The two goroutines of a cluster are alike; the one
\* that starts first is called the first.
Start(s, j) ==
    /\ work[s].pc = "busy" /\ j \in work[s].todo
    /\ j[2] = 2 => <<j[1], 1>> \notin work[s].todo
    /\ kind = "VS" \/ work[s].runs = <<>>
    /\ work' = [work EXCEPT ![s] =
         IF j[1] \in registered THEN [@ EXCEPT !.todo = @ \ {j}, !.runs = Begun(s, j)]
         ELSE IF kind = "VS" THEN [@ EXCEPT !.todo = @ \ {j}]
         ELSE [@ EXCEPT !.todo = {}, !.err = TRUE]]
    /\ UNCHANGED <<envVars, queue, delayed, status, copies, legacy, spent>>

Running(s, j, pc) ==
    /\ work[s].pc = "busy" /\ j \in DOMAIN work[s].runs
    /\ work[s].runs[j].pc = pc

\* The workers with the run of s for j at pc, and without it
Going(s, j, pc, fresh) ==
    [work EXCEPT ![s].runs[j].pc = pc, ![s].runs[j].fresh = fresh]

Ended(s, j) == [work EXCEPT ![s].runs = [c \in DOMAIN @ \ {j} |-> @[c]]]

\* addUpdateVirtualService or addUpdateDestinationRule returns.  Its error is
\* dropped; the copy of a virtual service under its former name is deleted next.
Returned(s, j) == IF kind = "VS" THEN Going(s, j, "old", FALSE) ELSE Ended(s, j)

Goto(s, j, pc, fresh) == work' = Going(s, j, pc, fresh)
EndRun(s, j) == work' = Ended(s, j)
Return(s, j) == work' = Returned(s, j)

\* The copy of t gets a new resource version: what the others have read is outdated
Outdate(w, t) ==
    [s \in Sources |->
        IF w[s].pc # "busy" THEN w[s]
        ELSE [w[s] EXCEPT !.runs =
                [j \in DOMAIN @ |-> IF j[1] = t THEN [@[j] EXCEPT !.fresh = FALSE] ELSE @[j]]]]

\* A write that changes nothing leaves the resource version alone
Put(s, j) ==
    LET new == [src |-> s, ver |-> work[s].event.obj.ver]
    IN /\ copies' = [copies EXCEPT ![j[1]] = new]
       /\ work' = IF copies[j[1]] = new THEN Returned(s, j) ELSE Outdate(Returned(s, j), j[1])

\* A request fails: every kind of failure that is not a conflict
Fail == Spend({"failures"})

\* The first Get.  A virtual service is given up for a dead cluster, and when the
\* answer is an error, which leaves an object without a name to update; a
\* destination rule is created in that case.
Get(s, j) ==
    /\ Running(s, j, "get")
    /\ \/ /\ IF copies[j[1]] = None THEN Goto(s, j, "create", FALSE)
             ELSE Goto(s, j, "update", TRUE)
          /\ UNCHANGED spent
       \/ /\ Fail
          /\ \/ kind = "VS" /\ EndRun(s, j)
             \/ kind = "VS" /\ Goto(s, j, "old", FALSE)
             \/ kind = "DR" /\ Goto(s, j, "create", FALSE)
    /\ UNCHANGED <<envVars, queue, delayed, status, copies, legacy>>

Create(s, j) ==
    /\ Running(s, j, "create")
    /\ \/ copies[j[1]] = None /\ Put(s, j) /\ UNCHANGED spent
       \/ copies[j[1]] # None /\ Goto(s, j, "reget", FALSE) /\ UNCHANGED <<copies, spent>>
       \/ Fail /\ Return(s, j) /\ UNCHANGED copies
    /\ UNCHANGED <<envVars, queue, delayed, status, legacy>>

\* It exists after all.  If it cannot be read, the update goes out without a resource
\* version and is refused.
Reget(s, j) ==
    /\ Running(s, j, "reget")
    /\ \/ copies[j[1]] # None /\ Goto(s, j, "update", TRUE) /\ UNCHANGED spent
       \/ copies[j[1]] = None /\ Return(s, j) /\ UNCHANGED spent
       \/ copies[j[1]] # None /\ Fail /\ Return(s, j)
    /\ UNCHANGED <<envVars, queue, delayed, status, copies, legacy>>

\* Only a conflict is retried
Update(s, j) ==
    /\ Running(s, j, "update")
    /\ \/ /\ work[s].runs[j].fresh
          /\ Put(s, j) /\ UNCHANGED spent
       \/ copies[j[1]] # None /\ ~work[s].runs[j].fresh
          /\ Goto(s, j, "retryget", FALSE) /\ UNCHANGED <<copies, spent>>
       \/ copies[j[1]] = None /\ Return(s, j) /\ UNCHANGED <<copies, spent>>
       \/ copies[j[1]] # None /\ Fail /\ Return(s, j) /\ UNCHANGED copies
    /\ UNCHANGED <<envVars, queue, delayed, status, legacy>>

\* The next round of the retry loop, or its end
Again(s, j) ==
    LET run == work[s].runs[j]
    IN IF run.tries + 1 = NumRetries THEN Return(s, j)
       ELSE work' = [work EXCEPT ![s].runs[j] =
                       [pc |-> "retryget", fresh |-> FALSE, tries |-> run.tries + 1]]

\* retryUpdatingVS, retryUpdatingDR: read the copy, and write over it
RetryGet(s, j) ==
    /\ Running(s, j, "retryget")
    /\ \/ copies[j[1]] # None /\ Goto(s, j, "retryupdate", TRUE) /\ UNCHANGED spent
       \/ copies[j[1]] = None /\ Again(s, j) /\ UNCHANGED spent
       \/ copies[j[1]] # None /\ Fail /\ Again(s, j)
    /\ UNCHANGED <<envVars, queue, delayed, status, copies, legacy>>

RetryUpdate(s, j) ==
    /\ Running(s, j, "retryupdate")
    /\ \/ /\ work[s].runs[j].fresh
          /\ Put(s, j) /\ UNCHANGED spent
       \/ /\ ~work[s].runs[j].fresh
          /\ Again(s, j) /\ UNCHANGED <<copies, spent>>
       \/ copies[j[1]] # None /\ Fail /\ Again(s, j) /\ UNCHANGED copies
    /\ UNCHANGED <<envVars, queue, delayed, status, legacy>>

\* Best effort delete for existing virtual service with old name
DeleteOld(s, j) ==
    /\ Running(s, j, "old")
    /\ \/ legacy' = legacy \ {j[1]} /\ UNCHANGED spent
       \/ j[1] \in legacy /\ Fail /\ UNCHANGED legacy
    /\ EndRun(s, j)
    /\ UNCHANGED <<envVars, queue, delayed, status, copies>>

\* The copy is deleted, under both names, whoever wrote it; a failure is logged
Delete(s, j) ==
    /\ Running(s, j, "delete")
    /\ \/ /\ copies' = [copies EXCEPT ![j[1]] = None] /\ legacy' = legacy \ {j[1]}
          /\ work' = Outdate(Ended(s, j), j[1])
          /\ UNCHANGED spent
       \/ /\ copies[j[1]] # None /\ Fail
          /\ UNCHANGED copies /\ legacy' \in {legacy, legacy \ {j[1]}}
          /\ EndRun(s, j)
    /\ UNCHANGED <<envVars, queue, delayed, status>>

\* Mutant: an event that was skipped in read-only mode counts as processed
FinishAsProcessed(s) ==
    /\ work[s].pc = "busy" /\ work[s].todo = {} /\ work[s].runs = <<>>
    /\ LET event == work[s].event
           again == work[s].err /\ event.requeues < MaxRetries
       IN /\ delayed' = IF again
                        THEN [delayed EXCEPT ![s] = Append(@, [event EXCEPT !.requeues = @ + 1])]
                        ELSE delayed
          /\ SetStatus(s, IF work[s].err /\ ~again THEN "NotProcessed"
                          ELSE IF again THEN "ProcessingInProgress" ELSE "Processed")
    /\ work' = [work EXCEPT ![s] = Idle]
    /\ UNCHANGED <<envVars, queue, copies, legacy, spent>>

\* The end of processItem and of processNextItem.  shouldRetry asks the delegate's Get,
\* which always fails for these kinds, and so retries every event.
Finish(s) ==
    /\ work[s].pc = "busy" /\ work[s].todo = {} /\ work[s].runs = <<>>
    /\ LET event == work[s].event
           again == work[s].err /\ event.requeues < MaxRetries
       IN /\ delayed' = IF again
                        THEN [delayed EXCEPT ![s] = Append(@, [event EXCEPT !.requeues = @ + 1])]
                        ELSE delayed
          /\ SetStatus(s, IF readOnly \/ (work[s].err /\ ~again) THEN "NotProcessed"
                          ELSE IF again THEN "ProcessingInProgress" ELSE "Processed")
    /\ work' = [work EXCEPT ![s] = Idle]
    /\ UNCHANGED <<envVars, queue, copies, legacy, spent>>

\* The rate limiter's delay is over
Requeue(s) ==
    /\ delayed[s] # <<>>
    /\ queue' = [queue EXCEPT ![s] = Append(@, Head(delayed[s]))]
    /\ delayed' = [delayed EXCEPT ![s] = Tail(@)]
    /\ UNCHANGED <<envVars, status, work, copies, legacy, spent>>

-----------------------------------------------------------------------------
Target(s, j) ==
    \/ Start(s, j) \/ Get(s, j) \/ Create(s, j) \/ Reget(s, j) \/ Update(s, j)
    \/ RetryGet(s, j) \/ RetryUpdate(s, j) \/ DeleteOld(s, j) \/ Delete(s, j)

Worker(s) == Take(s) \/ Finish(s) \/ \E j \in Job : Target(s, j)

Environment ==
    \/ \E s \in Sources : Edit(s) \/ Remove(s)
    \/ \E t \in Clusters : Register(t) \/ Deregister(t) \/ AddDependent(t)
    \/ ToggleMode

Next ==
    \/ Environment
    \/ \E s \in Sources : Resync(s) \/ Requeue(s) \/ Worker(s)

Spec == Init /\ [][Next]_vars

\* Workers, rate limiters and resync timers keep going
Fairness ==
    \A s \in Sources : WF_vars(Worker(s)) /\ WF_vars(Requeue(s)) /\ WF_vars(Resync(s))

FairSpec == Spec /\ Fairness
-----------------------------------------------------------------------------
(* Properties *)

Quiet ==
    \A s \in Sources : queue[s] = <<>> /\ delayed[s] = <<>> /\ work[s] = Idle

Live == {s \in Sources : source[s] # None}

\* The copy of t holds the current version of the object of s
Follows(t, s) ==
    copies[t] # None /\ copies[t].src = s /\ copies[t].ver = source[s].ver

Copied(s) == \A t \in Targets(s, "Update") \cap registered : Follows(t, s) /\ t \notin legacy

\* Clusters keep still, or only come and go among the dependents of an object that is
\* edited once (a retry of the former version would go over the newer one)
Steady ==
    \/ spent.registers + spent.deregisters = 0
    \/ kind = "DR" /\ dependents # {} /\ spent.edits <= 1

\* No request fails, the set of dependents is complete, and the mode does not change
\* between the two places in which an event asks for it
Regular ==
    /\ spent.failures = 0 /\ spent.switches = 0 /\ spent.deletes = 0
    /\ spent.interrupts = 0 /\ (kind = "VS" => spent.toggles = 0)
    /\ Steady

\* An object that has no namesake in another cluster ends up copied, at its current
\* version, into every cluster it is for.  For a virtual service this rests on the one
\* event of the last edit; a destination rule that was skipped in read-only mode, or for
\* which a dependent cluster had no controller yet until the retries were used up, is
\* NotProcessed, and a resync copies it again.
CopiesConverge ==
    <>[](Regular /\ ~readOnly =>
           \A s \in Live : Live = {s} /\ ~source[s].skip
                            /\ (kind = "DR" => Targets(s, "Update") \subseteq registered)
                            => Copied(s))

\* A destination rule that is marked Processed, so that no resync copies it again, has
\* its copies: handleDestinationRuleEvent returns the error that a cluster without a
\* controller causes, instead of going on with the next one.
ProcessedMeansCopied ==
    kind = "DR" /\ Quiet /\ Regular /\ spent.skips = 0 =>
        \A s \in Live : Live = {s} /\ status[s] = "Processed" =>
            \A t \in Targets(s, "Update") : Follows(t, s)

\* When the last of the objects is gone and nothing failed, no copy is left, in
\* whichever order the workers of the source clusters create, overwrite and delete
\* the copies they share.
NoOrphans ==
    /\ spent.failures = 0 /\ spent.skips = 0 /\ spent.toggles = 0
    /\ spent.switches = 0 /\ spent.deregisters = 0
    /\ kind = "VS" \/ spent.registers = 0
    /\ Quiet /\ Live = {}
    => \A t \in Clusters : copies[t] = None
=============================================================================
