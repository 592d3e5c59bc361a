--------------------------- MODULE EventController ---------------------------
(***************************************************************************)
(* The event loop of Admiral's Kubernetes controllers, with the deployment *)
(* controller as its delegate:                                             *)
(*   admiral/pkg/controller/admiral/controller.go  (queue, workers, retry) *)
(*   admiral/pkg/controller/admiral/deployment.go  (cache, delegate)       *)
(*   admiral/pkg/clusters/deployment_handler.go    (handler, abstracted)   *)
(*                                                                         *)
(* The model follows ONE cache slot: the deployments in Names all carry    *)
(* the same identity and environment, so they share the slot              *)
(* cache[identity].Deployments[env].  What the handler writes into the     *)
(* mesh (service entries, destination rules) is abstracted to `mesh`: the  *)
(* deployment and pod template the mesh was last configured from.          *)
(*                                                                         *)
(* A version is a natural number, the cluster-wide revision the API server *)
(* stamps on every write.  The code compares versions as strings; how that *)
(* comparison orders the numbers is the parameter VersionLess.             *)
(*                                                                         *)
(* The informer calls its handlers in one goroutine, beside the workers:   *)
(* what UpdateFuncImpl does after it has put the event into the queue      *)
(* happens while a worker may already be handling that event.              *)
(***************************************************************************)
EXTENDS Naturals, Sequences, SequencesExt

CONSTANTS
    Names,              \* deployments that share the identity and environment
    Workers,            \* goroutines that run processNextItem
    VersionLess(_, _),  \* `<` on resource versions, as strings
    FirstVersion,       \* revision of the API server when the model starts
    MaxRetries,         \* maxRetries of controller.go
    \* Bounds of the environment
    Budgets,            \* how often what may happen in a behaviour
    MaxQueue            \* queued items above which no resync is started

(***************************************************************************)
(* What the environment does is counted: writes to the API server, and     *)
(* among them deletions and changes of an ignore label or annotation, runs *)
(* of the handler that fail, switches between read-only and read-write     *)
(* mode, and items that a worker takes while another one holds an item.  A *)
(* behaviour stays within one of the budgets.                              *)
(***************************************************************************)
Budget == [writes : Nat, deletes : Nat, ignores : Nat, failures : Nat, toggles : Nat,
           overlaps : Nat]

ASSUME BoundsAssumption ==
    /\ FirstVersion \in Nat /\ MaxRetries \in Nat /\ MaxQueue \in Nat
    /\ Budgets \subseteq Budget

NoObj  == [name |-> "none"]
NoItem == [status |-> "none"]

(***************************************************************************)
(* A deployment as far as the controller tells deployments apart.  gen and *)
(* tmpl are the versions that last changed its spec and its pod template;  *)
(* ign says that shouldIgnoreBasedOnLabels holds of it.                    *)
(***************************************************************************)
Deployment == [name : Names, rv : Nat, gen : Nat, tmpl : Nat, ign : BOOLEAN]

EventTypes == {"Add", "Update", "Delete"}
Statuses   == {"Processed", "ProcessingInProgress", "NotProcessed"}

\* InformerCacheObj, with the number of times the queue has requeued it
Item == [type : EventTypes, obj : Deployment, requeues : Nat]

VARIABLES
    api,        \* API server: the deployment of each name, or NoObj
    watch,      \* changes the informer has not been told of yet
    store,      \* the informer's own cache
    queue,      \* workqueue, ready items
    delayed,    \* workqueue, items waiting for the rate limiter
    known,      \* deploymentCache has an entry for the identity
    slot,       \* its item for the environment: deployment and status
    work,       \* what each worker is doing
    mesh,       \* what the mesh is configured from
    readOnly,   \* CurrentAdmiralState.ReadOnly
    spent,      \* what the environment has done so far, counted
    informer,   \* where the informer's goroutine is in UpdateFuncImpl
    astray      \* history: what the code does not provide for and has happened

vars == <<api, watch, store, queue, delayed, known, slot, work, mesh,
          readOnly, spent, informer, astray>>

clusterVars == <<api, watch>>
queueVars   == <<queue, delayed>>
cacheVars   == <<known, slot>>

Idle == [pc |-> "idle"]

\* After queue.Add: the mode is to be read, then the status to be set
Marking == [pc : {"mode", "mark"}, obj : Deployment]

\* A comparison of versions as strings went against the numbers; the status of
\* an event was set to ProcessingInProgress after a worker was through with it
Mishaps == {"order", "mark"}

Busy == [pc   : {"cache", "begin", "write", "evict", "status", "finish"},
         item : Item,
         seen : Deployment \cup {NoObj},   \* what the handler read
         err  : BOOLEAN]                   \* the handler's result

TypeOK ==
    /\ api \in [Names -> Deployment \cup {NoObj}]
    /\ watch \in Seq([gone : BOOLEAN, obj : Deployment])
    /\ store \in [Names -> Deployment \cup {NoObj}]
    /\ queue \in Seq(Item)
    /\ delayed \in Seq(Item)
    /\ known \in BOOLEAN
    /\ slot \in [obj : Deployment \cup {NoObj}, status : Statuses] \cup {NoItem}
    /\ work \in [Workers -> Busy \cup {Idle}]
    /\ mesh \in [name : Names, tmpl : Nat] \cup {NoObj}
    /\ readOnly \in BOOLEAN
    /\ spent \in Budget
    /\ informer \in Marking \cup {Idle}
    /\ astray \in SUBSET Mishaps

Init ==
    /\ api = [n \in Names |-> NoObj]
    /\ watch = <<>>
    /\ store = [n \in Names |-> NoObj]
    /\ queue = <<>> /\ delayed = <<>>
    /\ known = FALSE /\ slot = NoItem
    /\ work = [w \in Workers |-> Idle]
    /\ mesh = NoObj
    /\ readOnly = FALSE
    /\ spent = [writes |-> 0, deletes |-> 0, ignores |-> 0, failures |-> 0,
                toggles |-> 0, overlaps |-> 0]
    /\ informer = Idle
    /\ astray = {}

Spend(kinds) ==
    /\ spent' = [k \in DOMAIN spent |-> IF k \in kinds THEN spent[k] + 1 ELSE spent[k]]
    /\ \E b \in Budgets : \A k \in DOMAIN b : spent'[k] <= b[k]

-----------------------------------------------------------------------------
(* The deployment cache (deploymentCache) *)

\* deploymentCache.Get
Cached == IF slot = NoItem THEN NoObj ELSE slot.obj

\* GetDeploymentProcessStatus
ProcessStatus == IF slot = NoItem THEN "NotProcessed" ELSE slot.status

\* UpdateDeploymentProcessStatus: a missing item is created without a
\* deployment, a missing identity is an error that the callers drop
UpdateProcessStatus(status) ==
    /\ slot' = IF known THEN [obj |-> Cached, status |-> status] ELSE slot
    /\ UNCHANGED known

\* UpdateDeploymentToClusterCache
CachePut(obj) ==
    /\ known' = TRUE
    /\ slot' = [obj |-> obj, status |-> "ProcessingInProgress"]

\* DeleteFromDeploymentClusterCache: only the deployment of that name
CacheDelete(obj) ==
    /\ slot' = IF Cached # NoObj /\ Cached.name = obj.name THEN NoItem ELSE slot
    /\ UNCHANGED known

\* Mutant: every failed event is retried
AlwaysRetry(obj) == TRUE

\* shouldRetry, with DeploymentController.Get(isRetry)
ShouldRetry(obj) == Cached = NoObj \/ ~VersionLess(obj.rv, Cached.rv)

\* The strings are not ordered as the numbers
Misordered(a, b) == ~(VersionLess(a, b) <=> a < b)

\* shouldRetry goes by such a comparison
Misjudged(obj) == Cached # NoObj /\ Misordered(obj.rv, Cached.rv)

Record(mishap, happened) ==
    astray' = IF happened THEN astray \cup {mishap} ELSE astray

-----------------------------------------------------------------------------
(* The API server and the informer *)

\* The revision the API server hands out next
Version == FirstVersion + spent.writes + 1

Write(obj, gone, kinds) ==
    /\ Spend({"writes"} \cup kinds)
    /\ api' = [api EXCEPT ![obj.name] = IF gone THEN NoObj ELSE obj]
    /\ watch' = Append(watch, [gone |-> gone, obj |-> obj])
    /\ UNCHANGED <<store, queueVars, cacheVars, work, mesh, readOnly, informer, astray>>

Create(n) ==
    /\ api[n] = NoObj
    /\ Write([name |-> n, rv |-> Version, gen |-> Version, tmpl |-> Version,
              ign |-> FALSE], FALSE, {})

\* A change of the status only, of the replica count only, or of the template
Change(n) ==
    /\ api[n] # NoObj
    /\ \/ Write([api[n] EXCEPT !.rv = Version], FALSE, {})
       \/ Write([api[n] EXCEPT !.rv = Version, !.gen = Version], FALSE, {})
       \/ Write([api[n] EXCEPT !.rv = Version, !.gen = Version, !.tmpl = Version],
                FALSE, {})

\* The ignore label is part of the pod template; the ignore annotation is
\* metadata, which the API server does not count as a new generation
Ignore(n) ==
    /\ api[n] # NoObj
    /\ \/ Write([api[n] EXCEPT !.rv = Version, !.gen = Version, !.tmpl = Version,
                               !.ign = ~@], FALSE, {"ignores"})
       \/ Write([api[n] EXCEPT !.rv = Version, !.ign = ~@], FALSE, {"ignores"})

Destroy(n) ==
    /\ api[n] # NoObj
    /\ Write([api[n] EXCEPT !.rv = Version], TRUE, {"deletes"})

NewItem(type, obj) == [type |-> type, obj |-> obj, requeues |-> 0]

Enqueue(type, obj) == queue' = Append(queue, NewItem(type, obj))

\* The objects checkIfResourceVersionHasIncreased may answer with, and
\* whether the version changed.  When the versions seem to go backwards the
\* code asks the API server, which may fail to answer.
LatestObj(old, new) ==
    IF old.rv = new.rv THEN {[obj |-> old, changed |-> FALSE]}
    ELSE IF VersionLess(new.rv, old.rv)
    THEN {[obj |-> new, changed |-> TRUE]} \cup
         IF api[new.name] = NoObj THEN {}
         ELSE IF api[new.name].rv = old.rv
         THEN {[obj |-> old, changed |-> FALSE]}
         ELSE {[obj |-> api[new.name], changed |-> TRUE]}
    ELSE {[obj |-> new, changed |-> TRUE]}

\* Mutant: the pod template is left out of the comparison
SameDeployment(old, new) == old.gen = new.gen \/ old.name = new.name

\* DoesGenerationMatch or IsOnlyReplicaCountChanged
NothingToProcess(old, new) == old.gen = new.gen \/ old.tmpl = new.tmpl

AddFunc(obj) == Enqueue("Add", obj) /\ UNCHANGED informer

\* Mutant: a resync does not pick up deployments that are NotProcessed
OnlyNewVersions(old, new) ==
    IF old.rv # new.rv
    THEN /\ Enqueue("Update", new)
         /\ informer' = [pc |-> "mode", obj |-> new]
    ELSE UNCHANGED <<queue, informer>>

\* UpdateFuncImpl up to queue.Add.  Workers do not look at the end of the queue,
\* so it makes no difference that the status was read before, unless an event
\* fails, waits and is requeued in between, which is left out.
UpdateFunc(old, new) ==
    \/ /\ ProcessStatus = "Processed" /\ NothingToProcess(old, new)
       /\ UNCHANGED <<queue, informer>>
    \/ /\ ~(ProcessStatus = "Processed" /\ NothingToProcess(old, new))
       /\ \E latest \in LatestObj(old, new) :
            IF ProcessStatus = "NotProcessed" \/ latest.changed
            THEN /\ Enqueue("Update", latest.obj)
                 /\ informer' = [pc |-> "mode", obj |-> latest.obj]
            ELSE UNCHANGED <<queue, informer>>

DeleteFunc(obj) == Enqueue("Delete", obj) /\ UNCHANGED informer

\* The informer learns of the next change and calls its handler
Notify ==
    /\ informer = Idle
    /\ watch # <<>>
    /\ watch' = Tail(watch)
    /\ LET new == Head(watch).obj
           old == store[new.name]
       IN IF Head(watch).gone
          THEN /\ store' = [store EXCEPT ![new.name] = NoObj]
               /\ DeleteFunc(new)
               /\ UNCHANGED astray
          ELSE /\ store' = [store EXCEPT ![new.name] = new]
               /\ IF old = NoObj THEN AddFunc(new) ELSE UpdateFunc(old, new)
               /\ Record("order", old # NoObj /\ Misordered(new.rv, old.rv))
    /\ UNCHANGED <<api, delayed, cacheVars, work, mesh, readOnly, spent>>

\* The informer's periodic resync replays an object of its cache
Resync(n) ==
    /\ informer = Idle
    /\ store[n] # NoObj
    /\ Len(queue) + Len(delayed) < MaxQueue
    /\ UpdateFunc(store[n], store[n])
    /\ UNCHANGED <<clusterVars, store, delayed, cacheVars, work, mesh, readOnly, spent, astray>>

\* The rest of UpdateFuncImpl: outside read-only mode the status is to be set
ReadMode ==
    /\ informer.pc = "mode"
    /\ informer' = IF readOnly THEN Idle ELSE [informer EXCEPT !.pc = "mark"]
    /\ UNCHANGED <<clusterVars, store, queueVars, cacheVars, work, mesh, readOnly, spent, astray>>

\* A worker has yet to set the status of the event
Pending(item) ==
    \/ \E i \in DOMAIN queue : queue[i] = item
    \/ \E w \in Workers : work[w] # Idle /\ work[w].item = item /\ work[w].pc # "finish"

\* The status is set, whatever a worker has made of the event by now
MarkInProgress ==
    /\ informer.pc = "mark"
    /\ UpdateProcessStatus("ProcessingInProgress")
    /\ Record("mark", ~Pending(NewItem("Update", informer.obj)))
    /\ informer' = Idle
    /\ UNCHANGED <<clusterVars, store, queueVars, work, mesh, readOnly, spent>>

-----------------------------------------------------------------------------
(* The workers: processNextItem and processItem, one step per access to    *)
(* state that other workers or the informer share                          *)

Goto(w, pc) == work' = [work EXCEPT ![w].pc = pc]

Leave(w) == work' = [work EXCEPT ![w] = Idle]

\* queue.Get, and the test that drops a requeued item that has gone stale
GetItem(w) ==
    /\ work[w] = Idle
    /\ queue # <<>>
    /\ queue' = Tail(queue)
    /\ LET item == Head(queue)
       IN IF item.requeues > 0 /\ ~ShouldRetry(item.obj)
          THEN UNCHANGED work
          ELSE work' = [work EXCEPT ![w] = [pc |-> "cache", item |-> item,
                                            seen |-> NoObj, err |-> FALSE]]
    /\ Record("order", Head(queue).requeues > 0 /\ Misjudged(Head(queue).obj))
    /\ IF \A u \in Workers : work[u] = Idle THEN UNCHANGED spent ELSE Spend({"overlaps"})
    /\ UNCHANGED <<clusterVars, store, delayed, cacheVars, mesh, readOnly, informer>>

\* What HandleAddUpdateDeployment and Deleted do before the handler runs
CacheStep(w) ==
    /\ work[w].pc = "cache"
    /\ LET item == work[w].item
       IN \/ /\ item.obj.ign
             /\ IF item.type = "Delete" THEN UNCHANGED cacheVars
                                        ELSE CacheDelete(item.obj)
             /\ Goto(w, "status")
          \/ /\ ~item.obj.ign
             /\ IF item.type = "Delete" THEN UNCHANGED cacheVars
                                        ELSE CachePut(item.obj)
             /\ Goto(w, "begin")
    /\ UNCHANGED <<clusterVars, store, queueVars, mesh, readOnly, spent, informer, astray>>

\* Deleted evicts the deployment when its handler returns without an error
AfterHandler(w) == IF work[w].item.type = "Delete" THEN "evict" ELSE "status"

\* The handler starts: it does nothing in read-only mode, fails without a
\* cached deployment ("cname is empty") and otherwise works on what it read
Begin(w) ==
    /\ work[w].pc = "begin"
    /\ work' = [work EXCEPT ![w] =
         IF readOnly THEN [@ EXCEPT !.pc = AfterHandler(w)]
         ELSE IF Cached = NoObj THEN [@ EXCEPT !.pc = "status", !.err = TRUE]
         ELSE [@ EXCEPT !.pc = "write", !.seen = Cached]]
    /\ UNCHANGED <<clusterVars, store, queueVars, cacheVars, mesh, readOnly, spent, informer, astray>>

\* Mutant: the handler of a deletion configures the mesh as any other
DesiredOfAny(w) == [name |-> work[w].seen.name, tmpl |-> work[w].seen.tmpl]

\* The mesh the handler of a worker configures
Desired(w) ==
    IF work[w].item.type = "Delete" THEN NoObj
    ELSE [name |-> work[w].seen.name, tmpl |-> work[w].seen.tmpl]

\* The handler writes the mesh and succeeds
WriteMesh(w) ==
    /\ work[w].pc = "write"
    /\ mesh' = Desired(w)
    /\ Goto(w, AfterHandler(w))
    /\ UNCHANGED <<clusterVars, store, queueVars, cacheVars, readOnly, spent, informer, astray>>

\* The handler fails, before or after its write reached the mesh
FailWrite(w) ==
    /\ work[w].pc = "write"
    /\ Spend({"failures"})
    /\ mesh' \in {mesh, Desired(w)}
    /\ work' = [work EXCEPT ![w].pc = "status", ![w].err = TRUE]
    /\ UNCHANGED <<clusterVars, store, queueVars, cacheVars, readOnly, informer, astray>>

\* Deleted removes the deployment from the cache once the handler succeeded
Evict(w) ==
    /\ work[w].pc = "evict"
    /\ CacheDelete(work[w].item.obj)
    /\ Goto(w, "status")
    /\ UNCHANGED <<clusterVars, store, queueVars, mesh, readOnly, spent, informer, astray>>

\* The end of processItem: the mode is read again, after the handler
SetStatus(w) ==
    /\ work[w].pc = "status"
    /\ UpdateProcessStatus(IF readOnly THEN "NotProcessed"
                           ELSE IF work[w].err THEN "ProcessingInProgress"
                           ELSE "Processed")
    /\ Goto(w, "finish")
    /\ UNCHANGED <<clusterVars, store, queueVars, mesh, readOnly, spent, informer, astray>>

\* Mutant: giving up does not reset the status
GivesUpInProgress(w) ==
    /\ work[w].pc = "finish"
    /\ delayed' = IF work[w].err /\ work[w].item.requeues < MaxRetries
                  THEN Append(delayed, [work[w].item EXCEPT !.requeues = @ + 1])
                  ELSE delayed
    /\ Leave(w)
    /\ UNCHANGED <<clusterVars, store, queue, cacheVars, mesh, readOnly, spent, informer, astray>>

\* The end of processNextItem: forget, requeue or give up
Finish(w) ==
    /\ work[w].pc = "finish"
    /\ LET item == work[w].item
       IN \/ /\ ~work[w].err
             /\ UNCHANGED <<delayed, cacheVars, astray>>
          \/ /\ work[w].err /\ item.requeues < MaxRetries
             /\ delayed' = IF ShouldRetry(item.obj)
                           THEN Append(delayed, [item EXCEPT !.requeues = @ + 1])
                           ELSE delayed
             /\ UNCHANGED cacheVars
             /\ Record("order", Misjudged(item.obj))
          \/ /\ work[w].err /\ item.requeues >= MaxRetries
             /\ UpdateProcessStatus("NotProcessed")
             /\ UNCHANGED <<delayed, astray>>
    /\ Leave(w)
    /\ UNCHANGED <<clusterVars, store, queue, mesh, readOnly, spent, informer>>

\* The rate limiter puts an item back; its delays are not ordered
Requeue ==
    \E i \in DOMAIN delayed :
        /\ queue' = Append(queue, delayed[i])
        /\ delayed' = RemoveAt(delayed, i)
        /\ UNCHANGED <<clusterVars, store, cacheVars, work, mesh, readOnly, spent, informer, astray>>

\* The state checker switches the mode
ToggleMode ==
    /\ Spend({"toggles"})
    /\ readOnly' = ~readOnly
    /\ UNCHANGED <<clusterVars, store, queueVars, cacheVars, work, mesh, informer, astray>>

-----------------------------------------------------------------------------
Cluster == \E n \in Names : Create(n) \/ Change(n) \/ Ignore(n) \/ Destroy(n)

Progress(w) ==
    \/ GetItem(w) \/ CacheStep(w) \/ Begin(w) \/ WriteMesh(w)
    \/ Evict(w) \/ SetStatus(w) \/ Finish(w)

Worker(w) == Progress(w) \/ FailWrite(w)

Next ==
    \/ Cluster
    \/ Notify
    \/ \E n \in Names : Resync(n)
    \/ ReadMode \/ MarkInProgress
    \/ \E w \in Workers : Worker(w)
    \/ Requeue
    \/ ToggleMode

Spec == Init /\ [][Next]_vars

\* Informers, workers and the rate limiter keep running; the resync timer
\* keeps firing.  The handler's failures and the environment need not occur.
Fairness ==
    /\ WF_vars(Notify)
    /\ \A n \in Names : WF_vars(Resync(n))
    /\ WF_vars(ReadMode \/ MarkInProgress)
    /\ \A w \in Workers : WF_vars(Progress(w))
    /\ WF_vars(Requeue)

FairSpec == Spec /\ Fairness
-----------------------------------------------------------------------------
(* Properties *)

\* Nothing is left to do for the informer, the queue and the workers
Quiet ==
    /\ watch = <<>> /\ queue = <<>> /\ delayed = <<>>
    /\ \A w \in Workers : work[w] = Idle
    /\ informer = Idle

\* The deployments that the mesh should know of
Live == {n \in Names : api[n] # NoObj /\ ~api[n].ign}

MeshAgrees ==
    IF Live = {} THEN mesh = NoObj
    ELSE \E n \in Live : mesh = [name |-> n, tmpl |-> api[n].tmpl]

\* The workers have taken turns: none took an item while another held one
InTurn == spent.overlaps = 0

\* The deployment cache never goes back to an older version of a deployment:
\* neither a retry nor a resync (shouldRetry, checkIfResourceVersionHasIncreased)
\* lets an event overwrite what a newer event of the same deployment put there,
\* for any number of workers as long as they have taken turns and the strings
\* that were compared had the order of the numbers.
CacheNotOlder ==
    Cached # NoObj /\ Cached' # NoObj /\ Cached'.name = Cached.name
        => Cached'.rv >= Cached.rv

CacheNeverRegresses == [][InTurn' /\ "order" \notin astray' => CacheNotOlder]_vars

\* The sequences of events for which the mesh is known to come out right.  The
\* code loses its way when a retry meets a deletion, when the mode changes under
\* a running handler, when a deployment becomes ignored, and when two workers
\* handle events of one deployment at once.
Orderly == /\ spent.failures = 0 \/ spent.deletes = 0
           /\ spent.toggles = 0 /\ spent.ignores = 0
           /\ InTurn

\* Once every event is dealt with and the status says Processed (so that no
\* resync will touch the deployment again), the mesh is configured from the
\* current template of a deployment that exists and is not ignored, or from
\* none if there is none: processItem marks nothing Processed too early, as long
\* as versions compare as the numbers do.
SettledAgrees ==
    /\ Orderly /\ "order" \notin astray
    /\ Quiet /\ ProcessStatus = "Processed"
    => MeshAgrees

\* Once every event is dealt with, the mesh is not configured from a deployment
\* that no longer exists, whatever was queued when it was deleted: no retry of
\* processNextItem undoes a deletion that was processed while it waited.
NoResurrection == Quiet /\ mesh # NoObj => api[mesh.name] # NoObj

\* The same as long as no handler fails and workers take turns: events that are
\* queued when their deployment is deleted, and created again, are processed in
\* an order that leaves nothing behind, however their versions compare.
DeletionIsFinal == Orderly => NoResurrection

\* An event that is dropped, given up or skipped is never the last word: a
\* deployment left ProcessingInProgress, which no resync enqueues again
\* (UpdateFuncImpl), still has an event on its way to a worker.  What strands the
\* status is the informer setting it after the event was handled, workers that
\* do not take turns, and strings that are out of order, and nothing else.
InProgressIsCarried ==
    InTurn /\ astray = {} /\ ProcessStatus = "ProcessingInProgress" =>
        \/ queue # <<>> \/ delayed # <<>>
        \/ \E w \in Workers : work[w] # Idle

\* When the cluster stops changing and the handler stops failing, retries and
\* resyncs bring the mesh to the current state and keep it there.
Converges == <>[](Orderly /\ astray = {} => MeshAgrees)
=============================================================================
