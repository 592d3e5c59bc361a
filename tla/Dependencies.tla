---------------------------- MODULE Dependencies ----------------------------
(***************************************************************************)
(* Which clusters get the service entries of a server because a client of  *)
(* it runs there.                                                          *)
(*   admiral/pkg/controller/admiral/dependency.go, job.go, vertex.go,      *)
(*     monovertex.go                            (controllers and caches)   *)
(*   admiral/pkg/clusters/dependency_handler.go, clientdiscovery_handler.go*)
(*   admiral/pkg/clusters/util.go               (destinations to process)  *)
(*   admiral/pkg/clusters/deployment_handler.go, rollout_handler.go        *)
(*   admiral/pkg/clusters/serviceentry.go       (dependent clusters)       *)
(*                                                                         *)
(* Three kinds of events lead to a write: one of the server's workload,    *)
(* which goes to the clusters of all known clients; one of a Dependency,   *)
(* which goes to the clusters of its source; and one of a client's         *)
(* workload or job, which looks up what the client depends on.  Each uses  *)
(* caches that the others fill, and each leaves work to the others.        *)
(*                                                                         *)
(* Clients and servers are different identities, with one environment and, *)
(* for a client, one namespace each.  What a service entry contains, and   *)
(* how a run computes it, is the subject of EntryGeneration.               *)
(***************************************************************************)
EXTENDS Naturals, Sequences, FiniteSets

CONSTANTS
    Clients, Servers, Clusters,
    ClientInitiated,    \* ClientInitiatedProcessingEnabledForControllers
    DependencyProcessing,   \* IsDependencyProcessingEnabled
    NamedAfterSource,   \* Dependency objects have the name of their source
    MaxRetries,
    Absent,
    \* Bounds of the environment
    Worlds,             \* where the workloads are at first
    Requests,           \* the sets of destinations a Dependency may have
    Budgets             \* how often what may happen

Identities == Clients \cup Servers
Workers    == {"dependency", "workload", "job"}   \* one event of each kind at a time

Record  == [dests : SUBSET Servers, rev : Nat]
DepItem == [type : {"Add", "Update", "Delete"}, src : Clients, dests : SUBSET Servers,
            rev : Nat, tries : Nat]
JobItem == [src : Clients, at : Clusters, tries : Nat]
Budget  == [changes : Nat, moves : Nat, failures : Nat, overlaps : Nat, restarts : Nat]

ASSUME DependencyAssumption ==
    /\ Clients \cap Servers = {} /\ IsFiniteSet(Clients) /\ IsFiniteSet(Clusters)
    /\ Absent \notin Record \cup DepItem \cup Servers
    /\ ClientInitiated \in BOOLEAN /\ DependencyProcessing \in BOOLEAN
    /\ NamedAfterSource \in BOOLEAN /\ MaxRetries \in Nat
    /\ Worlds \subseteq [Identities -> SUBSET Clusters]
    /\ Requests \subseteq SUBSET Servers /\ Budgets \subseteq Budget

VARIABLES
    \* the world
    wanted,     \* the Dependency object of each client
    home,       \* the clusters in which each identity has a workload
    jobs,       \* <<client, cluster>>: a job of the client is there
    entries,    \* <<cluster, server>>: the cluster has the service entries
    clock,
    phase,      \* "warm" up, "deps" (only dependencies still warm up), "ready"
    \* events
    depQ, workQ, jobQ,
    \* caches
    depCache,   \* DependencyController.Cache
    workCache,  \* the caches of DeploymentController and RolloutController
    identityDependency,     \* IdentityDependencyCache: the clients of each server
    identityCluster,        \* IdentityClusterCache
    sourceToDestinations,
    cnameDependents,        \* CnameDependentClusterNamespaceCache, per server
    served,     \* ClientClusterNamespaceServerCache: <<cluster, client, server>>
    tasks,      \* what each worker is doing
    \* history
    asked,      \* <<client, server>>: there has been such a dependency
    raced, skipped, outdated,
    dropped,    \* an event was given up, or entries left out without an error
    budget

world  == <<wanted, home, jobs, clock>>
queues == <<depQ, workQ, jobQ>>
caches == <<depCache, workCache, identityDependency, identityCluster, sourceToDestinations,
            cnameDependents, served>>
history == <<asked, raced, skipped, outdated, dropped>>
vars == <<world, entries, phase, queues, caches, tasks, history, budget>>

Idle == [pc |-> "idle"]
Task == [pc   : {"process", "loop", "write", "put", "end"},
         item : DepItem \cup JobItem \cup [src : Identities, at : Clusters],
         dep  : DepItem \cup {Absent},       \* the Dependency that is processed
         todo : SUBSET Servers, over : SUBSET Clusters,
         now  : Servers \cup {Absent}, left : SUBSET Clusters, err : BOOLEAN]

AllWork == {[src |-> i, at |-> c] : i \in Identities, c \in Clusters}

TypeOK ==
    /\ wanted \in [Clients -> Record \cup {Absent}]
    /\ home \in [Identities -> SUBSET Clusters]
    /\ jobs \subseteq Clients \X Clusters /\ entries \subseteq Clusters \X Servers
    /\ clock \in Nat /\ phase \in {"warm", "deps", "ready"}
    /\ depQ \in Seq(DepItem) /\ jobQ \in Seq(JobItem)
    /\ workQ \subseteq AllWork /\ workCache \subseteq AllWork
    /\ depCache \in [Clients -> Record \cup {Absent}]
    /\ identityDependency \in [Servers -> SUBSET Clients]
    /\ identityCluster \in [Identities -> SUBSET Clusters]
    /\ sourceToDestinations \in [Clients -> SUBSET Servers]
    /\ cnameDependents \in [Servers -> SUBSET (Clusters \X Clients)]
    /\ served \subseteq Clusters \X Clients \X Servers
    /\ tasks \in [Workers -> Task \cup {Idle}]
    /\ asked \subseteq Clients \X Servers
    /\ {raced, skipped, outdated, dropped} \subseteq BOOLEAN
    /\ budget \in Budget

\* The caches are empty and the informers list what there is
Boot(h, w, j) ==
    /\ phase' = "warm"
    /\ LET asking == {c \in Clients : w[c] # Absent} IN
       \E s \in [1 .. Cardinality(asking) -> asking] :
         /\ \A c \in asking : \E n \in DOMAIN s : s[n] = c
         /\ depQ' = [n \in DOMAIN s |-> [type |-> "Add", src |-> s[n], dests |-> w[s[n]].dests,
                                         rev |-> w[s[n]].rev, tries |-> 0]]
    /\ workQ' = {e \in AllWork : e.at \in h[e.src]}
    /\ \E s \in [1 .. Cardinality(j) -> j] :
         /\ \A p \in j : \E n \in DOMAIN s : s[n] = p
         /\ jobQ' = [n \in DOMAIN s |-> [src |-> s[n][1], at |-> s[n][2], tries |-> 0]]
    /\ depCache' = [s \in Clients |-> Absent] /\ workCache' = {}
    /\ identityDependency' = [d \in Servers |-> {}]
    /\ identityCluster' = [i \in Identities |-> {}]
    /\ sourceToDestinations' = [s \in Clients |-> {}]
    /\ cnameDependents' = [d \in Servers |-> {}]
    /\ served' = {}
    /\ tasks' = [w1 \in Workers |-> Idle]

Init ==
    /\ home \in Worlds
    /\ wanted = [s \in Clients |-> Absent] /\ jobs = {} /\ entries = {} /\ clock = 0
    /\ phase = "warm" /\ depQ = << >> /\ jobQ = << >>
    /\ workQ = {e \in AllWork : e.at \in home[e.src]}
    /\ depCache = [s \in Clients |-> Absent] /\ workCache = {}
    /\ identityDependency = [d \in Servers |-> {}]
    /\ identityCluster = [i \in Identities |-> {}]
    /\ sourceToDestinations = [s \in Clients |-> {}]
    /\ cnameDependents = [d \in Servers |-> {}]
    /\ served = {} /\ tasks = [w \in Workers |-> Idle]
    /\ asked = {} /\ raced = FALSE /\ skipped = FALSE /\ outdated = FALSE /\ dropped = FALSE
    /\ budget \in Budgets

Spend(f) == budget[f] > 0 /\ budget' = [budget EXCEPT ![f] = @ - 1]

\* A worker takes up an event, alone or beside another one
Starting ==
    IF \A w \in Workers : tasks[w] = Idle THEN UNCHANGED <<raced, budget>>
    ELSE Spend("overlaps") /\ raced' = TRUE

Begin(pc, item, dep, todo) ==
    [pc |-> pc, item |-> item, dep |-> dep, todo |-> todo, over |-> {},
     now |-> Absent, left |-> {}, err |-> FALSE]

-----------------------------------------------------------------------------
(* Events of Dependency objects                                            *)

\* DependencyController.Get looks up the cache, whose keys are the sources,
\* with the name of the object
ShouldRetry(item) ==
    LET latest == depCache[item.src] IN
    IF ~NamedAfterSource \/ latest = Absent THEN TRUE ELSE latest.rev <= item.rev

IsLatest(item) ==
    LET now == wanted[item.src] IN
    IF now = Absent THEN item.type = "Delete"
    ELSE item.type # "Delete" /\ now.rev = item.rev

\* updateIdentityDependencyCache
Known(item) ==
    [d \in Servers |-> identityDependency[d]
                         \cup (IF d \in item.dests THEN {item.src} ELSE {})]

\* DependencyController.Added, Updated and Deleted, up to
\* DestinationServiceProcessor.Process.  The handler ignores deletions
TakeDependency ==
    /\ tasks["dependency"] = Idle /\ depQ # << >>
    /\ LET item == Head(depQ) IN
       /\ item.tries > 0 => ShouldRetry(item)
       /\ depQ' = Tail(depQ)
       /\ outdated' = (outdated \/ (item.tries > 0 /\ ~IsLatest(item)))
       /\ IF item.type = "Delete"
          THEN /\ depCache' = [depCache EXCEPT ![item.src] = Absent]
               /\ UNCHANGED <<identityDependency, tasks>>
          ELSE /\ depCache' = [depCache EXCEPT
                    ![item.src] = [dests |-> item.dests, rev |-> item.rev]]
               /\ identityDependency' = Known(item)
               /\ tasks' = [tasks EXCEPT !["dependency"] = Begin("process", item, item, {})]
    /\ Starting
    /\ UNCHANGED <<world, entries, phase, workQ, jobQ, workCache, identityCluster,
                   sourceToDestinations, cnameDependents, served, asked, skipped, dropped>>

DropDependency ==
    /\ tasks["dependency"] = Idle /\ depQ # << >>
    /\ Head(depQ).tries > 0 /\ ~ShouldRetry(Head(depQ))
    /\ depQ' = Tail(depQ)
    /\ dropped' = TRUE
    /\ UNCHANGED <<world, entries, phase, workQ, jobQ, caches, tasks, asked, raced, skipped,
                   outdated, budget>>

-----------------------------------------------------------------------------
(* Events of jobs, vertices and mono vertices                              *)

\* DeploymentOrRolloutExistsInNamespace
HasWorkload(item) == [src |-> item.src, at |-> item.at] \in workCache

\* addUpdateJob and HandleEventForClientDiscovery.  An update or deletion of
\* a job is not handled, and the informer does not list them again
TakeJob ==
    /\ tasks["job"] = Idle /\ jobQ # << >>
    /\ LET item == Head(jobQ)
           record == depCache[item.src] IN
       /\ identityCluster' = [identityCluster EXCEPT ![item.src] = @ \cup {item.at}]
       /\ CASE phase = "warm" ->
                 /\ jobQ' = IF item.tries < MaxRetries
                            THEN Append(Tail(jobQ), [item EXCEPT !.tries = @ + 1]) ELSE Tail(jobQ)
                 /\ UNCHANGED <<identityDependency, tasks>>
            [] phase # "warm" /\ (record = Absent \/ HasWorkload(item)) ->
                 jobQ' = Tail(jobQ) /\ UNCHANGED <<identityDependency, tasks>>
            [] OTHER ->
                 LET dep == [type |-> "Add", src |-> item.src, dests |-> record.dests,
                             rev |-> record.rev, tries |-> 0]
                 IN  /\ jobQ' = Tail(jobQ)
                     /\ identityDependency' = Known(dep)
                     /\ tasks' = [tasks EXCEPT !["job"] = Begin("process", item, dep, {})]
    /\ Starting
    /\ UNCHANGED <<world, entries, phase, depQ, workQ, depCache, workCache, sourceToDestinations,
                   cnameDependents, served, asked, skipped, outdated, dropped>>

-----------------------------------------------------------------------------
(* Processing a Dependency                                                 *)

\* There is something to write that nobody has been told to write
Unserved(dests, clusters) ==
    \E d \in dests, c \in clusters :
       /\ identityCluster[d] # {} /\ <<c, d>> \notin entries
       /\ \A e \in workQ : e.src # d

\* getDestinationsToBeProcessed: an update is compared with what was there
Destinations(dep) ==
    IF dep.type = "Update" THEN dep.dests \ sourceToDestinations[dep.src] ELSE dep.dests

\* Mutant: without clusters of the source the handler returns and records nothing
ProcessOrReturn(w) ==
    /\ tasks[w].pc = "process"
    /\ LET dep == tasks[w].dep
           clusters == identityCluster[dep.src] IN
       IF phase # "ready" \/ ~DependencyProcessing \/ clusters = {}
       THEN /\ tasks' = [tasks EXCEPT ![w].pc = IF phase = "ready" THEN "end" ELSE "put"]
            /\ skipped' = (skipped \/ Unserved(dep.dests, clusters))
       ELSE /\ tasks' = [tasks EXCEPT ![w].pc = "loop", ![w].over = clusters,
                             ![w].todo = {d \in Destinations(dep) : identityCluster[d] # {}}]
            /\ UNCHANGED skipped
    /\ UNCHANGED <<world, entries, phase, queues, caches, asked, raced, outdated, dropped, budget>>

\* ProcessDestinationService.Process
Process(w) ==
    /\ tasks[w].pc = "process"
    /\ LET dep == tasks[w].dep
           clusters == identityCluster[dep.src] IN
       IF phase # "ready" \/ ~DependencyProcessing \/ clusters = {}
       THEN /\ tasks' = [tasks EXCEPT ![w].pc = "put"]
            /\ skipped' = (skipped \/ Unserved(dep.dests, clusters))
       ELSE /\ tasks' = [tasks EXCEPT ![w].pc = "loop", ![w].over = clusters,
                             ![w].todo = {d \in Destinations(dep) : identityCluster[d] # {}}]
            /\ UNCHANGED skipped
    /\ UNCHANGED <<world, entries, phase, queues, caches, asked, raced, outdated, dropped, budget>>

\* The end of HandleDependencyRecord.  An empty list is not recorded
Put(w) ==
    /\ tasks[w].pc = "put"
    /\ LET dep == tasks[w].dep IN
       sourceToDestinations' = IF dep.dests = {} THEN sourceToDestinations
                               ELSE [sourceToDestinations EXCEPT ![dep.src] = dep.dests]
    /\ tasks' = [tasks EXCEPT ![w].pc = "end"]
    /\ UNCHANGED <<world, entries, phase, queues, depCache, workCache, identityDependency,
                   identityCluster, cnameDependents, served, history, budget>>

-----------------------------------------------------------------------------
(* Events of workloads                                                     *)

\* HandleEventForDeployment and HandleEventForRollout while the caches warm
\* up: the event is put off
RegisterWorkload ==
    /\ tasks["workload"] = Idle /\ phase = "warm"
    /\ \E e \in workQ :
         /\ e \notin workCache /\ workCache' = workCache \cup {e}
         /\ identityCluster' = [identityCluster EXCEPT ![e.src] = @ \cup {e.at}]
    /\ UNCHANGED <<world, entries, phase, queues, depCache, identityDependency,
                   sourceToDestinations, cnameDependents, served, tasks, history, budget>>

\* getDestinationsToBeProcessedForClientInitiatedProcessing
ClientDestinations(s, c) ==
    {d \in sourceToDestinations[s] : identityCluster[d] # {} /\ <<c, s, d>> \notin served}

\* processClientDependencyRecord, after the client's own entries
ClientTodo(s, c) ==
    IF ClientInitiated /\ phase = "ready" THEN ClientDestinations(s, c) ELSE {}

TakeWorkload ==
    /\ tasks["workload"] = Idle /\ phase # "warm"
    /\ \E e \in workQ :
         /\ workQ' = workQ \ {e} /\ workCache' = workCache \cup {e}
         /\ identityCluster' = [identityCluster EXCEPT ![e.src] = @ \cup {e.at}]
         /\ LET todo == IF e.src \in Servers THEN {e.src} ELSE ClientTodo(e.src, e.at) IN
            /\ tasks' = [tasks EXCEPT !["workload"] = Begin("loop", e, Absent, todo)]
            /\ skipped' = (skipped \/ (e.src \in Clients /\ phase # "ready"
                             /\ Unserved(sourceToDestinations[e.src], {e.at})))
    /\ Starting
    /\ UNCHANGED <<world, entries, phase, depQ, jobQ, depCache, identityDependency,
                   sourceToDestinations, cnameDependents, served, asked, outdated, dropped>>

-----------------------------------------------------------------------------
(* Runs of modifyServiceEntryForNewServiceOrPod                            *)

\* updateCnameDependentClusterNamespaceCache
Dependents(d) ==
    cnameDependents[d] \cup {p \in Clusters \X Clients :
                               p[2] \in identityDependency[d] /\ p[1] \in identityCluster[p[2]]}

\* Mutant: the entries go to the clusters of all clients
TargetsOfAll(d, over) == identityCluster[d] \cup UNION {identityCluster[s] : s \in Clients}

\* The clusters of the server, and of its clients or those that are asked for
Targets(d, over) ==
    identityCluster[d] \cup (IF over # {} THEN over ELSE {p[1] : p \in Dependents(d)})

\* processDestinationsForSourceIdentity, the next destination
NextServer(w) ==
    /\ tasks[w].pc = "loop"
    /\ \E d \in tasks[w].todo :
         /\ cnameDependents' = [cnameDependents EXCEPT ![d] = Dependents(d)]
         /\ tasks' = [tasks EXCEPT ![w].pc = "write", ![w].todo = @ \ {d}, ![w].now = d,
                                   ![w].left = Targets(d, tasks[w].over)]
    /\ UNCHANGED <<world, entries, phase, queues, depCache, workCache, identityDependency,
                   identityCluster, sourceToDestinations, served, history, budget>>

NoMoreServers(w) ==
    /\ tasks[w].pc = "loop" /\ tasks[w].todo = {}
    /\ tasks' = [tasks EXCEPT ![w].pc = IF tasks[w].dep = Absent \/ tasks[w].err
                                        THEN "end" ELSE "put"]
    /\ UNCHANGED <<world, entries, phase, queues, caches, history, budget>>

\* The end of AddServiceEntriesWithDrWorker for a cluster
Serve(c, d) == {<<c, p[2], d>> : p \in {q \in cnameDependents[d] : q[1] = c}}

Wrote(w, c, err) ==
    tasks' = [tasks EXCEPT ![w].left = @ \ {c}, ![w].err = @ \/ err,
                           ![w].pc = IF tasks[w].left = {c} THEN "loop" ELSE "write"]

Write(w) ==
    /\ tasks[w].pc = "write"
    /\ \E c \in tasks[w].left :
         /\ entries' = entries \cup {<<c, tasks[w].now>>}
         /\ served' = served \cup Serve(c, tasks[w].now)
         /\ Wrote(w, c, FALSE)
    /\ UNCHANGED <<world, phase, queues, depCache, workCache, identityDependency,
                   identityCluster, sourceToDestinations, cnameDependents, history, budget>>

WriteFails(w) ==
    /\ tasks[w].pc = "write" /\ Spend("failures")
    /\ \E c \in tasks[w].left : <<c, tasks[w].now>> \notin entries /\ Wrote(w, c, TRUE)
    /\ UNCHANGED <<world, entries, phase, queues, caches, history>>

\* Failing to read the old entry is no error: what the read returned has no
\* annotation, is taken for a user's own entry and left alone, and the clients
\* count as served
WriteSkipped(w) ==
    /\ tasks[w].pc = "write" /\ Spend("failures")
    /\ \E c \in tasks[w].left :
         /\ <<c, tasks[w].now>> \notin entries /\ Wrote(w, c, FALSE)
         /\ served' = served \cup Serve(c, tasks[w].now)
    /\ dropped' = TRUE
    /\ UNCHANGED <<world, entries, phase, queues, depCache, workCache, identityDependency,
                   identityCluster, sourceToDestinations, cnameDependents,
                   asked, raced, skipped, outdated>>

\* Mutant: an error is logged and the event forgotten
EndForgets(w) ==
    /\ tasks[w].pc = "end"
    /\ tasks' = [tasks EXCEPT ![w] = Idle]
    /\ UNCHANGED <<world, entries, phase, queues, caches, history, budget>>

\* processNextItem.  Workloads that were not processed are listed again
End(w) ==
    /\ tasks[w].pc = "end"
    /\ LET item == tasks[w].item IN
       CASE ~tasks[w].err -> UNCHANGED <<queues, dropped>>
         [] tasks[w].err /\ w = "workload" ->
              workQ' = workQ \cup {item} /\ UNCHANGED <<depQ, jobQ, dropped>>
         [] tasks[w].err /\ w = "job" ->
              /\ jobQ' = IF item.tries < MaxRetries
                         THEN Append(jobQ, [item EXCEPT !.tries = @ + 1]) ELSE jobQ
              /\ dropped' = (dropped \/ item.tries >= MaxRetries)
              /\ UNCHANGED <<depQ, workQ>>
         [] tasks[w].err /\ w = "dependency" ->
              /\ IF item.tries < MaxRetries /\ ShouldRetry(item)
                 THEN depQ' = Append(depQ, [item EXCEPT !.tries = @ + 1]) /\ UNCHANGED dropped
                 ELSE dropped' = TRUE /\ UNCHANGED depQ
              /\ UNCHANGED <<workQ, jobQ>>
    /\ tasks' = [tasks EXCEPT ![w] = Idle]
    /\ UNCHANGED <<world, entries, phase, caches, asked, raced, skipped, outdated, budget>>

-----------------------------------------------------------------------------
(* The environment                                                         *)

Emit(type, s, record) ==
    depQ' = Append(depQ, [type |-> type, src |-> s, dests |-> record.dests, rev |-> record.rev,
                          tries |-> 0])

Ask(s) ==
    /\ Spend("changes") /\ clock' = clock + 1
    /\ \E dests \in Requests :
         LET new == [dests |-> dests, rev |-> clock'] IN
         /\ wanted' = [wanted EXCEPT ![s] = new]
         /\ Emit(IF wanted[s] = Absent THEN "Add" ELSE "Update", s, new)
         /\ asked' = asked \cup ({s} \X dests)
    /\ UNCHANGED <<home, jobs, entries, phase, workQ, jobQ, caches, tasks,
                   raced, skipped, outdated, dropped>>

Withdraw(s) ==
    /\ wanted[s] # Absent /\ Spend("changes")
    /\ wanted' = [wanted EXCEPT ![s] = Absent]
    /\ Emit("Delete", s, wanted[s])
    /\ UNCHANGED <<home, jobs, clock, entries, phase, workQ, jobQ, caches, tasks, history>>

Deploy(i, c) ==
    /\ c \notin home[i] /\ Spend("moves")
    /\ home' = [home EXCEPT ![i] = @ \cup {c}]
    /\ workQ' = workQ \cup {[src |-> i, at |-> c]}
    /\ UNCHANGED <<wanted, jobs, clock, entries, phase, depQ, jobQ, caches, tasks, history>>

StartJob(s, c) ==
    /\ <<s, c>> \notin jobs /\ Spend("moves")
    /\ jobs' = jobs \cup {<<s, c>>}
    /\ jobQ' = Append(jobQ, [src |-> s, at |-> c, tries |-> 0])
    /\ UNCHANGED <<wanted, home, clock, entries, phase, depQ, workQ, caches, tasks, history>>

\* CacheReconcileDuration, and DependencyWarmupMultiplier times it.  The
\* first is long enough for the workloads to be listed
WarmedUp ==
    /\ \/ phase = "warm" /\ phase' = "deps"
          /\ workQ \subseteq workCache
       \/ phase = "deps" /\ phase' = "ready"
    /\ UNCHANGED <<world, entries, queues, caches, tasks, history, budget>>

Restart ==
    /\ Spend("restarts")
    /\ Boot(home, wanted, jobs)
    /\ UNCHANGED <<world, entries, history>>

-----------------------------------------------------------------------------

Step(w) ==
    \/ w = "dependency" /\ (TakeDependency \/ DropDependency)
    \/ w = "job" /\ TakeJob
    \/ w = "workload" /\ (RegisterWorkload \/ TakeWorkload)
    \/ Process(w) \/ Put(w) \/ NextServer(w) \/ NoMoreServers(w)
    \/ Write(w) \/ WriteFails(w) \/ WriteSkipped(w) \/ End(w)

Environment ==
    \/ \E s \in Clients : Ask(s) \/ Withdraw(s)
    \/ \E i \in Identities, c \in Clusters : Deploy(i, c)
    \/ \E s \in Clients, c \in Clusters : StartJob(s, c)
    \/ Restart

Next == (\E w \in Workers : Step(w)) \/ WarmedUp \/ Environment

Spec == Init /\ [][Next]_vars

\* The workers of the controllers do not stop, and time passes
Fairness == WF_vars(WarmedUp) /\ \A w \in Workers : WF_vars(Step(w))
FairSpec == Spec /\ Fairness

-----------------------------------------------------------------------------
(* Properties                                                              *)

Quiet ==
    /\ phase = "ready" /\ depQ = << >> /\ jobQ = << >> /\ workQ = {}
    /\ \A w \in Workers : tasks[w] = Idle

\* No two events at once, none ended without effect while the dependencies
\* warmed up or with their processing disabled, none repeated that was
\* outdated, none given up, and no entries left out without an error
Undisturbed == ~raced /\ ~skipped /\ ~outdated /\ ~dropped

Covered ==
    \A s \in Clients :
       wanted[s] # Absent =>
         \A d \in wanted[s].dests, c \in home[s] \cup {p[2] : p \in {q \in jobs : q[1] = s}} :
            home[d] # {} => <<c, d>> \in entries

\* SettledCovered: once all events are handled, a cluster in which a client
\* runs, as a workload or as a job, has the service entries of every server the
\* client depends on, in whatever order the dependency, the client and the
\* server have come, and over restarts.
SettledCovered == ClientInitiated /\ Quiet /\ Undisturbed => Covered

\* OnlyWhereNeeded: no cluster gets the entries of a server that neither runs
\* there nor has, or has had, a client there that asked for it.
OnlyWhereNeeded ==
    \A p \in entries :
       \/ p[1] \in home[p[2]]
       \/ \E s \in Clients : <<s, p[2]>> \in asked /\ (p[1] \in home[s] \/ <<s, p[1]>> \in jobs)

\* EventuallyCovered: after the last change, failure and restart, the clients
\* come to have the entries of their servers.
EventuallyCovered == <>[](ClientInitiated /\ Undisturbed => Covered)
=============================================================================
