--------------------------- MODULE RoutingPolicies ---------------------------
(***************************************************************************)
(* Routing policies of a server, and the Envoy filters they become in the  *)
(* clusters of its clients.                                                *)
(*   admiral/pkg/controller/admiral/routingpolicy.go       (controller)    *)
(*   admiral/pkg/clusters/routingpolicy_handler.go         (handler, caches)*)
(*   admiral/pkg/clusters/envoyfilter.go                   (the filters)   *)
(*                                                                         *)
(* Two workers write filters: that of the policy controller, for all       *)
(* clients known when an event of a policy is handled, and that of the     *)
(* dependency controller, for the client of a new Dependency.  The filters *)
(* of a policy are found again, to delete them, through a cache that is    *)
(* filled as they are written.                                             *)
(*                                                                         *)
(* All policies are about one server, which runs in the mesh and in one    *)
(* environment, and live in one cluster.  What a filter contains is given  *)
(* by the revision of the policy it was made from.                         *)
(***************************************************************************)
EXTENDS Naturals, Sequences, FiniteSets

CONSTANTS
    Names, Plugins, Clients, Clusters,
    Enabled,        \* RoutingPolicyClusters: where policies are processed
    Versions,       \* GetEnvoyFilterVersion: one filter for each
    MaxRetries,
    Absent,
    \* Bounds of the environment
    Worlds,         \* where the clients run at first
    Budgets         \* how often what may happen

Policy == [name : Names, plugin : Plugins, ignore : BOOLEAN, rev : Nat]
Item   == [type : {"Add", "Update", "Delete"}, obj : Policy, tries : Nat]
Ask    == [type : {"Add", "Update"}, client : Clients, tries : Nat]
Budget == [changes : Nat, asks : Nat, moves : Nat, failures : Nat, overlaps : Nat,
           toggles : Nat, restarts : Nat]

\* The name of a filter is made of the plugin and the hashes of the policy and
\* of the client, and the version
Key    == [at : Clusters, name : Names, plugin : Plugins, client : Clients, version : Versions]
Filter == [key : Key, rev : Nat]

ASSUME RoutingAssumption ==
    /\ Enabled \subseteq Clusters /\ MaxRetries \in Nat
    /\ Worlds \subseteq [Clients -> SUBSET Clusters] /\ Budgets \subseteq Budget
    /\ IsFiniteSet(Names) /\ IsFiniteSet(Clients)
    /\ Absent \notin Policy \cup Filter \cup Key \cup Ask

VARIABLES
    \* the world
    live,       \* the policies
    wanted,     \* clients with a Dependency on the server
    homes,      \* the clusters in which each client runs
    filters,    \* the Envoy filters in the clusters
    clock,
    readOnly,
    warm,       \* the dependency controller still warms up
    \* events
    rpQ, depQ,
    \* caches
    rpCache,        \* RoutingPolicyCache
    filterCache,    \* RoutingPolicyFilterCache, for each policy
    identityDependency, identityCluster, sourceToDestinations,
    tasks,      \* what each worker is doing
    \* history
    ours,       \* the filters written by this process
    lost,       \* why some filter may not be as it should
    budget

world  == <<live, wanted, homes, clock>>
caches == <<rpCache, filterCache, identityDependency, identityCluster, sourceToDestinations>>
vars   == <<world, filters, readOnly, warm, rpQ, depQ, caches, tasks, ours, lost, budget>>

Workers == {"policy", "dependency"}
Reasons == {"failed", "raced", "readonly", "warmup", "moved", "plugin", "ignored", "forgotten",
            "outdated", "restart", "removed"}

Idle == [pc |-> "idle"]
WriteTask  == [pc : {"write"}, obj : Policy, more : SUBSET Policy, ask : Ask \cup {Absent},
               todo : SUBSET (Clusters \X Clients), pair : (Clusters \X Clients) \cup {<< >>},
               left : SUBSET Versions, now : Key \cup {Absent}, seen : Filter \cup {Absent},
               err : BOOLEAN]
DeleteTask == [pc : {"delete"}, item : Item, todo : SUBSET Clusters, batch : SUBSET Key,
               err : BOOLEAN]

TypeOK ==
    /\ live \in [Names -> Policy \cup {Absent}] /\ rpCache \in [Names -> Policy \cup {Absent}]
    /\ wanted \subseteq Clients /\ identityDependency \subseteq Clients
    /\ sourceToDestinations \subseteq Clients
    /\ homes \in [Clients -> SUBSET Clusters]
    /\ identityCluster \in [Clients -> SUBSET Clusters]
    /\ filters \subseteq Filter /\ ours \subseteq Key
    /\ \A f, g \in filters : f.key = g.key => f = g
    /\ clock \in Nat /\ readOnly \in BOOLEAN /\ warm \in BOOLEAN
    /\ rpQ \in Seq(Item) /\ depQ \in Seq(Ask)
    /\ filterCache \in [Names -> SUBSET Key]
    /\ tasks \in [Workers -> WriteTask \cup DeleteTask \cup {Idle}]
    /\ lost \subseteq Reasons /\ budget \in Budget

Init ==
    /\ live = [n \in Names |-> Absent] /\ wanted = {} /\ homes \in Worlds
    /\ filters = {} /\ clock = 0 /\ readOnly = FALSE /\ warm = TRUE
    /\ rpQ = << >> /\ depQ = << >>
    /\ rpCache = [n \in Names |-> Absent] /\ filterCache = [n \in Names |-> {}]
    /\ identityDependency = {} /\ identityCluster = [c \in Clients |-> {}]
    /\ sourceToDestinations = {}
    /\ tasks = [w \in Workers |-> Idle]
    /\ ours = {} /\ lost = {} /\ budget \in Budgets

Spend(f) == budget[f] > 0 /\ budget' = [budget EXCEPT ![f] = @ - 1]

\* lost, with the reasons r for which the condition holds
Note(r, condition) == IF condition THEN {r} ELSE {}

Starting(w) ==
    IF \A u \in Workers \ {w} : tasks[u] = Idle THEN UNCHANGED budget ELSE Spend("overlaps")
Racing(w) == Note("raced", \E u \in Workers \ {w} : tasks[u] # Idle)

Of(name) == {f \in filters : f.key.name = name}

\* What the filters of client c should be, as the policies are now
Due(c) ==
    {[key |-> [at |-> k, name |-> n, plugin |-> live[n].plugin, client |-> c, version |-> v],
      rev |-> live[n].rev] :
        k \in homes[c] \cap Enabled, n \in {m \in Names : live[m] # Absent /\ ~live[m].ignore},
        v \in Versions}

-----------------------------------------------------------------------------
(* Caches and filters                                                      *)

\* RoutingPolicyCache.Put and GetForIdentity
PutPolicy(obj) == rpCache' = [rpCache EXCEPT ![obj.name] = obj]
GetForIdentity == {rpCache[n] : n \in Names} \ {Absent}

\* routingPolicyFilterCache.Put and Get
PutFilter(key) == filterCache' = [filterCache EXCEPT ![key.name] = @ \cup {key}]
FiltersIn(name, k) == {key \in filterCache[name] : key.at = k}

\* RoutingPolicyCache.Delete and routingPolicyFilterCache.Delete do nothing in
\* read-only mode
DeletePolicy(name)  == rpCache' = IF readOnly THEN rpCache ELSE [rpCache EXCEPT ![name] = Absent]
DeleteFilters(name) == filterCache' = IF readOnly THEN filterCache
                                      ELSE [filterCache EXCEPT ![name] = {}]

\* createOrUpdateEnvoyFilter and constructEnvoyFilterStruct: the name and the
\* contents of the filter that policy obj becomes for a client in a cluster
KeyOf(obj, pair, v) ==
    [at |-> pair[1], name |-> obj.name, plugin |-> obj.plugin, client |-> pair[2], version |-> v]
FilterOf(obj, key) == [key |-> key, rev |-> obj.rev]

-----------------------------------------------------------------------------
(* Events of policies                                                      *)

\* ProcessAddOrUpdate: the enabled clusters, and the dependents in each
Writing(obj, more, ask, dependents) ==
    [pc |-> "write", obj |-> obj, more |-> more, ask |-> ask, todo |-> Enabled \X dependents,
     pair |-> << >>, left |-> {}, now |-> Absent, seen |-> Absent, err |-> FALSE]

\* RoutingPolicyService.Delete
Deleting(item) ==
    [pc |-> "delete", item |-> item, todo |-> Enabled, batch |-> {}, err |-> FALSE]

\* A retry is not compared with what is there: the controller's Get fails
StartDelete(item) ==
    /\ tasks' = [tasks EXCEPT !["policy"] = Deleting(item)]
    /\ lost' = lost \cup Racing("policy")
         \cup Note("forgotten", \E f \in Of(item.obj.name) : f.key \notin ours)
         \cup Note("outdated", item.tries > 0 /\ live[item.obj.name] # Absent)
    /\ UNCHANGED rpCache

\* Mutant: an ignored policy is left as it is, as Added does
UpdatedIgnored(item) ==
    /\ lost' = lost \cup Racing("policy")
    /\ UNCHANGED tasks

\* RoutingPolicyHandler.Updated for an ignored policy: "we need to process this
\* as a delete event"
UpdatedAsDeleted(item) ==
    /\ tasks' = [tasks EXCEPT !["policy"] = Deleting(item)]
    /\ lost' = lost \cup Racing("policy")
         \cup Note("forgotten", \E f \in Of(item.obj.name) : f.key \notin ours)

\* RoutingPolicyHandler.Added and Updated
AddOrUpdate(item) ==
    /\ PutPolicy(item.obj)
    /\ CASE readOnly ->
              lost' = lost \cup {"readonly"} /\ UNCHANGED tasks
         [] ~readOnly /\ item.obj.ignore ->
              IF item.type = "Add"
              THEN lost' = lost \cup Racing("policy") /\ UNCHANGED tasks
              ELSE UpdatedAsDeleted(item)
         [] ~readOnly /\ ~item.obj.ignore ->
              /\ tasks' = IF identityDependency = {} THEN tasks
                          ELSE [tasks EXCEPT !["policy"] =
                                  Writing(item.obj, {}, Absent, identityDependency)]
              /\ lost' = lost \cup Racing("policy")
                   \cup Note("plugin", \E f \in Of(item.obj.name) : f.key.plugin # item.obj.plugin)

\* RoutingPolicyController.Added, Updated and Deleted
TakePolicy ==
    /\ tasks["policy"] = Idle /\ rpQ # << >>
    /\ rpQ' = Tail(rpQ)
    /\ Starting("policy")
    /\ LET item == Head(rpQ) IN
       IF item.type = "Delete" THEN StartDelete(item) ELSE AddOrUpdate(item)
    /\ UNCHANGED <<world, filters, readOnly, warm, depQ, filterCache, identityDependency,
                   identityCluster, sourceToDestinations, ours>>

-----------------------------------------------------------------------------
(* Events of dependencies                                                  *)

\* getDestinationsToBeProcessed: the server is new to the client
IsNew(ask) == ask.type = "Add" \/ ask.client \notin sourceToDestinations

\* Policies that were removed, or replaced, but are still in the cache: their
\* deletion has failed
Gone ==
    {n \in Names : /\ rpCache[n] # Absent /\ rpCache[n] # live[n]
                   /\ \A i \in DOMAIN rpQ : rpQ[i].obj.name = n => rpQ[i].type = "Add"}

\* HandleDependencyRecord up to RoutingPolicyService.ProcessDependency, which
\* asks neither for the mode nor whether a policy is to be ignored
TakeDependency ==
    /\ tasks["dependency"] = Idle /\ depQ # << >>
    /\ depQ' = Tail(depQ)
    /\ Starting("dependency")
    /\ LET ask == Head(depQ)
           policies == GetForIdentity IN
       /\ identityDependency' = identityDependency \cup {ask.client}
       /\ IF warm \/ ~IsNew(ask) \/ policies = {}
          THEN /\ sourceToDestinations' = sourceToDestinations \cup {ask.client}
               /\ lost' = lost \cup Note("warmup", policies # {} /\ ~ (Due(ask.client) \subseteq filters))
               /\ UNCHANGED tasks
          ELSE /\ \E p \in policies :
                    tasks' = [tasks EXCEPT !["dependency"] =
                                Writing(p, policies \ {p}, ask, {ask.client})]
               /\ lost' = lost \cup Racing("dependency")
                    \cup Note("ignored", \E p \in policies : p.ignore)
                    \cup Note("removed", Gone # {})
               /\ UNCHANGED sourceToDestinations
    /\ UNCHANGED <<world, filters, readOnly, warm, rpQ, rpCache, filterCache, identityCluster, ours>>

\* HandleDependencyRecord returns early if the entries of the server cannot be
\* written (DestinationServiceProcessor.Process): the client is known, but neither
\* the policies nor SourceToDestinations.put follow, and the event comes back
DependencyFails ==
    /\ tasks["dependency"] = Idle /\ depQ # << >> /\ ~warm /\ Spend("failures")
    /\ LET ask == Head(depQ) IN
       /\ IsNew(ask) /\ identityCluster[ask.client] # {}
       /\ depQ' = IF ask.tries < MaxRetries
                  THEN Append(Tail(depQ), [ask EXCEPT !.tries = @ + 1]) ELSE Tail(depQ)
       /\ identityDependency' = identityDependency \cup {ask.client}
       /\ lost' = lost \cup Note("failed", GetForIdentity # {} /\ ~ (Due(ask.client) \subseteq filters))
    /\ UNCHANGED <<world, filters, readOnly, warm, rpQ, rpCache, filterCache, identityCluster,
                   sourceToDestinations, tasks, ours>>

-----------------------------------------------------------------------------
(* Writing filters                                                         *)

\* The next cluster and dependent, if the dependent runs there
NextDependent(w) ==
    /\ tasks[w].pc = "write" /\ tasks[w].left = {} /\ tasks[w].now = Absent
    /\ \E p \in tasks[w].todo :
         tasks' = [tasks EXCEPT ![w].todo = @ \ {p}, ![w].pair = p,
                     ![w].left = IF p[1] \in identityCluster[p[2]] THEN Versions ELSE {}]
    /\ UNCHANGED <<world, filters, readOnly, warm, rpQ, depQ, caches, ours, lost, budget>>

\* createOrUpdateEnvoyFilter, the next version: the filter is put into the
\* cache, then it is read
Prepare(w) ==
    /\ tasks[w].pc = "write" /\ tasks[w].now = Absent
    /\ \E v \in tasks[w].left :
         LET key == KeyOf(tasks[w].obj, tasks[w].pair, v)
         IN /\ PutFilter(key)
            /\ \E seen \in {f \in filters : f.key = key} \cup {Absent} :
                 /\ seen = Absent => \A f \in filters : f.key # key
                 /\ tasks' = [tasks EXCEPT ![w].left = @ \ {v}, ![w].now = key, ![w].seen = seen]
    /\ UNCHANGED <<world, filters, readOnly, warm, rpQ, depQ, rpCache, identityDependency,
                   identityCluster, sourceToDestinations, ours, lost, budget>>

Written(w, err) ==
    tasks' = [tasks EXCEPT ![w].now = Absent, ![w].seen = Absent, ![w].err = @ \/ err]

\* The filter is created or updated.  It is an error if it has come into being,
\* has changed or is gone since it was read
Write(w) ==
    /\ tasks[w].pc = "write" /\ tasks[w].now # Absent
    /\ LET key == tasks[w].now
           old == {f \in filters : f.key = key}
           asSeen == IF tasks[w].seen = Absent THEN old = {} ELSE old = {tasks[w].seen}
       IN /\ filters' = IF asSeen THEN (filters \ old) \cup {FilterOf(tasks[w].obj, key)}
                        ELSE filters
          /\ ours' = IF asSeen THEN ours \cup {key} ELSE ours
          /\ Written(w, ~asSeen)
    /\ UNCHANGED <<world, readOnly, warm, rpQ, depQ, caches, lost, budget>>

\* The filter cannot be read or written.  Nobody tries again: the controller
\* drops the handler's error, and the dependency handler logs it
WriteFails(w) ==
    /\ tasks[w].pc = "write" /\ tasks[w].now # Absent
    /\ Spend("failures") /\ Written(w, TRUE) /\ lost' = lost \cup {"failed"}
    /\ UNCHANGED <<world, filters, readOnly, warm, rpQ, depQ, caches, ours>>

\* The end of ProcessAddOrUpdate.  For a Dependency the next policy follows,
\* and after the last, or an error, SourceToDestinations.put
EndWrite(w) ==
    /\ tasks[w].pc = "write" /\ tasks[w].todo = {} /\ tasks[w].left = {} /\ tasks[w].now = Absent
    /\ LET ask == tasks[w].ask IN
       IF ask # Absent /\ ~tasks[w].err /\ tasks[w].more # {}
       THEN /\ \E p \in tasks[w].more :
                 tasks' = [tasks EXCEPT ![w] = Writing(p, tasks[w].more \ {p}, ask, {ask.client})]
            /\ UNCHANGED sourceToDestinations
       ELSE /\ tasks' = [tasks EXCEPT ![w] = Idle]
            /\ sourceToDestinations' = IF ask = Absent THEN sourceToDestinations
                                       ELSE sourceToDestinations \cup {ask.client}
    /\ UNCHANGED <<world, filters, readOnly, warm, rpQ, depQ, rpCache, filterCache,
                   identityDependency, identityCluster, ours, lost, budget>>

-----------------------------------------------------------------------------
(* Deleting filters                                                        *)

DeleteCluster(w) ==
    /\ tasks[w].pc = "delete" /\ tasks[w].batch = {}
    /\ \E k \in tasks[w].todo :
         tasks' = [tasks EXCEPT ![w].todo = @ \ {k},
                     ![w].batch = FiltersIn(tasks[w].item.obj.name, k)]
    /\ UNCHANGED <<world, filters, readOnly, warm, rpQ, depQ, caches, ours, lost, budget>>

\* It is an error if there is no such filter
DeleteFilter(w) ==
    /\ tasks[w].pc = "delete"
    /\ \E key \in tasks[w].batch :
         LET old == {f \in filters : f.key = key} IN
         /\ filters' = filters \ old
         /\ tasks' = [tasks EXCEPT ![w].batch = @ \ {key}, ![w].err = @ \/ old = {}]
    /\ UNCHANGED <<world, readOnly, warm, rpQ, depQ, caches, ours, lost, budget>>

DeleteFails(w) ==
    /\ tasks[w].pc = "delete" /\ Spend("failures")
    /\ \E key \in tasks[w].batch :
         tasks' = [tasks EXCEPT ![w].batch = @ \ {key}, ![w].err = TRUE]
    /\ UNCHANGED <<world, filters, readOnly, warm, rpQ, depQ, caches, ours, lost>>

\* The error of a deletion makes the controller try again, that of an update is
\* dropped
Retried(item, err) == err /\ item.type = "Delete" /\ item.tries < MaxRetries

Ended(w, err) ==
    LET item == tasks[w].item IN
    /\ tasks' = [tasks EXCEPT ![w] = Idle]
    /\ rpQ' = IF Retried(item, err) THEN Append(rpQ, [item EXCEPT !.tries = @ + 1]) ELSE rpQ
    /\ lost' = lost \cup Note("failed", err /\ ~Retried(item, err) /\ Of(item.obj.name) # {})

\* Mutant: the caches are cleared although a filter could not be deleted
EndDeleteAnyway(w) ==
    /\ tasks[w].pc = "delete" /\ tasks[w].todo = {} /\ tasks[w].batch = {}
    /\ DeletePolicy(tasks[w].item.obj.name) /\ DeleteFilters(tasks[w].item.obj.name)
    /\ Ended(w, tasks[w].err)
    /\ UNCHANGED <<world, filters, readOnly, warm, depQ, identityDependency, identityCluster,
                   sourceToDestinations, ours, budget>>

EndDelete(w) ==
    /\ tasks[w].pc = "delete" /\ tasks[w].todo = {} /\ tasks[w].batch = {}
    /\ LET n == tasks[w].item.obj.name IN
       IF tasks[w].err THEN UNCHANGED <<rpCache, filterCache>>
       ELSE DeletePolicy(n) /\ DeleteFilters(n)
    /\ Ended(w, tasks[w].err)
    /\ UNCHANGED <<world, filters, readOnly, warm, depQ, identityDependency, identityCluster,
                   sourceToDestinations, ours, budget>>

-----------------------------------------------------------------------------
(* The environment                                                         *)

Emit(type, obj) == rpQ' = Append(rpQ, [type |-> type, obj |-> obj, tries |-> 0])

Apply(n) ==
    /\ Spend("changes") /\ clock' = clock + 1
    /\ \E plugin \in Plugins, ignore \in BOOLEAN :
         LET new == [name |-> n, plugin |-> plugin, ignore |-> ignore, rev |-> clock'] IN
         /\ live' = [live EXCEPT ![n] = new]
         /\ Emit(IF live[n] = Absent THEN "Add" ELSE "Update", new)
    /\ UNCHANGED <<wanted, homes, filters, readOnly, warm, depQ, caches, tasks, ours, lost>>

Remove(n) ==
    /\ live[n] # Absent /\ Spend("changes")
    /\ live' = [live EXCEPT ![n] = Absent] /\ Emit("Delete", live[n])
    /\ UNCHANGED <<wanted, homes, clock, filters, readOnly, warm, depQ, caches, tasks, ours, lost>>

\* A Dependency of the client is created or changed
Depend(c) ==
    /\ Spend("asks") /\ wanted' = wanted \cup {c}
    /\ depQ' = Append(depQ, [type |-> IF c \in wanted THEN "Update" ELSE "Add", client |-> c,
                            tries |-> 0])
    /\ UNCHANGED <<live, homes, clock, filters, readOnly, warm, rpQ, caches, tasks, ours, lost>>

Deploy(c, k) ==
    /\ k \notin homes[c] /\ Spend("moves")
    /\ homes' = [homes EXCEPT ![c] = @ \cup {k}]
    /\ UNCHANGED <<live, wanted, clock, filters, readOnly, warm, rpQ, depQ, caches, tasks, ours, lost>>

\* A workload event fills IdentityClusterCache.  It writes no filters
Discover(c, k) ==
    /\ k \in homes[c] \ identityCluster[c]
    /\ identityCluster' = [identityCluster EXCEPT ![c] = @ \cup {k}]
    /\ lost' = lost \cup Note("moved", /\ c \in identityDependency
                                       /\ \E n \in Names : rpCache[n] # Absent
                                       /\ ~ (Due(c) \subseteq filters))
    /\ UNCHANGED <<world, filters, readOnly, warm, rpQ, depQ, rpCache, filterCache,
                   identityDependency, sourceToDestinations, tasks, ours, budget>>

\* DependencyWarmupMultiplier times CacheReconcileDuration have passed: the
\* workloads have been listed by then
WarmedUp ==
    /\ warm /\ identityCluster = homes /\ warm' = FALSE
    /\ UNCHANGED <<world, filters, readOnly, rpQ, depQ, caches, tasks, ours, lost, budget>>

ToggleMode ==
    /\ Spend("toggles") /\ readOnly' = ~readOnly
    /\ UNCHANGED <<world, filters, warm, rpQ, depQ, caches, tasks, ours, lost>>

Expected == UNION {Due(c) : c \in wanted}

\* The caches are empty, and the informers list what there is in any order.  A
\* deletion that was not handled is forgotten
Restart ==
    /\ Spend("restarts") /\ warm' = TRUE
    /\ LET alive == {n \in Names : live[n] # Absent} IN
       \E s \in [1 .. Cardinality(alive) -> alive], t \in [1 .. Cardinality(wanted) -> wanted] :
          /\ \A n \in alive : \E i \in DOMAIN s : s[i] = n
          /\ \A c \in wanted : \E i \in DOMAIN t : t[i] = c
          /\ rpQ' = [i \in DOMAIN s |-> [type |-> "Add", obj |-> live[s[i]], tries |-> 0]]
          /\ depQ' = [i \in DOMAIN t |-> [type |-> "Add", client |-> t[i], tries |-> 0]]
    /\ rpCache' = [n \in Names |-> Absent] /\ filterCache' = [n \in Names |-> {}]
    /\ identityDependency' = {} /\ identityCluster' = [c \in Clients |-> {}]
    /\ sourceToDestinations' = {} /\ tasks' = [w \in Workers |-> Idle]
    /\ ours' = {} /\ lost' = lost \cup Note("restart", filters # Expected)
    /\ UNCHANGED <<world, filters, readOnly>>

-----------------------------------------------------------------------------

Step(w) ==
    \/ w = "policy" /\ TakePolicy
    \/ w = "dependency" /\ (TakeDependency \/ DependencyFails)
    \/ NextDependent(w) \/ Prepare(w) \/ Write(w) \/ WriteFails(w) \/ EndWrite(w)
    \/ w = "policy" /\ (DeleteCluster(w) \/ DeleteFilter(w) \/ DeleteFails(w) \/ EndDelete(w))

Environment ==
    \/ \E n \in Names : Apply(n) \/ Remove(n)
    \/ \E c \in Clients : Depend(c)
    \/ \E c \in Clients, k \in Clusters : Deploy(c, k) \/ Discover(c, k)
    \/ WarmedUp \/ ToggleMode \/ Restart

Next == (\E w \in Workers : Step(w)) \/ Environment

Spec == Init /\ [][Next]_vars

-----------------------------------------------------------------------------
(* Properties                                                              *)

\* FiltersAreKnown: a filter that this process has written can be found again:
\* RoutingPolicyFilterCache names it for as long as it is in a cluster, whatever
\* fails and whatever the mode, so that a later deletion of the policy reaches
\* it.  Not so if a Dependency is processed while the policy is deleted.
FiltersAreKnown ==
    "raced" \notin lost =>
       \A f \in filters : f.key \in ours => f.key \in filterCache[f.key.name]

Quiet ==
    /\ ~warm /\ rpQ = << >> /\ depQ = << >> /\ identityCluster = homes
    /\ \A w \in Workers : tasks[w] = Idle

\* SettledFollows: once all events are handled, the filters in the clusters are
\* those of the policies: every client has the filters of every policy in each
\* of its clusters, made from the policy as it is now, and no filter is left of
\* a policy that was removed or is to be ignored.  The orders of events, the
\* failed deletions and the restarts under which this holds are those that
\* leave no reason in lost.
SettledFollows == Quiet /\ lost = {} => filters = Expected
=============================================================================
