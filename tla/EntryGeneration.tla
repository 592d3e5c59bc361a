--------------------------- MODULE EntryGeneration ---------------------------
(***************************************************************************)
(* How an event about a workload or a service becomes service entries in   *)
(* many clusters: modifyServiceEntryForNewServiceOrPod and what it calls.  *)
(*   admiral/pkg/clusters/serviceentry.go       (the function itself)      *)
(*   admiral/pkg/clusters/handler.go, util.go   (services, removal)        *)
(*   admiral/pkg/controller/util/migration.go   (deployment to rollout)    *)
(*   admiral/pkg/clusters/{deployment,rollout,service}_handler.go          *)
(*   admiral/pkg/controller/admiral/{rollouts,service}.go (the caches)     *)
(*   admiral/pkg/clusters/serviceEntrySuspender.go                         *)
(*                                                                         *)
(* The model follows ONE identity in one environment.  Every cluster has a *)
(* deployment, a rollout and a service controller of its own, and so does  *)
(* its own handler run; a run reads the caches of ALL clusters, one after  *)
(* the other, and then writes the entries of all of them, and nothing      *)
(* serialises the runs of one identity.                                    *)
(*                                                                         *)
(* An endpoint is the ingress of a cluster or a service in a cluster.  The *)
(* writer of a single entry is module ServiceEntryWriter, the fan-out over *)
(* the dependent clusters is ClusterFanout: here a write succeeds or fails *)
(* as a whole.  How the events of one object overtake each other is        *)
(* EventController: here an event that failed comes back, until it is      *)
(* given up, and the resync of the deployments' and rollouts' informers    *)
(* brings those back that were given up.  Services have no resync.         *)
(*                                                                         *)
(* Left out: the services of a rollout come and go together, a canary has  *)
(* a weight above 0, and every cluster has a load balancer.                *)
(***************************************************************************)
EXTENDS Naturals, FiniteSets

CONSTANTS
    Clusters,       \* clusters of the registry
    Clients,        \* clusters in which a dependent of the identity runs
    MixedIngress,   \* clusters of NLBEnabledCluster
    MaxRetries,     \* maxRetries of controller.go
    \* Bounds of the environment
    Offered,        \* strategies a rollout may change to
    Scenarios       \* what the clusters hold at first, and how often what happens

(***************************************************************************)
(* A rollout is used with the strategy blue-green, canary with Istio       *)
(* traffic routing (split over two services), or any other (plain, one     *)
(* service).  A deployment may be selected by two services; the one that   *)
(* was created first is used.                                              *)
(***************************************************************************)
Strategies      == {"plain", "split", "bluegreen"}
DeploymentSvcs  == {"d1", "d2"}
Services        == DeploymentSvcs \cup {"r"}   \* "r": the services of the rollout
Hosts           == {"main", "canary", "preview"}
Kinds           == {"Deployment", "Rollout", "Service"}

Holding == [dep : BOOLEAN, rol : Strategies \cup {"none"}, svc : SUBSET Services]

Addresses == {"ingress", "d1", "d2", "root", "stable", "canary", "active", "preview"}
Endpoint  == [at : Clusters, svc : Addresses]

\* Changes in the clusters, addresses and writes that fail, changes of the suspension
\* list and of the mode, and handler runs that start while another one is under way
Budget == [changes : Nat, failures : Nat, suspensions : Nat, overlaps : Nat]

ASSUME GenerationAssumption ==
    /\ Clients \subseteq Clusters /\ MixedIngress \subseteq Clusters
    /\ MaxRetries \in Nat
    /\ Offered \subseteq Strategies
    /\ Scenarios \subseteq [holds : [Clusters -> Holding], budget : Budget]

NoEvent == [type |-> "none"]
NoRun   == [pc |-> "idle", left |-> Clusters]
Unseen  == [dep |-> FALSE, rol |-> "none", svc |-> {}]

\* what: a deployment, a rollout of a strategy, a service, or the cluster's ingress
\* gateway
Event == [type  : {"Add", "Delete"},
          what  : Strategies \cup Services \cup {"deployment", "gateway"},
          tries : 0 .. MaxRetries]

VARIABLES
    live,       \* what the API server of each cluster holds
    cached,     \* the deployment, rollout and service caches of each cluster
    events,     \* the event each controller has queued
    runs,       \* what the worker of each controller is doing
    entries,    \* the endpoints of each host's service entry in each cluster
    depends,    \* CnameDependentClusterCache
    warming,    \* IsCacheWarmupTime
    halted,     \* the identity is in the suspension list, or the pod read-only
    failed,     \* controllers whose last event was left NotProcessed
    fresh,      \* history: the last run was undisturbed, nothing changed since
    astray,     \* history: what no event that is to come need repair
    budget      \* what the environment may still do, counted

vars == <<live, cached, events, runs, entries, depends, warming, halted, failed,
          fresh, astray, budget>>

envVars == <<warming, halted>>
Keys    == Clusters \X Kinds

Run == [pc    : {"read", "source", "finish"},
        part  : {"Deployment", "Rollout"},     \* eventResourceType
        type  : {"Add", "Delete"},             \* the event the handler passes on
        left  : SUBSET Clusters,               \* clusters of this phase not done
        seen  : [Clusters -> Holding],         \* what was read
        carry : SUBSET Endpoint,               \* weightedServices
        split : [Clusters -> SUBSET Endpoint], \* sourceWeightedServices
        dropped : SUBSET Clusters,             \* no address was found for their host
        err   : BOOLEAN,
        quiet : BOOLEAN]                       \* history: it ran alone

TypeOK ==
    /\ live \in [Clusters -> Holding] /\ cached \in [Clusters -> Holding]
    /\ \A k \in Keys : events[k] \in Event \cup {NoEvent} /\ runs[k] \in Run \cup {NoRun}
    /\ entries \in [Clusters -> [Hosts -> SUBSET Endpoint]]
    /\ depends \subseteq Clusters
    /\ warming \in BOOLEAN /\ halted \in {"no", "suspended", "readOnly"}
    /\ failed \subseteq Keys
    /\ fresh \in BOOLEAN /\ astray \subseteq {"mess", "ghost"}
    /\ budget \in Budget

\* The process starts with empty caches; its informers list what is there
Init ==
    /\ \E s \in Scenarios : live = s.holds /\ budget = s.budget
    /\ cached = [c \in Clusters |-> Unseen]
    /\ events = [k \in Keys |->
         CASE k[2] = "Deployment" /\ live[k[1]].dep
                -> [type |-> "Add", what |-> "deployment", tries |-> 0]
           [] k[2] = "Rollout" /\ live[k[1]].rol # "none"
                -> [type |-> "Add", what |-> live[k[1]].rol, tries |-> 0]
           [] OTHER -> NoEvent]
    /\ runs = [k \in Keys |-> NoRun]
    /\ entries = [c \in Clusters |-> [h \in Hosts |-> {}]]
    /\ depends = {}
    /\ warming = TRUE /\ halted = "no"
    /\ failed = {} /\ fresh = FALSE /\ astray = {}

Spend(k) == budget[k] > 0 /\ budget' = [budget EXCEPT ![k] = @ - 1]

-----------------------------------------------------------------------------
(* What a cluster contributes, from what was read of it                    *)

Workload(v)  == v.dep \/ v.rol # "none"
Migrating(v) == v.dep /\ v.rol # "none"

\* getServiceForDeployment: the matching service that was created first
DeploymentService(v) ==
    CASE ~v.dep                    -> {}
      [] v.dep /\ "d1" \in v.svc -> {"d1"}
      [] OTHER                     -> v.svc \cap DeploymentSvcs

\* getServiceForRollout: the weighted services of the rollout's strategy
RolloutServices(v) ==
    IF "r" \notin v.svc THEN {}
    ELSE CASE v.rol = "plain"     -> {"root"}
           [] v.rol = "split"     -> {"stable", "canary"}
           [] v.rol = "bluegreen" -> {"active", "preview"}
           [] OTHER               -> {}

\* A deployment without a service ends the cluster's turn: its rollout is
\* not looked at
Reached(v) == v.dep => DeploymentService(v) # {}

\* removeSeEndpoints: whether the workload of a kind counts as deleted in a run
Deletes(k, c, kind) ==
    /\ runs[k].type = "Delete" /\ k[1] = c
    /\ Migrating(runs[k].seen[c]) => kind = runs[k].part

\* The hosts a cluster generates an entry for: createServiceEntryForDeployment,
\* GenerateServiceEntryForCanary and createServiceEntryForRollout
DeploymentHosts(v) == IF v.dep THEN {"main"} ELSE {}

CanaryHosts(v) == RolloutServices(v) \cap {"canary"}

RolloutHosts(v) ==
    IF RolloutServices(v) = {} THEN {}
    ELSE {"main"} \cup (RolloutServices(v) \cap {"preview"}) \cup CanaryHosts(v)

HostsOf(v) == IF Reached(v) THEN DeploymentHosts(v) \cup RolloutHosts(v) ELSE {}

Generated(k) == UNION {HostsOf(runs[k].seen[c]) : c \in Clusters \ runs[k].dropped}

\* generateServiceEntry over all clusters: the clusters whose ingress is an
\* endpoint of the host
Members(k, h) ==
    {c \in Clusters \ runs[k].dropped :
        LET v == runs[k].seen[c]
        IN /\ h \in HostsOf(v)
           /\ \/ h = "main" /\ v.dep /\ ~Deletes(k, c, "Deployment")
              \/ RolloutServices(v) # {} /\ ~Deletes(k, c, "Rollout")}

Ingress(cs) == {[at |-> c, svc |-> "ingress"] : c \in cs}
Local(c, ss) == {[at |-> c, svc |-> s] : s \in ss}

\* getOverwrittenLoadBalancer is asked for the cluster of the event when the
\* cluster's own endpoint is looked for, and for the cluster itself when the
\* endpoint is generated
Recognised(k, c) == k[1] \in MixedIngress <=> c \in MixedIngress

-----------------------------------------------------------------------------
(* The environment: changes in the clusters.  How events of one object     *)
(* overtake each other is EventController's subject: here a controller     *)
(* gets its next event when it is done with the last one.                  *)

\* A change is seen by a handler only when it starts, so a change in the
\* middle of a run is the same as one at its start
Between == \A k \in Keys : runs[k].left = Clusters

Change(c, kind, what, holding) ==
    /\ events[<<c, kind>>] = NoEvent /\ runs[<<c, kind>>] = NoRun /\ Between
    /\ Spend("changes")
    /\ live' = [live EXCEPT ![c] = holding]
    /\ events' = [events EXCEPT ![<<c, kind>>] = [what EXCEPT !.tries = 0]]
    /\ UNCHANGED <<cached, runs, entries, depends, envVars, failed, fresh, astray>>

Cluster(c) ==
    \/ Change(c, "Deployment", [type |-> IF live[c].dep THEN "Delete" ELSE "Add",
                                what |-> "deployment", tries |-> 0],
              [live[c] EXCEPT !.dep = ~@])
    \/ \E s \in Offered \ {live[c].rol} :
         Change(c, "Rollout", [type |-> "Add", what |-> s, tries |-> 0],
                [live[c] EXCEPT !.rol = s])
    \/ /\ live[c].rol # "none"
       /\ Change(c, "Rollout", [type |-> "Delete", what |-> live[c].rol, tries |-> 0],
                 [live[c] EXCEPT !.rol = "none"])
    \/ \E type \in {"Add", "Delete"} :
         Change(c, "Service", [type |-> type, what |-> "gateway", tries |-> 0], live[c])
    \/ \E s \in Services : (s \in live[c].svc => s \in cached[c].svc) /\
         Change(c, "Service", [type |-> IF s \in live[c].svc THEN "Delete" ELSE "Add",
                               what |-> s, tries |-> 0],
                [live[c] EXCEPT !.svc = IF s \in @ THEN @ \ {s} ELSE @ \cup {s}])

\* The informer of the service controller lists a service that was there
ListService(c) ==
    \E s \in live[c].svc \ cached[c].svc :
        /\ events[<<c, "Service">>] = NoEvent /\ runs[<<c, "Service">>] = NoRun /\ Between
        /\ events' = [events EXCEPT ![<<c, "Service">>] =
                        [type |-> "Add", what |-> s, tries |-> 0]]
        /\ UNCHANGED <<live, cached, runs, entries, depends, envVars, failed, fresh, astray,
                       budget>>

\* The resync of an informer: a workload that is NotProcessed is enqueued again
Resync(c, kind) ==
    LET what == IF kind = "Rollout" THEN live[c].rol
                ELSE IF live[c].dep THEN "deployment" ELSE "none"
    IN /\ kind # "Service" /\ what # "none" /\ <<c, kind>> \in failed
       /\ events[<<c, kind>>] = NoEvent /\ runs[<<c, kind>>] = NoRun /\ Between
       /\ events' = [events EXCEPT ![<<c, kind>>] = [type |-> "Add", what |-> what, tries |-> 0]]
       /\ UNCHANGED <<live, cached, runs, entries, depends, envVars, failed, fresh, astray,
                      budget>>

\* The start-up period CacheReconcileDuration is over
WarmedUp ==
    /\ warming
    /\ warming' = FALSE
    /\ UNCHANGED <<live, cached, events, runs, entries, depends, halted, failed, fresh,
                   astray, budget>>

\* syncState of ignoreIdentityStateChecker replaces the suspension list, or the lease
\* changes the mode
SyncState ==
    /\ Between /\ Spend("suspensions")
    /\ halted' \in {"no", "suspended", "readOnly"} \ {halted}
    /\ UNCHANGED <<live, cached, events, runs, entries, depends, warming, failed, fresh,
                   astray>>

-----------------------------------------------------------------------------
(* The handlers                                                            *)

\* UpdateDeploymentToClusterCache, UpdateRolloutToClusterCache, and Put of the
\* service cache
PutDeployment(v) == [v EXCEPT !.dep = TRUE]
PutRollout(v, s) == [v EXCEPT !.rol = s]
PutService(v, s) == [v EXCEPT !.svc = @ \cup {s}]

\* Added and Updated of the controllers put the object into the cache first
Put(k, ev) ==
    LET v == cached[k[1]] IN
    CASE ev.type = "Delete" -> v
      [] ev.type # "Delete" /\ k[2] = "Deployment" -> PutDeployment(v)
      [] ev.type # "Delete" /\ k[2] = "Rollout"    -> PutRollout(v, ev.what)
      [] ev.type # "Delete" /\ ev.what \in Services -> PutService(v, ev.what)
      [] OTHER -> v

\* DeleteFromDeploymentClusterCache, DeleteFromRolloutToClusterCache, and Delete
\* of the service cache
EvictDeployment(v) == [v EXCEPT !.dep = FALSE]
EvictRollout(v)    == [v EXCEPT !.rol = "none"]
EvictService(v, s) == [v EXCEPT !.svc = @ \ {s}]

\* Deleted of the controllers: the object leaves the cache
Evicted(v, k, ev) ==
    CASE k[2] = "Deployment" -> EvictDeployment(v)
      [] k[2] = "Rollout"    -> EvictRollout(v)
      [] OTHER               -> EvictService(v, ev.what)

\* handleServiceEventForDeployment and handleServiceEventForRollout: the API
\* server is asked which workloads the service selects; the ingress gateway is for
\* every workload in the cache
DeploymentPart(c, s) ==
    IF (s \in DeploymentSvcs /\ live[c].dep) \/ (s = "gateway" /\ cached[c].dep)
    THEN {"Deployment"} ELSE {}

RolloutPart(c, s) ==
    IF (s = "r" /\ live[c].rol # "none") \/ (s = "gateway" /\ cached[c].rol # "none")
    THEN {"Rollout"} ELSE {}

\* The kind of workload the handler works on
Part(k, ev) ==
    IF k[2] # "Service" THEN {k[2]}
    ELSE DeploymentPart(k[1], ev.what) \cup RolloutPart(k[1], ev.what)

\* Mutant: a service counts as the only one whenever it matches
NeverAnother(k, ev) == k[2] = "Service" /\ ev.type = "Delete" /\ FALSE

\* checkIfThereAreMultipleMatchingServices: the deletion of a service is an
\* update for a workload that has another one.  A service that is being deleted is
\* cached, so that the error for an empty cache does not occur.
AnotherService(k, ev) ==
    /\ k[2] = "Service" /\ ev.type = "Delete" /\ ev.what \in DeploymentSvcs
    /\ \/ Cardinality(cached[k[1]].svc \cap DeploymentSvcs) > 1
       \/ ev.what \notin cached[k[1]].svc

\* How an event ends: it is done, comes back, or is given up
Ended(ev, err) ==
    IF err /\ ev.tries < MaxRetries THEN [ev EXCEPT !.tries = @ + 1] ELSE NoEvent

GivenUp(ev, err) == err /\ ev.tries = MaxRetries

Others(k) == {j \in Keys \ {k} : runs[j] # NoRun}

\* serviceEntrySuspender.SuspendUpdate
SuspendUpdate == halted = "suspended"

\* Mutant: during the warm-up an event ends without an error
NoWarmupError == FALSE

\* "processing skipped during cache warm up state" is an error
WarmupError == warming

\* modifyServiceEntryForNewServiceOrPod starts, for a workload of kind part
NewRun(k, part, type) ==
    [pc |-> "read", part |-> part, type |-> type,
     left |-> Clusters, seen |-> [c \in Clusters |-> Unseen],
     carry |-> {}, split |-> [c \in Clusters |-> {}], dropped |-> {},
     err |-> FALSE, quiet |-> Others(k) = {}]

\* What an event leaves behind that nothing repairs: one that was given up and is not
\* brought back by a resync, unless it was an addition in the warm-up, which the events
\* of the workloads, that fail in the warm-up as well, make up for
Unrepaired(k, ev, err) ==
    IF ~GivenUp(ev, err) THEN {}
    ELSE IF ev.type = "Delete" THEN {"ghost"}
    ELSE IF k[2] = "Service" /\ ~warming THEN {"mess"} ELSE {}

\* The worker takes its event and the handler starts.  SuspendUpdate and the read-only
\* mode end the run without an error, the warm-up check ends it with one; otherwise the
\* run goes on to read the caches.  In read-only mode an event is left NotProcessed.
Take(k) ==
    LET ev    == events[k]
        multi == AnotherService(k, ev)
        type  == IF multi \/ ev.what = "gateway" THEN "Add" ELSE ev.type
        base  == [cached EXCEPT ![k[1]] = Put(k, ev)]
        now   == IF multi THEN [base EXCEPT ![k[1]] = Evicted(@, k, ev)] ELSE base
        gone  == [now EXCEPT ![k[1]] = Evicted(@, k, ev)]
        skip  == Part(k, ev) = {} \/ SuspendUpdate \/ halted = "readOnly"
    IN /\ ev # NoEvent /\ runs[k] = NoRun
       /\ IF Others(k) = {} THEN UNCHANGED budget ELSE Spend("overlaps")
       /\ fresh' = FALSE
       /\ runs' = [j \in Keys |->
            IF j = k /\ ~skip /\ ~warming
            THEN NewRun(k, CHOOSE p \in Part(k, ev) : TRUE, type)
            ELSE IF j \in Others(k) THEN [runs[j] EXCEPT !.quiet = FALSE]
            ELSE runs[j]]
       /\ \/ /\ skip
             /\ cached' = IF ev.type = "Delete" THEN gone ELSE now
             /\ events' = [events EXCEPT ![k] = NoEvent]
             /\ failed' = IF halted = "readOnly" THEN failed \cup {k} ELSE failed \ {k}
             /\ astray' = astray \cup
                  (IF Part(k, ev) # {} /\ (SuspendUpdate \/ k[2] = "Service" \/ ev.type = "Delete")
                   THEN {"mess"} ELSE {})
          \/ /\ ~skip /\ ~warming
             /\ cached' = now
             /\ astray' = astray \cup (IF Others(k) = {} THEN {} ELSE {"mess"})
             /\ UNCHANGED <<events, failed>>
          \/ /\ ~skip /\ warming
             /\ cached' = now
             /\ events' = [events EXCEPT ![k] = Ended(ev, WarmupError)]
             /\ failed' = IF GivenUp(ev, WarmupError) THEN failed \cup {k} ELSE failed
             /\ astray' = astray \cup Unrepaired(k, ev, WarmupError)
       /\ UNCHANGED <<live, entries, depends, envVars>>

\* The loop over GetClusterIds, in any order: the caches of a cluster are
\* read.  weightedServices is declared outside the loop, so a cluster that
\* has no rollout keeps what the one before it left there.  If getUniqueAddress fails,
\* the cluster's endpoint is missing in what is written, and the run ends with an error.
Read(k, c) ==
    LET v     == cached[c]
        found == Local(c, RolloutServices(v))
        carry == IF Reached(v) /\ v.rol # "none" THEN found ELSE runs[k].carry
        put   == Workload(v) /\ Reached(v) /\ (v.rol # "none" => found # {})
        With(failure) ==
          [runs EXCEPT
            ![k].left = @ \ {c},
            ![k].seen[c] = v,
            ![k].carry = carry,
            ![k].split[c] = IF put THEN carry ELSE {},
            ![k].dropped = IF failure THEN @ \cup {c} ELSE @,
            ![k].err = @ \/ failure]
    IN /\ runs[k].pc = "read" /\ c \in runs[k].left
       /\ \/ runs' = With(FALSE) /\ UNCHANGED budget
          \/ HostsOf(v) # {} /\ runs' = With(TRUE) /\ Spend("failures")
       /\ UNCHANGED <<live, cached, events, entries, depends, envVars, failed, fresh, astray>>

\* A cname was found in some cluster
Named(k) ==
    \E c \in Clusters : LET v == runs[k].seen[c] IN Workload(v) /\ Reached(v)

\* After the loop: "skipped processing as cname is empty", or the dependent
\* clusters are brought up to date (updateCnameDependentClusterNamespaceCache)
\* and the source clusters follow, which are those with a workload
Built(k) ==
    /\ runs[k].pc = "read" /\ runs[k].left = {}
    /\ IF Named(k)
       THEN LET sources == {c \in Clusters : Workload(runs[k].seen[c])}
            IN /\ runs' = [runs EXCEPT ![k].pc = "source", ![k].left = sources]
               /\ depends' = (depends \cup Clients) \ (sources \cap Clients)
       ELSE /\ runs' = [runs EXCEPT ![k].pc = "finish", ![k].err = TRUE]
            /\ UNCHANGED depends
    /\ UNCHANGED <<live, cached, events, entries, envVars, failed, fresh, astray, budget>>

\* The service of the application type: a cluster without it is passed over
Serves(v) == IF v.dep THEN DeploymentService(v) # {} ELSE RolloutServices(v) # {}

\* UpdateEndpointsForDeployToRolloutMigration keeps the endpoints of what is
\* not being deleted
MigrationServices(k, c) ==
    LET v    == runs[k].seen[c]
        gone == IF runs[k].type = "Delete" /\ k[1] = c THEN {runs[k].part} ELSE {}
    IN (IF "Deployment" \in gone THEN {} ELSE DeploymentService(v))
       \cup (IF "Rollout" \in gone THEN {} ELSE RolloutServices(v))

\* updateEndpointsForBlueGreen
BlueGreenLocals(c, v, h) ==
    IF RolloutServices(v) = {} THEN Ingress({c})
    ELSE Local(c, {IF h = "preview" THEN "preview" ELSE "active"})

\* updateEndpointsForWeightedServices
WeightedLocals(k, c) == runs[k].split[c]

\* The endpoints that stand for the cluster's own ingress in its own entry,
\* in the order in which the code tells the cases apart
Locals(k, c, h) ==
    LET v == runs[k].seen[c]
    IN CASE v.rol = "bluegreen" -> BlueGreenLocals(c, v, h)
         [] v.rol = "split" /\ h = "canary" -> Local(c, {"canary"})
         [] v.rol # "bluegreen" /\ ~(v.rol = "split" /\ h = "canary")
            /\ Cardinality(runs[k].split[c]) > 1 -> WeightedLocals(k, c)
         [] OTHER -> Local(c, IF Migrating(v) THEN MigrationServices(k, c)
                              ELSE DeploymentService(v) \cup RolloutServices(v))

\* A migration waits for both services; the endpoints of the other branches
\* do not
Incomplete(k, c) ==
    LET v == runs[k].seen[c]
    IN /\ Migrating(v) /\ RolloutServices(v) = {}
       /\ v.rol # "bluegreen" /\ Cardinality(runs[k].split[c]) <= 1

\* What a source cluster's entry of a host becomes
AtSource(k, c, h) ==
    LET v    == runs[k].seen[c]
        gone == runs[k].type = "Delete" /\ k[1] = c /\ ~Migrating(v)
    IN IF c \in Members(k, h) /\ Recognised(k, c)
       THEN IF Incomplete(k, c) THEN entries[c][h]
            ELSE Locals(k, c, h) \cup Ingress(Members(k, h) \ {c})
       ELSE IF Members(k, h) = {} \/ gone THEN Ingress(Members(k, h))
       ELSE entries[c][h]

\* The loop over the source clusters: the entries of one of them
WriteSource(k, c) ==
    /\ runs[k].pc = "source" /\ c \in runs[k].left
    /\ IF Serves(runs[k].seen[c])
       THEN /\ entries' = [entries EXCEPT ![c] = [h \in Hosts |->
                 IF h \in Generated(k) THEN AtSource(k, c, h) ELSE @[h]]]
            /\ runs' = [runs EXCEPT ![k].left = @ \ {c}, ![k].err = @ \/ Incomplete(k, c)]
       ELSE /\ runs' = [runs EXCEPT ![k].left = @ \ {c}]
            /\ UNCHANGED entries
    /\ UNCHANGED <<live, cached, events, depends, envVars, failed, fresh, astray, budget>>

\* AddServiceEntriesWithDrToAllCluster for the dependent clusters
WriteDependents(k) ==
    /\ runs[k].pc = "source" /\ runs[k].left = {}
    /\ entries' = [c \in Clusters |->
         IF c \in depends
         THEN [h \in Hosts |-> IF h \in Generated(k) THEN Ingress(Members(k, h))
                               ELSE entries[c][h]]
         ELSE entries[c]]
    /\ runs' = [runs EXCEPT ![k].pc = "finish"]
    /\ UNCHANGED <<live, cached, events, depends, envVars, failed, fresh, astray, budget>>

\* A write fails; the run goes on and returns an error at its end
FailWrite(k) ==
    /\ Spend("failures")
    /\ \/ /\ runs[k].pc = "source"
          /\ \E c \in runs[k].left : Serves(runs[k].seen[c]) /\
               runs' = [runs EXCEPT ![k].left = @ \ {c}, ![k].err = TRUE]
       \/ /\ runs[k].pc = "source" /\ runs[k].left = {}
          /\ runs' = [runs EXCEPT ![k].pc = "finish", ![k].err = TRUE]
    /\ UNCHANGED <<live, cached, events, entries, depends, envVars, failed, fresh, astray>>

\* A migration whose rollout has no service yet, or whose rollout has several:
\* these stand for the deployment as well
HalfMade(v) == Migrating(v) /\ Cardinality(RolloutServices(v)) # 1

\* A rollout behind a deployment that has no service (any more)
Hidden(v) == Migrating(v) /\ ~Reached(v)

\* A cluster with a deployment only that was given another cluster's services
Inherits(run, c) == \E ep \in run.split[c] : ep.at # c

\* A deletion of the last service of a workload that is not cached yet is
\* taken for a deletion of the workload of the other kind
Misdirected(k, run) ==
    run.type = "Delete" /\ ~(IF run.part = "Deployment" THEN run.seen[k[1]].dep
                             ELSE run.seen[k[1]].rol # "none")

\* The situations in which a run leaves something to a later one
Muddled(k, run) ==
    \/ Misdirected(k, run)
    \/ \E c \in Clusters : HalfMade(run.seen[c]) \/ Hidden(run.seen[c]) \/ Inherits(run, c)

\* The handler returns; what was deleted leaves the cache
Finish(k) ==
    LET run   == runs[k]
        ev    == events[k]
        whole == run.quiet /\ ~run.err /\ Generated(k) # {} /\ ~Muddled(k, run)
    IN /\ run.pc = "finish"
       /\ runs' = [runs EXCEPT ![k] = NoRun]
       /\ events' = [events EXCEPT ![k] = Ended(ev, run.err)]
       /\ failed' = IF GivenUp(ev, run.err) THEN failed \cup {k}
                    ELSE IF run.err THEN failed ELSE failed \ {k}
       /\ cached' = IF ev.type = "Delete" /\ ~run.err
                    THEN [cached EXCEPT ![k[1]] = Evicted(@, k, ev)] ELSE cached
       /\ fresh' = whole
       /\ astray' = IF whole THEN astray \ {"mess"}
                    ELSE astray \cup Unrepaired(k, ev, run.err)
                                \cup (IF Muddled(k, run) THEN {"mess"} ELSE {})
       /\ UNCHANGED <<live, entries, depends, envVars, budget>>

-----------------------------------------------------------------------------
Step(k) ==
    \/ Built(k) \/ WriteDependents(k) \/ Finish(k)
    \/ \E c \in Clusters : Read(k, c) \/ WriteSource(k, c)

Next ==
    \/ \E c \in Clusters : Cluster(c) \/ ListService(c) \/ \E kind \in Kinds : Resync(c, kind)
    \/ WarmedUp \/ SyncState
    \/ \E k \in Keys : Take(k) \/ Step(k) \/ FailWrite(k)

Spec == Init /\ [][Next]_vars

-----------------------------------------------------------------------------
(* Properties *)

\* The services behind a host in the cluster that runs them
OwnServices(v, h) ==
    CASE h # "main"                     -> {h}
      [] h = "main" /\ v.rol = "split" /\ RolloutServices(v) # {} -> {"stable", "canary"}
      [] h = "main" /\ v.rol = "bluegreen" /\ RolloutServices(v) # {} -> {"active"}
      [] OTHER -> DeploymentService(v) \cup RolloutServices(v)

(***************************************************************************)
(* What the entries should be, if the clusters hold w.  The entry of every *)
(* host lists, in each cluster that serves it, the cluster's own services  *)
(* and the ingress of every other cluster that serves it, and in each      *)
(* dependent cluster the ingress of all of them.                           *)
(***************************************************************************)
InOrder(w) ==
    \A h \in Hosts :
        LET members == {c \in Clusters : h \in HostsOf(w[c])}
        IN /\ \A c \in members :
                entries[c][h] = Local(c, OwnServices(w[c], h)) \cup Ingress(members \ {c})
           /\ members # {} \/ h = "main" =>
                \A c \in depends : entries[c][h] = Ingress(members)

(***************************************************************************)
(* A handler run that was not disturbed by another one leaves the whole    *)
(* identity in order, whatever happened before it: interrupted, failed and *)
(* overlapping runs, deletions and migrations                              *)
(* (modifyServiceEntryForNewServiceOrPod).                                 *)
(***************************************************************************)
RunRepairs ==
    fresh /\ ~(\E c \in Clusters : Hidden(cached[c])) => InOrder(cached)

\* The warm-up is over, the caches are filled, no event is left and no resync is due,
\* except for workloads none of which can be served: their events fail for ever, since
\* "cname is empty"
Settled ==
    /\ ~warming
    /\ \A k \in Keys : events[k] = NoEvent /\ runs[k] = NoRun
    /\ \A c \in Clusters : live[c].svc \subseteq cached[c].svc
    /\ \/ \A c \in Clusters :
            /\ live[c].dep => <<c, "Deployment">> \notin failed
            /\ live[c].rol # "none" => <<c, "Rollout">> \notin failed
       \/ ~(\E c \in Clusters : Workload(live[c]) /\ Reached(live[c]))

(***************************************************************************)
(* Once all is settled, the entries are those of the workloads and         *)
(* services that the clusters really hold: through the warm-up period, in  *)
(* which events fail and are given up, through failed addresses and        *)
(* writes, services that arrive after the workloads they belong to, and    *)
(* times in which the pod was read-only.  Except: what is not repaired     *)
(* (astray), and migrations that lack a service.                           *)
(***************************************************************************)
EntriesFollow ==
    /\ Settled /\ astray = {} /\ halted = "no"
    /\ ~(\E c \in Clusters : HalfMade(live[c]) \/ Hidden(live[c]))
    => InOrder(live)
=============================================================================
