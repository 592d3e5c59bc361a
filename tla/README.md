# Admiral: models, model checking and proofs

Admiral watches the deployments, rollouts, services and policies of many
Kubernetes clusters and keeps the Istio configuration (service entries,
destination rules, virtual services, Envoy filters) of all of them in line with
what it sees. This directory holds TLA+ models of the parts where interleavings,
failures and stale state decide whether that works, TLC configurations that check
them on small instances, and TLAPS proofs of the results that hold for all
instances. Paths below are relative to the root of the repository; file names
without a directory are in `admiral/pkg/clusters` or `admiral/pkg/controller/…`.

## 1. Inventory

### Components, their state and operations

| Component | State | Operations | What makes it correct |
|---|---|---|---|
| Event controller (`controller/admiral/controller.go`) | work queue, rate limiter, informer cache | `AddFunc`, `UpdateFuncImpl`, `DeleteFunc`, `processNextItem`, `processItem`, `shouldRetry` | no event is lost, no older event undoes a newer one, retries end |
| Deployment controller (`deployment.go`) | cache: identity, environment → deployment and process status | `Added`, `Updated`, `Deleted`, status updates | `Processed` is only said of what the mesh reflects |
| Read-write lease (`admiralReadWriteLeaseStateChecker.go`) | item in a DynamoDB table, mode of the pod, ticker | `ExecuteStateCheck`, `runStateCheck`, start-up | one pod writes, a crashed writer is replaced, no writes in warm-up |
| Address store (`serviceentry.go`, `util.go`) | configmap, its copy in each pod | `getUniqueAddress`, `loadServiceEntryCacheData` | addresses are unique and never change |
| Service entry writer (`serviceentry.go`, `serviceentry_handler.go`) | service entry in the cluster, informer's cache of it | decide, create, update, retry, delete | the cluster gets the wanted spec, custom entries are left alone |
| Fan-out (`AddServiceEntriesWithDrToAllCluster`) | two channels per entry, worker pool | feed, collect, write, send | the call returns, errors reach the caller, no goroutine leaks |
| Service entry generation (`modifyServiceEntryForNewServiceOrPod`) | caches of all clusters, entries of source and dependent clusters | read every cluster, build, write, delete, skip | entries follow from the caches, in every cluster |
| Rollouts, services (`rollouts.go`, `service.go` and handlers) | caches by identity and by namespace | `Added`, `Updated`, `Deleted` | a workload is in the mesh while a service selects it |
| Locality routing (`virtualservice_routing.go`, `destinationrule_handler.go`) | destination rule, ingress and in-cluster virtual services, their caches | write rule, discover routes, write virtual services, roll back, pin | traffic is split once, by the shares of the policy |
| Copies of users' objects (`virtualservice_handler.go`, `destinationrule_handler.go`) | copies in dependent clusters | sync, retry, delete | copies follow the source, none is left over |
| Traffic policies (global traffic, outlier detection, client connection) | cache by cluster, cache for all clusters | put, gather, choose by priority and age, publish, write | every cluster uses the best policy, regions never point at each other |
| Dependencies, client discovery (`dependency_handler.go`, `clientdiscovery_handler.go`) | source ↔ destination maps, client caches | processing of destinations, client-initiated processing | the clusters of a client have the entries of its servers |
| Cluster registry, secrets (`controller/secret`, `registry.go`) | remote controllers by cluster, stop channels | add, refresh, delete, start | the registry follows the secrets, one watch per cluster |
| Routing policies, Envoy filters (`routingpolicy_handler.go`, `envoyfilter.go`) | cache of filters by policy | add, update, delete | filters follow the policy |
| Suspender, ignore-identity checker | cached list | refresh, `SuspendUpdate` | a run after the suspension repairs what was missed |
| Shard handler (operator mode) | shard status, channels | producer, consumers, result | the status tells of every failed identity |
| Workload database, admin API, metrics, command line, generated clients | – | I/O | – |

### Interaction

Informers (one per kind and cluster) call the event controller's handlers, which
put items into a work queue. Workers take items, update the delegate's cache and
call the handler, which computes the service entries of the identity from all
caches (generation), asks the address store for their addresses and writes them
with their destination rules to all source and dependent clusters (fan-out,
writer), the destination rule carrying the policy chosen for the identity (traffic
policies) and fitting the virtual services (locality routing). Which clusters are
dependent follows from dependencies and from where clients run. An error travels
back to the worker, which requeues the item. The mode set by the lease checker is
tested at the start of the handler and again when the worker sets the item's
status. The registry starts and stops the sets of informers. Copies of users'
virtual services and destination rules, and Envoy filters, are written by handlers
of their own, which use the same caches of dependents.

### What is hard

* retries in the rate limiter are overtaken by newer events and by deletions, and the test for that differs from kind to kind;
* several workers handle events of the same object (`DeploymentOrRolloutWorkerConcurrency`, five by default), and the controllers of all clusters handle events of the same identity;
* a run reads the caches of all clusters one after the other, writes later, and is serialised with no other run;
* the lease is read and written by separate requests, without a condition, on a timer;
* two pods and many goroutines share one configmap, with optimistic concurrency;
* writers decide on the informer's cached object, which lags, and modify it in place;
* errors are collected by counting, over channels of a fixed size, or are logged and dropped;
* two handlers (dependency and client, policy and dependency) each fill caches the other starts from, and may each leave work to the other;
* crashes, restarts with cold caches, warm-up periods in which events end without effect, and mode changes in the middle of a handler.

`PROJECT.json` lists each of these at its line under `hazards`, with the
properties that cover it and where their cover ends.

## 2. Modules and their correspondence with the code

`PROJECT.json` maps every definition to the lines it models.

| Module | Models | Kind |
|---|---|---|
| `EventController` | queue, workers, retry, deployment cache, process status | state machine |
| `LeaseStateChecker` | lease table, checkers of the pods, clock | state machine with discrete time |
| `AddressBook` | what the address store promises | abstract specification |
| `AddressStore` | configmap, pods' caches, calls of `getUniqueAddress` | state machine, implements `AddressBook` |
| `ServiceEntryWriter` | one service entry of one cluster, informer's cache, workers | state machine |
| `ClusterFanout` | caller, workers and channels of the fan-out | state machine |
| `EntryGeneration` | one identity: workloads and services of all clusters to service entries of all clusters | state machine around the endpoint computation |
| `LocalityRouting` | destination rule and virtual services of one identity in one cluster | state machine around the computation of routes |
| `TrafficPolicies` | the policies of one identity, of three kinds, in all clusters | state machine |
| `IstioSync` | copies of users' virtual services and destination rules | state machine |
| `Dependencies` | clients, servers, jobs, and the clusters that get entries | state machine |
| `ClusterRegistry` | secrets, registered clusters, running controllers | state machine |
| `RoutingPolicies` | routing policies, dependencies, Envoy filters | state machine |
| `AddressStoreProofs`, `LeaseProofs`, `EventControllerProofs`, `ClusterFanoutProofs`, `ClusterRegistryProofs`, `RoutingPoliciesProofs`, `DependenciesProofs`, `TrafficPoliciesProofs` | theorems about the module each is named after | proofs |
| `MC…` | values of the constants for TLC | – |

The modules divide the work of one event between them: `EventController` is the
loop every delegate runs in; `EntryGeneration`, `LocalityRouting` and
`TrafficPolicies` are the phases of `modifyServiceEntryForNewServiceOrPod`;
`ClusterFanout` is how its results reach the clusters, `ServiceEntryWriter` how one
of them is written, `AddressStore` where its address comes from; `Dependencies`
says which clusters are dependent. Where a module needs another one it uses it at
the precision of one step that succeeds or fails. Environments are bounded by
budgets (a record of how often what may happen), which the guards of the
environment's actions consume; a module is started with any of several budgets, so
that one run has behaviours with failures, others with overlapping workers, and so
on. History variables (`lost`, `raced`, `irregular`, …) record that a behaviour met
one of the weaknesses listed in section 3, and the properties are about behaviours
that did not.

**EventController.** `api`, `watch` and `store` are the API server, the
undelivered watch events and the informer's store (external, as the code uses
them). `queue` and `delayed` are the two halves of the rate-limited queue.
`slot` is the one cache item that all deployments of an identity and environment
share, and `known` the identity's entry around it: the distinction matters,
since `UpdateDeploymentProcessStatus` fails without the entry and creates an item without
the slot. A worker's run of `processNextItem` is cut at every access to shared
state: `GetItem` (with `shouldRetry`), `CacheStep`, `Begin`, `WriteMesh` or
`FailWrite`, `Evict`, `SetStatus`, `Finish`. `Begin` reads the cache and the
mode, `SetStatus` reads the mode again, as the code does. The informer is a goroutine
beside the workers: `UpdateFunc` ends with `queue.Add`, and what `UpdateFuncImpl` does after it,
reading the mode (`ReadMode`) and setting the status (`MarkInProgress`), are steps of their
own (`informer`), between which a worker may process the event. The handler's effect is
abstracted to `mesh`, the deployment and template the mesh is configured from.
The order of resource versions is a parameter, since the code compares strings. `astray`
records that a comparison went against the numbers (`"order"`) or that the status was set
after a worker was through with the event (`"mark"`), and `spent.overlaps` counts the items
taken while another worker held one.

**LeaseStateChecker.** Time stamps are kept as ages, capped where no comparison
of the code changes, so that time is unbounded and the state space finite. A
check is `StartCheck` (reads the clock), `Scan`, `Decide`, `Put`; a tick may
come between any two. `Started` is a pod as `InitAdmiral` leaves it; `Exit` is
the exit of `pauseForAdmiralToInitializeState`. `Park` is the operator of the
comment at line 13 of the checker's file, who hands the lease to the skip pod. The
scan of the table is eventually consistent (`dynamoDB.go:356` sets no `ConsistentRead`): an
answer that is somewhat old is in the model as an earlier `Scan` of the same check, with a pause
before `Decide`; answers older than the check itself are left out.

**AddressStore, AddressBook.** A call of `getUniqueAddress` goes through `Lookup`,
`Get`, `Create`, `Put`, `Reload`, `Assign`, and back through `Retry`. Addresses are
represented by their position in the search order, so that `FirstPosition` is
the arithmetic of `secondIndex` and `firstIndex`, and `FreePositions` the result
of the search loop. A failed `Put` may or may not have reached the API server.
The cache is replaced in a step of its own, as the code replaces a pointer
without a lock. `AddressBook` has two variables, the book (each name's address)
and the answers callers were told, and two actions: a name is entered with an
address nobody has, and a caller is told what the book says. `AddressStore`
implements it with the configmap as the book (`Book`, `ImplementsBook`).

**ServiceEntryWriter.** A spec is a set of endpoints. `shared` says that a
worker's `oldServiceEntry` *is* the cached object, so that assignments to it show
up in the cache (`SetOld`); `Deliver` replaces the cached object and leaves the
worker with the old one. `want` is the result of service entry generation and
`dirty` the event queue, both at the precision the writer needs. A setting says
whether the cache is compared with, whether Admiral is in its boot phase, which
workers run and which requests may fail. `Valid` is `validateServiceEntryEndpoints`: a spec
with an endpoint that has no locality or no TLS label (`Unlocated`) is refused with an error
(`Refuse`). `lost` records that the code has met a situation in which it ends an event
without its effect.

**ClusterFanout.** The two channels of every entry, the caller's loop and the
goroutines. An error value is the set of failures it tells of, so `AppendError`
is union and nil is the empty set. `Drop` is a cluster that the registry does not
know. What a worker does with one pair of service entry and destination rule is
one step (`HandleSeDr`), which `ServiceEntryWriter` takes apart; among its outcomes is that the
old entry could not be read, which ends without a write and without an error. `NoPairs`
is `createSeAndDrSetFromGtp` returning nothing, because no address could be had: then nothing
is written either, nobody is recorded as served, and nil is sent.

**EntryGeneration.** `live` is what each cluster's API server holds, `cached` the
deployment, rollout and service caches. Every cluster has a controller of each
kind, and each of these a worker, whose run is `Take` (the handler up to the
computation, with its early returns for warm-up, suspension, read-only mode, ignored and unknown
workloads), one `Read` per cluster, `Built`, one `WriteSource` per source cluster,
`WriteDependents` and `Finish`. Hosts are the main one and those of a canary and a
preview; an endpoint is the ingress of a cluster or a service in a cluster, so a
rollout's strategy, a migration from deployment to rollout and the choice of the
oldest service decide the endpoints as in the code. A `Read` may find no address for the host of a
cluster; that cluster is left out (`dropped`) and the run goes on. An event that fails comes
back up to `MaxRetries` times and is then given up (`Ended`, `GivenUp`): the controller is left in
`failed`, from which the informer's `Resync` enqueues deployments and rollouts again, but not
services, whose informer has no resync period (`registry.go:186`). Events of the ingress gateway
(`"gateway"`) run for the workloads of the cluster. `SyncState` changes the suspension list or the mode
(`halted`), `WarmedUp` is the end of the warm-up. `astray` records what no event that is to
come need repair.

**LocalityRouting.** One identity in one cluster, which may also run in one other
region. A run is made of the phases of the code, in their order: `WriteRule`
(`DoDRUpdateForInClusterVSRouting` decides from the cached virtual service),
`Discover`, `WriteIngress`, `Rollback`, `WriteInCluster`, `Pin`
(`performDRPinning`). `workCache` is the workload as the controllers' caches have it: it stays there until
a run for its deletion has succeeded, so such a run still discovers its routes. `entry` is the
service entry of the host, `entryCache` the cached one that `isSEMultiRegion` asks. `Rollback` visits
the cluster only if the run has seen a workload in it: one that has not ends at `Start`. `Observe…` bring a cache up to date. Routes are functions
from destinations to percentages; `Scaled` keeps the single-precision product and
its rounding. The workload's and the policy's workers run the same function, and their
events are tried again up to `MaxRetries` times.

**TrafficPolicies.** A policy has a cluster, a priority, a creation time, a version,
an ignore label and, for each DNS prefix, the region that a failover of weight 100 makes
active (`Targets`). Creation times count seconds, so policies may tie, and any of the best
may be chosen (`Best`). Handlers put a policy into the cache of its
cluster; a run then gathers (`Gather`), remembering the clusters in which it found the
identity (`over`, the code's `sourceServices`), publishes the best to the cache of all
clusters (`Publish`) and writes those clusters, the preferred region first if
`PreventSplitBrain` is set (`Write`). The preferred region is that of any one prefix whose region
changed, since the code takes the first it finds in a Go map (`PreferenceRegions`). The differences between the three kinds (what a
retry is compared with, what an ignored policy does to the cache, whether errors
come back) are in the operators that the actions share.

**IstioSync.** One name, in up to two source clusters, copied to the dependent
clusters or to all. The worker of a source cluster handles an event with one
goroutine per target cluster for virtual services, one target after the other for
destination rules. The source clusters are appended to the dependent ones without
removing duplicates, so a cluster may be visited twice (`Jobs`). Each visit goes through `Start`, `Get`, `Create`, `Reget`, `Update`,
`RetryGet`, `RetryUpdate`, or `DeleteOld` and `Delete`. Versions stand for the
contents. `legacy` are copies under the name used formerly.

**Dependencies.** The workers of the dependency, workload and job controllers share
the caches that the code shares: `identityDependency`, `identityCluster`,
`sourceToDestinations`, `cnameDependents`, `served`
(`ClientClusterNamespaceServerCache`). `Process` is the destination service
processor with its early returns, `NextServer` and `Write` the run for each server,
`Put` what the dependency handler records at its end. `DependencyProcessing` is
`IsDependencyProcessingEnabled`. `WriteSkipped` is a failed read of the old entry: nothing is written, no
error is returned and the client counts as served. `phase` is the warm-up of the caches and the longer one of dependencies.

**ClusterRegistry.** A secret maps clusters to API servers. One worker handles one
secret at a time, cluster by cluster (`AddCluster`, `LeaveCluster`,
`RefreshCluster`, `DeleteCluster`), each of which starts or stops a set of
controllers. `watching` are the sets whose informers deliver events; a set whose channel
is closed stops watching and is `parked`, since its workers block in `queue.Get`: `ShutDown` is deferred
behind them (`controller.go:284`, `registry.go:301`). `moves` counts how often the secrets gave a
reason for that. `Panic` is the use of a controller that a failed start did not leave.

**RoutingPolicies.** A filter has a policy, a plugin, a client, a cluster and a
version. The policy worker and the dependency worker go through the same steps of
writing (`NextDependent`, `Prepare`, `Write`, `EndWrite`); deletions go by the cache
of filters (`DeleteCluster`, `DeleteFilter`, `EndDelete`), count a filter that is
already gone as an error, and are retried. `DependencyFails` is the early return of the
dependency handler when the entries of the destinations fail: neither the policies are processed
nor the dependency recorded, and the event comes again or is given up.

## 3. Runs

All runs pass.

| Run | Instance | Shows |
|---|---|---|
| `events` | one deployment, two workers, two retries, versions from 8 on compared as strings; five budgets: two writes with three failing handlers; three writes with one; four writes with two deletions; two writes with a deletion, an ignore change, a failure and a mode switch; two writes with a deletion, a failure and an item taken while the other worker holds one (385,566 states) | `SettledAgrees`, `DeletionIsFinal`, `InProgressIsCarried`, `CacheNeverRegresses`, `Converges` |
| `lease` | two pods, period 5, threshold 2, warm-up 3, pauses of 1; one crash, one failed request, one parking | `WritersConfirmed`, `NoWriterInWarmup`, `OverlapIsShort`, `OneWriterEventually`, `SkipMeansPassive` |
| `address` | two names, two pods, goroutines 2 + 1, three tries, blocks of width 2; no configmap, or one with gaps; one failed request, one restart | `StoreConsistent`, `GrantsAreFinal`, `NeverInvalid`, `ImplementsBook` |
| `writer` | two endpoints, a dummy and one without a locality; three settings: failing writes and three changes; failing reads in the boot phase; two workers with the cache, any failing request and a user's entry | `SettledAgrees`, `CustomSurvives`, `Converges` |
| `fanout` | two clusters, two workers; calls with two plain entries, with a policy entry of two pairs, with an entry without hosts; every outcome, entries that cannot be read and addresses that cannot be had included | `NothingLeftBehind`, `ErrorsReported`, `Finishes` |
| `sync` | two clusters, which may be targets twice, both kinds of object, resync of rules only; nine budgets: failures, late and leaving clusters, new dependents, mode switches, objects no longer to be copied, namesakes and deletions | `ProcessedMeansCopied`, `NoOrphans`, `CopiesConverge` |
| `generation` | two clusters, the second with a client; a deployment alone, one in migration, one next to a canary rollout; one retry; changes of workloads, services and gateways, a failing address or write, suspensions and read-only times, overlapping runs | `RunRepairs`, `EntriesFollow` |
| `routing` | a deployment, canaries of 33 and 84 percent, blue-green, a migration; no policy, failover of 50, topology with an extra prefix of 75; up to two changes, a failure, an overlap, resyncs (7.6 · 10⁶ states) | `ExportedIsBacked`, `SharesHonoured`, `PassiveForwards`, `HiddenWhenDisabled` |
| `policies` | two clusters in two regions, two prefixes, three places for policies, the three kinds, equally old policies, versions from 9 on compared as strings; up to three changes, a joining cluster, a failure, an overlap | `NoCrossing`, `SettledUsesBest`, `ChangesTakeEffect` |
| `deps` | one client, two servers, two clusters, client-initiated processing; changes, moves, a failed or silently skipped write, an overlap, a restart | `SettledCovered`, `OnlyWhereNeeded`, `EventuallyCovered` |
| `registry` | two secrets, two clusters, two API servers and an unusable kubeconfig; up to three changes, a failed start, a restart | `OneWatch`, `SlowLeak`, `RegistryFollows` |
| `filters` | two policies, two plugins, two clients, two clusters, two versions; changes, new clients, a failure (of a filter, a deletion or a dependency), an overlap, a mode switch, a restart (3.4 · 10⁶ states) | `FiltersAreKnown`, `SettledFollows` |

What the properties say, beyond their names:

* `CacheNeverRegresses`, `InProgressIsCarried`, `SettledAgrees`, `Converges` of the events: two workers and versions that gain a digit are in the run. What goes wrong with them is recorded (`spent.overlaps`, `astray`), and the properties say that nothing else does: as long as workers take turns, whichever of them takes the next event, and comparisons come out as those of the numbers.
* `EntriesFollow`: events fail during the warm-up and are given up after the last retry. Once all is settled the entries are nevertheless those of what the clusters hold, since the resync of deployments and rollouts brings back what was given up, which covers the services, too, if they arrived in the warm-up.
* `RunRepairs`: however entries got into disorder (failed, overlapping, suspended runs, deletions, migrations), one run that nothing disturbs puts those of the whole identity in order, in all clusters. It is the reason why the missing serialisation of runs does no lasting harm.
* `ExportedIsBacked`, `SharesHonoured`, `PassiveForwards`: traffic passes two splits, the virtual service's and the rule's. The rule must be pinned to the other region exactly if the virtual service is exported, although it is written first, from a cache; then the share of the other region is the policy's, and without a policy traffic is not sent back and forth.
* `NoCrossing`: an invariant of every intermediate state, while clusters are written one by one.
* `NoOrphans`: workers of two clusters create, overwrite and delete the same copies; when the last object is gone, so is the last copy.
* `OneWatch`: the informers of one set of controllers deliver a cluster's events, and no set whose channel was closed is among them.
* `SlowLeak`: workers of old sets do stay parked (`registry.go:301`), but only as many sets as the secrets gave reason to refresh or delete; other changes of a secret, and repeated events of it, leak nothing.
* `FiltersAreKnown`: every filter in a cluster that this process wrote can be found again for deletion, through failures and retries.

Why these bounds are enough to be of interest: `MaxRetries` 2 has a first try, a
retry and the giving up, and three failures reach it. Three tries with one failure
and two competitors exhaust the address loop. A block width of 2 makes the search
cross a block boundary within the first addresses. With period 5, threshold 2 and
pauses of at most 1, the lifetime of a lease exceeds every delay, as with the
settings of `testdata` (15 s, 3), and the warm-up is over within the first period. Two workers
per entry and two clusters make both blocking on a full channel and an early return
possible. Two clusters are a source and a dependent one, or two sources that each
write for the other, which is what the handlers distinguish; a third would be
treated like the second. Two changes and a failure put a retry between an older and a
newer event; three changes of policies create, change and remove one, or have two
compete. A canary of 33 percent under a failover of 50 loses to rounding, and 84
under 75 is the product that single precision misses. The counters bound the
environment only. They appear in the guards, and the code's own steps are never cut.

Symmetry is used in `address` and `filters` only, which have no liveness property.

Deadlock is checked in `lease` and `address`, whose processes never stop. In the
others the environment's budget ends and a quiet system is the aim.

### Where the passing properties end

The properties stay within conditions that they need. Outside of them they fail,
as follows.

Events and lease:

* A failed add waits for its retry while the deployment is deleted: `shouldRetry` finds no cached object, lets the retry through, and the mesh is configured from a deployment that is gone. `DeletionIsFinal` excludes failing handlers together with deletions; `NoResurrection` as an invariant with `Budgets <- RetryAndDelete` shows it.
* two workers that do not take turns (`InTurn` is false): an older event passes its check before, and writes the cache after, a newer one (`CacheNeverRegresses`, then `SettledAgrees`), and a failed older event sets the status back to in progress after the newer one was processed, and is then dropped as outdated (`InProgressIsCarried`). The controllers of deployments and rollouts have five workers by default (`controller.go:298`), the others one.
* versions that gain a digit (`"order"` in `astray`), compared as strings: a failed version 10 is dropped as older than 9 (`InProgressIsCarried`), and the retry of version 9 overwrites version 10 (`CacheNeverRegresses`).
* the informer puts an update into the queue (`controller.go:227`) before it sets the status to in progress (242): a worker that is through with the event in between leaves a status that no event is going to change (`"mark"` in `astray`), and no resync picks the deployment up. One worker is enough for that.
* dropping a conjunct of `Orderly`: a mode switch under a running handler, or a deployment that becomes ignored, leaves the mesh behind with the status `Processed`.
* `Names = {d1, d2}`: two deployments of one identity and environment share a slot; the deletion of one clears the mesh of both.
* Two pods can be writers at once, since the lease is written without a condition and a pod keeps its mode until its next check; what that may do to the configuration is at `docs/DisasterRecovery.md:20`. `OverlapIsShort` bounds how long.
* `MaxPause` above `Wait * Threshold` in `MCLease.cfg`: a delayed pod is a writer without being confirmed.

Writer and fan-out (`lost` in `ServiceEntryWriter` records these):

* an update that fails has already changed the cached object, so that its retry finds nothing to change; and a comparison with a lagging cache suppresses a write that is needed. Both need the cache comparison, which `lost` covers from the start.
* a failed read yields an empty object without annotation, which is taken for a custom entry.
* a custom entry created between Admiral's read and its create is overwritten. `CustomSurvives` is what remains: an entry that the cache knows, with nothing under way, is safe.
* a spec with an endpoint that fails `validateServiceEntryEndpoints` is refused at every retry, so the entry stays as it was.
* a fan-out without an address, or whose reads fail, writes nothing and sends nil (`serviceentry.go:2533`, `1601`): `ErrorsReported` is about writes that failed, and an entry without an error need not have been written.
* the nil of a skipped pair is counted as a cluster's result: the caller may return without another cluster's error, and workers may block for ever on the full channel. `ErrorsReported` and `Finishes` exempt exactly these entries, not the caller.

Copies of virtual services and destination rules:

* `Get` with `isRetry` fails for every object, so a stale event is retried and the copies go back: for destination rules for good if the event counts as processed, and otherwise until a resync; for virtual services until the next event, since their informer has no resync period (`registry.go:282`).
* failed copies are only logged; a cluster that is registered late never gets copies of destination rules that count as processed.
* the errors of the goroutines are appended to one slice without a lock (`virtualservice_handler.go:421`); the slice is only logged, so it has no counterpart in the model.

Generation:

* the weighted services of one cluster are used for the next one if that has none (`serviceentry.go:383`), and the load balancer of a cluster is looked up under the event's cluster name (`serviceentry.go:603`): `Inherits` and `Misdirected` runs are not `fresh`.
* a deployment without a service hides a rollout that has one (`serviceentry.go:290`, `Hidden`).
* a cluster in which the identity no longer runs keeps its entry when the event was lost or suspended; `RunRepairs` is about the clusters that serve the identity and the dependent ones.
* overlapping runs leave what the slower one read.
* an event that is given up is the last word of a deletion (`"ghost"` in `astray`) and, outside of the warm-up, of a service, for which there is no resync (`registry.go:186`, `"mess"`); so is an event that ends in a suspension, and a deletion or service event in read-only mode.

Routing and policies:

* while migrating under a policy, deployment and rollout get the share each, more than 100 together; rounding loses up to a percent.
* a failed pin has changed the cached rule, so that the next run finds nothing to do; a stale cache of virtual services suppresses a write.
* an identity that is disabled after its workload is gone keeps an exported virtual service: the rollback visits the clusters in which the run found a workload (`virtualservice_routing.go:2183`), so `HiddenWhenDisabled` is about runs that found one.
* a policy that moves two prefixes to different regions: only one of them is preferred, the other is moved in the wrong order, and the regions cross (`troubled`).
* a retry of a traffic policy is compared with the best policy of the namespace (`misjudged`); overlapping runs publish an older choice (`raced`).
* `odCache.Put` deletes an ignored outlier detection from the wrong map (`outlierdetection.go:68`), so it stays in use.
* a failed write in the preferred region lets the other one go first and the regions cross.

Dependencies:

* a failed read of the old entry ends without an error and fills the cache of served clients (`serviceentry.go:1613`, `1830`): the client counts as served and has no entries (`dropped`). The cache is therefore no evidence of a write, and no property says it is.
* with `DependencyProcessing = FALSE`, the default of the command line, a dependency is recorded and nothing written (`skipped`); the client's and the server's own events remain.
* a dependency and a client event at once may each leave the work to the other (`raced`); a dependency in the warm-up ends without effect (`skipped`).
* `DependencyController.Get` looks up the object's name in a cache whose key is its source: unless the two agree (`NamedAfterSource`), an outdated retry is not recognised (`outdated`).
* an event of a Dependency that is given up, after `MaxRetries` or because `Get` finds a newer one, may have been the one that a newer update relies on, since the update leaves out the destinations it has in common with the recorded ones (`dropped`).
* a Dependency with an empty list of destinations is not recorded, so that the next update is compared with the list before it: a job that came in between is not served. `MCDeps.cfg` has no empty list, and `NonEmpty` says so in the proof.
* `ClientInitiated = FALSE`, the default of the command line: a client that comes after its dependency is not served until the server's next event. The properties assume it is on.

Registry:

* a refresh or a deletion leaves the workers of the old controllers parked in `queue.Get`, as the comment at `registry.go:301` says, with the items still queued.
* a failed start is not retried, leaves controllers running that no stop channel reaches later, and the next refresh of the cluster panics (`registry.go:305`).
* a cluster taken out of a secret that stays is never deleted; one that two secrets name follows the first. Such clusters are `irregular`.

Routing policies (`lost` in `RoutingPolicies`):

* a dependency whose own entries fail returns before its policies are processed (`dependency_handler.go:70`); if it is given up, its filters are never written.
* errors of writing are dropped, and no resync follows; a client that appears in a further cluster gets no filters.
* a retried deletion fails for the filters that are already gone, so the caches keep the deleted policy, and a later dependency writes its filters again.
* `ProcessDependency` tests neither the mode nor the ignore label; a changed plugin leaves the old filter; the cache of filters is lost in a restart, and with it what to delete.
* maps are read and written by goroutines without a lock (`routingpolicy_handler.go:127`), which is outside the model.

## 4. Fairness

`FairSpec` adds fairness of the code's own goroutines and never of changes, failures,
suspensions, mode switches, crashes or restarts.

* `EventController`, `IstioSync`: informer, workers, rate limiter and resync timer are goroutines that keep running: weak fairness of each. In `IstioSync` only destination rules have a resync; that of virtual services is never enabled. `WriteMesh` is fair and `FailWrite` is not, since failures are bounded.
* `LeaseStateChecker`: time passes, each pod's checker runs, and a pod that went down is started again by Kubernetes. `Tick` is guarded by `OnTime`, which states that no check is delayed beyond `MaxPause`.
* `ServiceEntryWriter`, `ClusterFanout`: each goroutine that can go on does. The order in which goroutines are served by a channel is left open.
* `TrafficPolicies`, `Dependencies`: every worker; in `Dependencies` also that the warm-up ends.
* `ClusterRegistry`: the worker, and Kubernetes starting the process again.
* `AddressStore`, `EntryGeneration`, `LocalityRouting`, `RoutingPolicies` have safety properties only.

## 5. Proofs

### AddressStoreProofs

Theorems `TypeCorrect`, `StoreStaysConsistent`, `AddressesAreFinal`,
`UpdatesAreValid` and `StoreImplementsBook`, for any pods, goroutines and names
(finitely many names), any width, number of tries, failures and restarts.
Assumptions: `TasksAssumption` and `AddressAssumption`, i.e. constants have their
types and the configmap found at the start is consistent.

`StoreConsistent` is not inductive: what a goroutine is about to write, and what a
cache holds, have to be right as well. The inductive invariant `IInv` adds

* `PutSound`: a goroutine at "put" holds a valid store, no newer than the configmap, which, if its version is still the configmap's, is the configmap with one new name and one fresh address;
* `ReloadSound`: a goroutine about to return an address holds the one the configmap has for the name, and caches only what the configmap has;
* `Known` of every cache: each address in it is the configmap's; the same of every granted address.

The heart is that addresses are only ever added to the configmap, which follows
from the version check in `Accepted` and `PutSound`, and that the search ends at a
position not in the list (`FreshAddress`). Consistency of the extended store uses
the cardinality facts of `FiniteSetTheorems`.

`StoreImplementsBook` is the refinement: under `IInv` an accepted update enters one
name with a new address (`UpdateEnters`), a call that returns tells what the book
says (`ReturnAnswers`), and every other step leaves the book alone (`StepRefines`).

### LeaseProofs

`LeaseTypeCorrect` and `WarmPodsOnly`, for any pods and timing constants
that satisfy `LeaseAssumption`. The invariant is the types and, for every pod, that
it does not write while its age is below `Warmup` (`Warm`), whatever step of a check
it is in. `Tick` needs that a pod's age never falls while it is up, and that the cap on
ages lies above the warm-up (`Caps`).

`ConfirmedWriters` and `ShortOverlap`, for any number of pods, under the hypothesis
`Timing`: a check takes less than half a period, the lease outlives a period and two
delays, and the warm-up is not shorter than a period less two delays. With the settings
of `testdata` (15 s, threshold 3) the first two leave delays of up to 7 s. Without
`Timing` a delayed pod writes unconfirmed (section 3).
The table alone says too little, since pods act on what they read: the inductive
invariant `TimeInv` measures by the ticker how long ago each pod scanned
(`Elapsed`) and says

* `Beats`: no pod's ticker fires during its check, and a pod in read-write mode has seen its own lease in its last scan, or is about to leave the mode;
* `Fresh`: a lease that somebody else holds now was written after the pod's scan, so it is not older than that;
* `Overtaken`, `Rivals`: of two pods that have both seen their own lease, one was overtaken by the other, and its scan is so old that its next check is due, or the other has just started.

### EventControllerProofs

`EventsTypeCorrect`, for any number of workers: types, and that a handler that writes
has read a deployment (`SomethingSeen`), without which what it writes has no type.

`CacheKeepsNewest` (the action property `CacheNeverRegresses`) and
`InProgressCarried`, for any deployments, number of workers, comparison of versions, retries and
budgets, without hypotheses. The exemptions are part of the properties and are about what has happened
in a behaviour, not about the constants: a worker took an item while another held one, a comparison of versions went
against the numbers, or, for `InProgressCarried`, the informer set the status too late. Each is
needed; TLC has counterexamples without it (section 3). Until one of them happens at most one worker holds
an item (`Sole`, in `TypeInv`), which is what the order of events rests on.

`OrderInv` is the order of everything the controller has heard of: undelivered
changes are sorted and not older than anything held in the queue, the rate
limiter, a worker or the cache (`WatchSorted`, `HeldTold`); an event that was never tried
follows all of the same deployment before it, and a deletion follows everything
(`QueueOrdered`); what a worker is about to put into the cache is not older than what is
there, by the order of the queue for a first try and by `shouldRetry` for a retry
(`WorkCurrent`). For `InProgressCarried`, `CarryInv` adds that it is not just any
event that is on its way, but one that will not be dropped as stale (`Carried`): a
failed event passes `shouldRetry` at the end of its run because of `WorkCurrent`, and
stays acceptable while the cache does not change.

`DeletionsAreFinal` (`DeletionIsFinal`), without hypotheses and however versions compare. A quiet mesh is
free of deleted deployments only because every event of one is followed by its deletion.
`DeleteInv` says where: in the watch (`AllAnnounced`), in the queue behind the event, or
at a worker that has not come to the removal (`AllEnd`); and that without failures only deletions
are ever tried again (`OnlyDeletesRetried`), so that nothing overtakes one.

`ProcessedIsSettled` (`SettledAgrees`), with the hypothesis `OneName`: two deployments
that share an identity and environment share a slot of the cache and the mesh, and for them the
property is false (section 3). `SettleInv` follows the template of the deployment the informer
knows: an event with it waits and will be accepted, is at work, or has reached cache and mesh
(`Settling`). That the cache's version suffices to tell this needs that templates never go back
as versions grow (`TemplatesOrdered`) and that a deployment that is created again differs from the one deleted
(`DeletesOlder`); `StoreFollows` links the informer to the API server. A status that the informer
sets too late does no harm here: it is not `Processed`.

### ClusterFanoutProofs

`FanoutTypeCorrect`, `FanoutComplete`, `FanoutReports`, for any entries, finite set of
clusters, number of workers and outcomes. The caller counts values that do not say
which cluster they are for, so the proof counts, too: `FanoutInv` says that each
cluster of an entry is in exactly one place, not yet fed, in the channel, with one
worker or answered (`OnePlace`), that the number of answered clusters is what the
caller received plus what is in the error channel (`Counted`), and that a failure is
known to a worker, in the channel, or received (`Told`). A failure is a write that failed; an entry
that could not be read, and a cluster without pairs (`NoPairs`), are outcomes of the model that add
none, as in the code, so `FanoutReports` does not say that no error means written. When the caller has received as
many values as there are clusters, the channel is empty and every cluster is answered
(`AllAnswered`).

### ClusterRegistryProofs

`RegistryTypeCorrect`, `WatchedOnce`, and `RegistryCaughtUp`, the safety half of
`RegistryFollows`: whenever nothing is queued or handled, the registry agrees with the
secrets. For any secrets, clusters, API servers and budgets. `WatchInv` adds to `OneWatch`
that nothing runs while Admiral is down, that a set is registered under its own cluster, and that
sets are numbered, so that a new one is none of those that are parked. Parked workers are in the
model; `OneWatch` is about who delivers events, and how many are parked is `SlowLeak`, which TLC checks. `FollowInv`
says where a difference between secrets and registry may still be: in the queue, in a
task that has read the secret as it is, or in one whose secret is queued again.

### RoutingPoliciesProofs

`RoutingTypeCorrect` and `FiltersKnown`, for any finite sets of policies and clients, any
clusters, versions, retries and budgets. A deletion clears the cache of a policy at its
end without looking at the clusters again, so `FiltersAreKnown` needs what is true on the
way there: a filter is in the cache before it is written (`Prepared`), a deletion that
has not failed so far has yet to come to every filter that is left (`Deletions`), filters are
only where a deletion looks (`InEnabled`), and the two workers take turns (`Alone`),
except in behaviours with `raced`, which the property exempts.

`FiltersFollow` (`SettledFollows`), without further hypotheses, looks in both directions while
nothing is `lost`. Every filter there is is as its policy says now, or a change is
queued, or a task is going to delete or rewrite it (`StaleIsRepaired`); every filter that is due is
there, or its policy is queued, or a task is going to write it (`MissingIsWritten`); or else
the client it is for is not yet known in that cluster (`Late`). This is inductive with what ties the queue to the policies
(`QueueFollows`: the current policy is queued after every other word about it), the
cache to the queue (`CacheFollows`), and tasks to both (`WritesCurrent`,
`DeletesCurrent`). `GroundInv` adds that all that was learnt of clients and clusters
has its reason in the world. A dependency that fails before its policies are processed
(`DependencyFails`) stays queued, or is given up and counts as `lost` if filters are missing.

### DependenciesProofs

`DependenciesTypeCorrect` and `OnlyNeeded`, for any servers, finite sets of clients
and clusters, with and without client-initiated processing and dependency processing, any retries and budgets.
`OnlyWhereNeeded` relates the entries to the world, but what writes them are
caches and tasks filled long before; `NeedInv` says that every event, cache and task
has its reason in the world: a workload or job that runs, a dependency that was asked for
(`EventsSound`, `CachesSound`, `TasksSound`). It is inductive since reasons are never
taken back: in the model workloads only arrive and the history of requests only grows.

`ClientsAreCovered` (`SettledCovered`), with the hypothesis `NonEmpty`: no Dependency has an empty list of
destinations. `CoverInv` follows each entry that is missing for a client in a cluster
to the event that will bring it: one of the server, of the client's workload or job, a failed
Dependency event that comes again (`ToCome`), or the task at work (`Underway`), which
`MissingIsServed` says of everything the cache of dependencies holds. Which events may
be relied on depends on the order of the queue: an update is compared with the
recorded destinations, so these have to be the cached ones unless the event comes
again (`RecordFollows`), and what comes again must not overwrite something newer. `QueueInv` has
the facts for that: the last untried event of a client says what is wanted
(`LastIsWanted`), a current event is not followed by others (`LatestIsLast`), what is repeated
and current is what is cached (`RepeatedIsCached`), and an update finds something cached
(`UpdateFollows`). `TasksServe` and `OverAll` are about a task at work, which the property
lets assume it is alone. `HeardInv` holds in all behaviours, disturbed or not: whatever runs in
the world is known or queued, and nothing is newer than the world.

### TrafficPoliciesProofs

`PolicyTypeCorrect`, `NeverCrossing` (`NoCrossing`) and `BestInTheEnd`
(`SettledUsesBest`), for any clusters, regions, names and kinds of policies, any
retries and budgets.

`TypeInv` adds to the types that policies are kept under their names and that a run writes
clusters in which the identity runs (`Visits`). `Best` is a set: policies may tie in priority and
age, a run publishes any of the best (`BestIn`), and the clusters agree because they all
take what was published.

`NeverCrossing` is about the states between two writes and needs `Handover`: clusters
use the current policy or, as long as their turn has not come, all the same former one, between
which and the current one there is only one region to prefer; and unless the preferred region is done,
only its clusters have been written; `Reaches` adds that a run comes to every cluster that has a policy. Two
clusters that cross use one policy each, and the one that still waits is in the new
active region, so the other cannot have been written. The theorem has
`PreventSplitBrain` as its hypothesis, the code's option for this order.

`BestInTheEnd` follows every policy from the user to the rules. `Heard`: a cache agrees with
its cluster, or an untried event is queued, the last of which is the last change.
`Followed`: the same for the event in a run, so that dropping it after a failure is
safe unless it was the last. `Accurate`: what a run has gathered, published and
written so far is right for the clusters it has been to. `Awaited`: between runs, all
clusters are in line or an event will bring them there. Failures are included;
overlapping runs and misjudged retries are what the property exempts.

### Assumptions

Each module's `…Assumption` says that constants have their types. Beyond that:
finitely many names (`AddressStore`), clusters (`ClusterFanout`), policies and clients
(`RoutingPolicies`), clients and clusters (`Dependencies`), which Kubernetes
guarantees, and that the value for "nothing" (`Absent`, `None`, `NoOwner`, `NoPolicy`, the
region `"none"`) is not a value of another kind. TLC evaluates them on every run. `Timing`,
`OneName`, `PreventSplitBrain` and `NonEmpty` are hypotheses of the theorems that name them;
the instances of `MCLease.cfg`, `MCEvents.cfg`, `MCPolicies.cfg` and `MCDeps.cfg` satisfy them.

### Checked by TLC only

Liveness (`Converges`, `OneWriterEventually`, `SkipMeansPassive`, `Finishes`,
`CopiesConverge`, `ChangesTakeEffect`, `EventuallyCovered`,
`RegistryFollows` beyond `RegistryCaughtUp`) is out of the prover's reach.
The safety properties of the eight modules above are all proved except `SlowLeak`. Those of
`ServiceEntryWriter` (`SettledAgrees`, `CustomSurvives`), `IstioSync` (`ProcessedMeansCopied`,
`NoOrphans`), `EntryGeneration` (`RunRepairs`, `EntriesFollow`) and `LocalityRouting` are not. In
`EntryGeneration` and `LocalityRouting` most of a property is what a computation
returns, which TLC evaluates on all bounded inputs.

The inductive invariants were model-checked before they were proved: each holds on its
component's run, and `CoverInv` in what TLC reached of instances with two clients and larger
budgets.

## 6. Not modelled

* Shard handler and operator mode: an alternative entry point that is off by default, with producers and consumers of its own around a copy of the fan-out. Read but not modelled: the config writer overwrites what it collected for an environment, and of several errors of the cache only the last is kept.
* The merge of generated virtual services with users' own, `processVirtualService`, and the update of client sidecars.
* The workload database, traffic configuration, admin API, metrics, command line: I/O without a protocol. State-syncer mode and the registry client (`callRegistry…`). Custom resource types and clients: generated code.

Simplifications, by module:

* `EventController`: the informer's read of the status and its `queue.Add` are one step; what is lost is an event that fails, waits for the rate limiter and is requeued between the two, and so precedes the new one in the queue.
* `LeaseStateChecker`: scans that answer with a state from before the check.
* `ServiceEntryWriter`: labels, ports, localities and TLS mode of endpoints are parts of what an endpoint *is*, and whether a locality or the TLS label is missing is known of it; workload data written to the database and additional endpoints are left out.
* `AddressStore`: the conversion of positions to octets and their limit of 255.
* `EntryGeneration`: ports, partitioned identities, additional endpoints; one identity in one environment. The services of a rollout come and go together, a canary has a weight above 0, and every cluster has a load balancer (a dummy address is not merged with another cluster's).
* `LocalityRouting`: one source cluster and one other region; a change from one kind of workload to another is one event; topology policies without targets; the check of the Cartographer virtual services lets all pass; `EnableExportTo` is on; the rules of extra hosts.
* `TrafficPolicies`: process statuses and resync; policies that change their identity; `lastUpdatedAt` annotations, by which traffic policies that have one are compared instead of by creation.
* `IstioSync`: hosts and subsets are part of an object's version.
* `Dependencies`: clients and servers are disjoint, a client has one namespace, workloads only arrive, one worker per kind; gateway-only destinations and the read-only mode.
* `ClusterRegistry`: the operator personas and the filter of secrets by shard.
* `RoutingPolicies`: one server and environment, policies in one cluster, dependencies are only added.

## 7. Plan

Proofs: `ServiceEntryWriter` (`CustomSurvives`, then `SettledAgrees`) and `IstioSync`
(`NoOrphans`, `ProcessedMeansCopied`), whose properties, like those proved, relate a
quiet system to what was queued on the way there.

Modelling: the lease composed with writers, so that a mode changes while a handler
is writing, with what a single writer promises as the abstract specification; the
shard handler around `ClusterFanout`; the merge with custom virtual services; the
octets of addresses.
