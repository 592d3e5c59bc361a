--------------------------- MODULE LocalityRouting ---------------------------
(***************************************************************************)
(* How traffic is split between the local services of an identity and the  *)
(* other region: the destination rule of its host, and the ingress and     *)
(* in-cluster virtual services (routing based on virtual services).        *)
(*   admiral/pkg/clusters/virtualservice_routing.go                        *)
(*   admiral/pkg/clusters/destinationrule_handler.go (getDestinationRule)  *)
(*   admiral/pkg/clusters/serviceentry.go (order of the phases of a run)   *)
(*                                                                         *)
(* The model follows ONE identity, in one environment, in ONE source       *)
(* cluster; the identity may also run in one other region.  The workload   *)
(* and the global traffic policy (GTP) have a controller with a worker     *)
(* each, and both workers run the same function: service entry and         *)
(* destination rule first, then the discovery of routes, the virtual       *)
(* services, and last the pinning of the destination rule.  Every phase    *)
(* compares with, or even computes from, caches that informers fill later, *)
(* the workload itself included: it stays in the cache until a run for its *)
(* deletion has succeeded.  A change from one kind of workload to another  *)
(* is one event here; a migration makes it two.                            *)
(*                                                                         *)
(* A client in the cluster first follows the in-cluster virtual service.   *)
(* What that sends to the "remote" destination goes to the host of the     *)
(* mesh, and is split once more by the destination rule: only if the rule  *)
(* is pinned to the other region is the split the policy's.                *)
(***************************************************************************)
EXTENDS Integers, FiniteSets, FiniteSetsExt

CONSTANTS
    ActivePassive,      \* EnableActivePassive
    PerformRollback,    \* ShouldInClusterVSRoutingPerformRollback
    Elsewhere,          \* the rule in the cache of the other region's cluster
    \* Bounds of the environment
    Works,              \* workloads the cluster may come to hold
    Policies,           \* traffic policies that may be applied
    Starts              \* what there is at first, and how often what may happen

Workers  == {"workload", "policy"}
Percent  == 0..100

MaxRetries == 2     \* maxRetries of a controller

(***************************************************************************)
(* A workload: a deployment, a rollout, or both while migrating.  "step"   *)
(* is the weight the rollout's virtual service gives to the canary.        *)
(***************************************************************************)
Work    == [dep : BOOLEAN, rol : {"none", "plain", "bluegreen", "canary"}, step : Percent]
Nothing == [dep |-> FALSE, rol |-> "none", step |-> 0]

Migrating(w) == w.dep /\ w.rol # "none"

\* A policy of a GTP, for the host itself (prefix "default") or for a host
\* with a prefix; "here" is the weight of this region.  TOPOLOGY has no targets
Setting  == [lb : {"absent", "TOPOLOGY", "FAILOVER"}, here : Percent]
Unset    == [lb |-> "absent", here |-> 0]
Policy   == [default : Setting, extra : Setting]
NoPolicy == [default |-> Unset, extra |-> Unset]

(***************************************************************************)
(* The locality setting of the destination rule: from everywhere ("*"), or *)
(* from this region ("here"), the percentage that goes to this region.     *)
(***************************************************************************)
Rule   == [from : {"absent", "none", "*", "here"}, here : Percent]
Absent == [from |-> "absent", here |-> 0]
Even   == [from |-> "none", here |-> 0]      \* no locality setting
Active == [from |-> "*", here |-> 100]       \* everything to this region
Pinned == [from |-> "*", here |-> 0]         \* everything to the other region

Hosts        == {"main", "canary", "preview", "extra", "extra.canary"}
Destinations == {"dep", "root", "active", "preview", "stable", "canary", "remote"}
NoRoutes     == [h \in {} |-> 0]
NoService    == [export |-> "absent", routes |-> NoRoutes]

(***************************************************************************)
(* The endpoints of the host's service entry: the local services, and the  *)
(* ingress of the other region.                                            *)
(***************************************************************************)
Entry   == [here : SUBSET Destinations, there : BOOLEAN]
NoEntry == [here |-> {}, there |-> FALSE]

Endpoints(e) == Cardinality(e.here) + (IF e.there THEN 1 ELSE 0)

\* isSEMultiRegion
MultiRegion(e) == e.here # {} /\ e.there

\* An item of a controller's queue
None == [type |-> "none", tries |-> 0]
Item == [type : {"Add", "Delete"}, tries : 0..MaxRetries]
New(type) == [type |-> type, tries |-> 0]

Budget == [changes : Nat, failures : Nat, overlaps : Nat, nudges : Nat]

ASSUME RoutingAssumption ==
    /\ ActivePassive \in BOOLEAN /\ PerformRollback \in BOOLEAN
    /\ Elsewhere \in Rule
    /\ Works \subseteq Work /\ Policies \subseteq Policy
    /\ Starts \subseteq [work : Work, gtp : Policy, multi : BOOLEAN,
                        disabled : BOOLEAN, budget : Budget]

VARIABLES
    work,       \* the workload in the cluster
    workCache,  \* the workload the controllers' caches hold
    multi,      \* the identity runs in the other region as well
    gtp,        \* the policy in the cluster
    gtpCache,   \* GlobalTrafficCache
    disabled,   \* the identity is in vs_routing_in_cluster_disabled_resources
    custom,     \* a virtual service of the user is in the identity's namespace
    entry, entryCache,      \* the service entry of the host, and its cache
    dr, drCache,            \* the destination rule of the host, and its cache
    vs, vsCache,            \* the in-cluster virtual service, and its cache
    ingress, ingressCache,  \* the routes of the ingress virtual service
    locals,     \* the rules for *.<namespace>.svc.cluster.local
    events, runs,
    last,       \* history: what the last run to end was like
    budget

inputs  == <<work, multi, gtp, disabled, custom>>
objects == <<entry, dr, vs, ingress, locals>>
caches  == <<entryCache, drCache, vsCache, ingressCache>>
vars    == <<inputs, workCache, gtpCache, objects, caches, events, runs, last, budget>>

Idle == [pc |-> "idle"]

Run == [pc     : {"rule", "discover", "ingress", "rollback", "incluster", "pin", "finish"},
        seen   : Work,
        item   : Item,
        front  : BOOLEAN,      \* there are routes to write (ingressDestinations)
        err    : BOOLEAN,
        alone  : BOOLEAN,      \* history: nothing else ran, changed or failed
        fresh  : BOOLEAN]      \* history: every cache it read was up to date

Routes(R) == \A h \in DOMAIN R : h \in Hosts /\ DOMAIN R[h] \subseteq Destinations
                                 /\ \A d \in DOMAIN R[h] : R[h][d] \in Percent

TypeOK ==
    /\ work \in Work /\ workCache \in Work /\ multi \in BOOLEAN /\ disabled \in BOOLEAN /\ custom \in BOOLEAN
    /\ gtp \in Policy /\ gtpCache \in Policy
    /\ entry \in Entry /\ entryCache \in Entry
    /\ dr \in Rule /\ drCache \in Rule
    /\ \A v \in {vs, vsCache} :
         v.export \in {"absent", "sync", "clients"} /\ Routes(v.routes)
    /\ Routes(ingress) /\ Routes(ingressCache)
    /\ locals \subseteq {"ingress", "incluster"}
    /\ events \in [Workers -> Item \cup {None}]
    /\ \A k \in Workers : runs[k] # Idle =>
         /\ [f \in DOMAIN runs[k] \ {"back", "within"} |-> runs[k][f]] \in Run
         /\ Routes(runs[k].back) /\ Routes(runs[k].within)
    /\ last \in [alone : BOOLEAN, fresh : BOOLEAN, saw : BOOLEAN]
    /\ budget \in Budget

Init ==
    /\ \E s \in Starts : /\ work = s.work /\ gtp = s.gtp /\ multi = s.multi
                        /\ disabled = s.disabled /\ budget = s.budget
    /\ workCache = Nothing /\ gtpCache = NoPolicy
    /\ custom = FALSE
    /\ entry = NoEntry /\ entryCache = NoEntry
    /\ dr = Absent /\ drCache = Absent
    /\ vs = NoService /\ vsCache = NoService
    /\ ingress = NoRoutes /\ ingressCache = NoRoutes
    /\ locals = {}
    /\ events = [k \in Workers |->
         IF k = "workload" \/ gtp # NoPolicy THEN New("Add") ELSE None]
    /\ runs = [k \in Workers |-> Idle]
    /\ last = [alone |-> FALSE, fresh |-> FALSE, saw |-> FALSE]

Spend(f) == budget[f] > 0 /\ budget' = [budget EXCEPT ![f] = @ - 1]

-----------------------------------------------------------------------------
(* Routes                                                                  *)

\* populateVSRouteDestinationForDeployment, ...ForRollout and the strategies:
\* the services behind the host itself
DeploymentMain(w) == IF w.dep THEN {"dep"} ELSE {}

BlueGreenMain(w) == IF w.rol = "bluegreen" THEN {"active"} ELSE {}

CanaryMain(w) ==
    IF w.rol # "canary" THEN {}
    ELSE (IF w.step < 100 THEN {"stable"} ELSE {}) \cup (IF w.step > 0 THEN {"canary"} ELSE {})

RolloutMain(w) ==
    (IF w.rol = "plain" THEN {"root"} ELSE {}) \cup BlueGreenMain(w) \cup CanaryMain(w)

Main(w) == DeploymentMain(w) \cup RolloutMain(w)

\* Weights are known only if a canary's traffic goes to two services
Weight(w, d) ==
    IF w.rol # "canary" \/ w.step \in {0, 100} THEN 0
    ELSE CASE d = "canary" -> w.step
           [] d = "stable" -> 100 - w.step
           [] OTHER        -> 0

\* getDefaultFQDNFromDeployment, getDefaultFQDNFromRollout,
\* getCanaryFQDNFromRollout and getPreviewFQDNFromRollout
HostsOf(w) ==
    (IF Main(w) # {} THEN {"main"} ELSE {}) \cup
    (IF w.rol = "canary" THEN {"canary"} ELSE {}) \cup
    (IF w.rol = "bluegreen" THEN {"preview"} ELSE {})

\* getAllVSRouteDestinationsByCluster
Discovered(w) ==
    [h \in HostsOf(w) |-> IF h = "main" THEN [d \in Main(w) |-> Weight(w, d)]
                                        ELSE [d \in {h} |-> 0]]

Total(r) == MapThenSumSet(LAMBDA d : r[d], DOMAIN r)

\* addWeightsToRouteDestinations, getWeightSplits: the first of the
\* destinations get one percent more if 100 cannot be divided
AddWeights(r) ==
    IF Cardinality(DOMAIN r) < 2 \/ Total(r) > 0 THEN r
    ELSE LET n     == Cardinality(DOMAIN r)
             first == CHOOSE D \in SUBSET DOMAIN r : Cardinality(D) = 100 % n
         IN  [d \in DOMAIN r |-> 100 \div n + (IF d \in first THEN 1 ELSE 0)]

\* int32((float32(w) / 100) * float32(share)): the result is rounded down,
\* and 0.84 * 75 is the one product of percentages that single precision misses
Scaled(w, share) == IF w = 84 /\ share = 75 THEN 62 ELSE (w * share) \div 100

\* Mutant: the weights of a canary are not taken into account
SharedEach(r, share) ==
    IF share = 100 THEN r
    ELSE [d \in DOMAIN r \cup {"remote"} |-> IF d = "remote" THEN 100 - share ELSE share]

\* getDestinationsForGTPDNSPrefixes, for one host and one policy.
Shared(r, share) ==
    IF share = 100 THEN r
    ELSE [d \in DOMAIN r \cup {"remote"} |->
            IF d = "remote" THEN 100 - share
            ELSE IF share # 0 /\ r[d] # 0 THEN Scaled(r[d], share) ELSE share]

Applied(r, setting) == IF setting.lb = "FAILOVER" THEN Shared(r, setting.here) ELSE r

Prefixed(h) == IF h = "main" THEN "extra" ELSE "extra.canary"

\* Policies do not apply to the preview host; a policy with a prefix adds a host
WithPrefixes(routes, policy, forIngress) ==
    LET split == IF policy.extra.lb = "absent" THEN {} ELSE DOMAIN routes \ {"preview"}
        plain(p) == CHOOSE h \in split : Prefixed(h) = p
        apply(r, setting) == IF forIngress THEN r ELSE Applied(r, setting)
    IN  [h \in DOMAIN routes \cup {Prefixed(h) : h \in split} |->
           CASE h = "preview" -> AddWeights(routes[h])
             [] h \in DOMAIN routes \ {"preview"} -> AddWeights(apply(routes[h], policy.default))
             [] OTHER -> AddWeights(apply(routes[plain(h)], policy.extra))]

\* processGTPAndAddWeightsByCluster for the ingress: weights are not the policy's
IngressRoutes(routes, policy) == WithPrefixes(routes, policy, TRUE)

\* The two maps share their destinations: where no policy has replaced a
\* host's, the weights added for the ingress are there for the in-cluster pass
AfterIngress(routes, policy) ==
    [h \in DOMAIN routes |->
        IF policy.default.lb = "FAILOVER" /\ h # "preview" THEN routes[h]
                                                           ELSE AddWeights(routes[h])]

\* Mutant: the region the rule points to is not compared with the cluster's
PassiveAnywhere(policy) ==
    /\ policy = NoPolicy /\ ActivePassive /\ MultiRegion(entryCache)
    /\ drCache.from \in {"*", "here"}

\* doActivePassiveInClusterVS: without a policy, in the passive region
Passive(policy) ==
    /\ policy = NoPolicy /\ ActivePassive /\ MultiRegion(entryCache)
    /\ drCache.from \in {"*", "here"} /\ drCache.here = 0

\* processGTPAndAddWeightsByCluster for the in-cluster virtual service
InClusterRoutes(routes, policy) ==
    WithPrefixes(AfterIngress(routes, policy),
                 IF Passive(policy) THEN [NoPolicy EXCEPT !.default = [lb |-> "FAILOVER", here |-> 0]]
                                    ELSE policy,
                 FALSE)

-----------------------------------------------------------------------------
(* The destination rule                                                    *)

\* DoesIdentityHaveVS
HasCustomService == custom

\* DoVSRoutingInClusterForClusterAndIdentity.  A cluster or an identity that is
\* not enabled at all is like one that is disabled
Enabled == ~disabled /\ ~HasCustomService

\* hasInClusterVSWithValidExportToNS
ExportIsValid == vsCache.export = "clients"

\* DoDRUpdateForInClusterVSRouting
DoDRUpdate == ExportIsValid /\ Enabled

\* getCurrentDRForLocalityLbSetting
CurrentRule == IF drCache = Absent /\ multi THEN Elsewhere ELSE drCache

\* calculateDistribution: an entry with no endpoint, with one, or with several
Distribution(e) ==
    LET cur  == CurrentRule
        kept == IF cur.from \in {"*", "here"} THEN cur ELSE Even
    IN  CASE Endpoints(e) = 0 -> Even
          [] Endpoints(e) > 1 -> kept
          [] OTHER -> CASE cur.from \in {"absent", "none"} -> IF e.there THEN Pinned ELSE Active
                        [] cur.from = "*"                  -> cur
                        [] OTHER                           -> Even

\* getDestinationRule, and createSeAndDrSetFromGtp for the host itself
DestinationRule(k, e, type) ==
    LET base == IF ActivePassive /\ ~(k = "policy" /\ type = "Delete")
                THEN Distribution(e) ELSE Even
        set  == gtpCache.default
    IN  IF set.lb = "absent" THEN base
        ELSE IF DoDRUpdate /\ MultiRegion(e) THEN Pinned
        ELSE IF set.lb = "TOPOLOGY" THEN Even ELSE [from |-> "here", here |-> set.here]

-----------------------------------------------------------------------------
(* A run                                                                   *)

\* History: what a step of worker k does to the account of its run
Advance(k, pc, current) ==
    runs' = [runs EXCEPT ![k] = [@ EXCEPT !.pc = pc, !.fresh = @ /\ current]]

Failing(k, pc, err) ==
    runs' = [runs EXCEPT ![k] = [@ EXCEPT !.pc = pc, !.err = @ \/ err, !.alone = FALSE]]

\* A change disturbs the runs under way and makes the last one outdated
Disturbed == [k \in Workers |->
    IF runs[k] = Idle THEN Idle ELSE [runs[k] EXCEPT !.alone = FALSE]]
Unknown   == [alone |-> FALSE, fresh |-> FALSE, saw |-> FALSE]

\* The handler of an event, which first puts the workload or the policy into
\* the caches.  No cluster with the workload, no name: that is an error
Start(k) ==
    /\ runs[k] = Idle /\ events[k] # None
    /\ IF \E j \in Workers : runs[j] # Idle THEN Spend("overlaps") ELSE UNCHANGED budget
    /\ events' = [events EXCEPT ![k] = None]
    /\ gtpCache' = IF k = "policy" THEN gtp ELSE gtpCache
    /\ workCache' = IF k = "workload" /\ work # Nothing THEN work ELSE workCache
    /\ runs' = [Disturbed EXCEPT ![k] =
         [pc |-> IF workCache' = Nothing THEN "finish" ELSE "rule",
          seen |-> workCache', item |-> events[k], front |-> FALSE,
          back |-> NoRoutes, within |-> NoRoutes, err |-> workCache' = Nothing /\ ~multi,
          alone |-> \A j \in Workers \ {k} : runs[j] = Idle,
          fresh |-> /\ gtpCache' = gtp /\ workCache' = work
                    /\ \A j \in Workers \ {k} : events[j] = None]]
    /\ last' = Unknown
    /\ UNCHANGED <<inputs, objects, caches>>

\* The entry of a run: that of the cluster a workload is deleted in keeps the
\* endpoint of the other region
EntryOf(k) ==
    [here  |-> IF k = "workload" /\ runs[k].item.type = "Delete" THEN {} ELSE Main(runs[k].seen),
     there |-> multi]

\* addUpdateServiceEntry and deleteServiceEntry; what is not cached is read
EntryIsCurrent(e) == e = entryCache /\ e # NoEntry

\* reconcileDestinationRule
NoRuleDiff(desired) == desired = drCache

\* AddServiceEntriesWithDrWorker: the entry first; then the rule, if it differs
\* from the cached one.  Without endpoints both are deleted, the rule only if
\* the one computed for no endpoints differs from the cached one
WriteRule(k) ==
    /\ runs[k].pc = "rule"
    /\ LET e       == EntryOf(k)
           desired == DestinationRule(k, e, runs[k].item.type)
           rule    == IF e = NoEntry THEN Absent ELSE desired
           current == drCache = dr /\ vsCache = vs /\ entryCache = entry
       IN  \/ /\ entry' = IF EntryIsCurrent(e) THEN entry ELSE e
              /\ dr' = IF NoRuleDiff(desired) THEN dr ELSE rule
              /\ Advance(k, "discover", current) /\ UNCHANGED budget
           \/ /\ <<~EntryIsCurrent(e), ~NoRuleDiff(desired)>> # <<FALSE, FALSE>>
              /\ entry' \in IF EntryIsCurrent(e) THEN {entry} ELSE {entry, e}
              /\ dr' \in IF NoRuleDiff(desired) THEN {dr} ELSE {dr, rule}
              /\ Failing(k, "discover", TRUE) /\ Spend("failures")
    /\ UNCHANGED <<inputs, workCache, gtpCache, vs, ingress, locals, caches, events, last>>

\* The discovery phase
Discover(k) ==
    /\ runs[k].pc = "discover"
    /\ LET routes == Discovered(runs[k].seen) IN
       runs' = [runs EXCEPT ![k] = [@ EXCEPT
         !.pc = "ingress", !.front = routes # NoRoutes,
         !.back = IngressRoutes(routes, gtpCache),
         !.within = InClusterRoutes(routes, gtpCache),
         !.fresh = @ /\ drCache = dr /\ entryCache = entry]]
    /\ UNCHANGED <<inputs, workCache, gtpCache, objects, caches, events, last, budget>>

\* tlsRoutesComparator, httpRoutesComparator: equal but for the order
SameTLSRoutes(r, s)  == r = s
SameHTTPRoutes(r, s) == r = s

\* addUpdateRoutingDestinationRule.  It logs its errors and returns none
PutRoutingRule(rule) == locals' = locals \cup {rule}

\* addUpdateDestinationRuleForSourceIngress, for the clusters with routes
SourceIngressRule(k) == IF runs[k].front THEN PutRoutingRule("ingress") ELSE UNCHANGED locals

\* generateVirtualServiceForIngress
IngressService(k) == runs[k].back

\* addUpdateVirtualServicesForIngress, then addUpdateDestinationRuleForSourceIngress
WriteIngress(k) ==
    /\ runs[k].pc = "ingress"
    /\ \/ /\ ~runs[k].front \/ SameTLSRoutes(ingressCache, IngressService(k))
          /\ UNCHANGED ingress
       \/ /\ runs[k].front /\ ~SameTLSRoutes(ingressCache, IngressService(k))
          /\ ingress' = IngressService(k)
    /\ \/ /\ Advance(k, "rollback", ingressCache = ingress)
          /\ SourceIngressRule(k)
          /\ UNCHANGED budget
       \/ /\ runs[k].front /\ "ingress" \notin locals
          /\ Failing(k, "rollback", FALSE) /\ Spend("failures")
          /\ UNCHANGED locals
    /\ UNCHANGED <<inputs, workCache, gtpCache, entry, dr, vs, caches, events, last>>

IngressFails(k) ==
    /\ runs[k].pc = "ingress" /\ runs[k].front /\ ~SameTLSRoutes(ingressCache, IngressService(k))
    /\ Failing(k, "rollback", TRUE) /\ Spend("failures")
    /\ UNCHANGED <<inputs, workCache, gtpCache, objects, caches, events, last>>

\* Mutant: only a virtual service that is cached as exported is rolled back
RollbackCached(k) ==
    /\ runs[k].pc = "rollback"
    /\ IF PerformRollback /\ disabled /\ vsCache.export = "clients"
       THEN \/ /\ Advance(k, "incluster", TRUE)
               /\ vs' = [vs EXCEPT !.export = "sync"]
               /\ UNCHANGED budget
            \/ Failing(k, "incluster", FALSE) /\ Spend("failures") /\ UNCHANGED vs
       ELSE Advance(k, "incluster", TRUE) /\ UNCHANGED <<vs, budget>>
    /\ UNCHANGED <<inputs, workCache, gtpCache, entry, dr, ingress, locals, caches, events, last>>

\* performInVSRoutingRollback: on what the API server holds; errors are logged
Rollback(k) ==
    /\ runs[k].pc = "rollback"
    /\ IF PerformRollback /\ disabled /\ vs.export # "absent"
       THEN \/ /\ Advance(k, "incluster", TRUE)
               /\ vs' = [vs EXCEPT !.export = "sync"]
               /\ UNCHANGED budget
            \/ Failing(k, "incluster", FALSE) /\ Spend("failures") /\ UNCHANGED vs
       ELSE Advance(k, "incluster", TRUE) /\ UNCHANGED <<vs, budget>>
    /\ UNCHANGED <<inputs, workCache, gtpCache, entry, dr, ingress, locals, caches, events, last>>

\* generateVirtualServiceForIncluster
InClusterService(k) ==
    [export |-> IF Enabled THEN "clients" ELSE "sync", routes |-> runs[k].within]

\* doReconcileVirtualService
Reconcile(desired) ==
    vsCache.export # desired.export \/ ~SameHTTPRoutes(vsCache.routes, desired.routes)

\* Mutant: a virtual service that needs no update ends the work on the cluster
WriteOnlyChanges(k) ==
    /\ runs[k].pc = "incluster"
    /\ LET desired == InClusterService(k) IN
       IF ~runs[k].front \/ ~Reconcile(desired)
       THEN Advance(k, "finish", TRUE) /\ UNCHANGED <<vs, budget>>
       ELSE \/ Advance(k, "pin", vsCache = vs) /\ vs' = desired /\ UNCHANGED budget
            \/ Failing(k, "finish", TRUE) /\ Spend("failures") /\ UNCHANGED vs
    /\ UNCHANGED <<inputs, workCache, gtpCache, entry, dr, ingress, locals, caches, events, last>>

\* addUpdateInClusterVirtualServices, for the one source cluster
WriteInCluster(k) ==
    /\ runs[k].pc = "incluster"
    /\ LET desired == InClusterService(k) IN
       IF ~runs[k].front THEN Advance(k, "finish", TRUE) /\ UNCHANGED <<vs, budget>>
       ELSE IF ~Reconcile(desired)
       THEN Advance(k, "pin", vsCache = vs) /\ UNCHANGED <<vs, budget>>
       ELSE \/ Advance(k, "pin", vsCache = vs) /\ vs' = desired /\ UNCHANGED budget
            \/ Failing(k, "finish", TRUE) /\ Spend("failures") /\ UNCHANGED vs
    /\ UNCHANGED <<inputs, workCache, gtpCache, entry, dr, ingress, locals, caches, events, last>>

\* shouldPerformDRPinning
ShouldPin == Enabled /\ gtpCache # NoPolicy /\ MultiRegion(entryCache)

\* addUpdateInClusterDestinationRule
InClusterRule == PutRoutingRule("incluster")

\* performDRPinning, then addUpdateInClusterDestinationRule.  The cached rule is
\* handed over as the existing one, so it is changed even if the write fails
Pin(k) ==
    /\ runs[k].pc = "pin"
    /\ \/ /\ ~ShouldPin \/ drCache \in {Absent, Pinned}
          /\ Advance(k, "finish", drCache = dr)
          /\ InClusterRule
          /\ UNCHANGED <<dr, drCache, budget>>
       \/ /\ ShouldPin /\ drCache \notin {Absent, Pinned}
          /\ Advance(k, "finish", drCache = dr)
          /\ dr' = Pinned /\ drCache' = Pinned
          /\ InClusterRule
          /\ UNCHANGED budget
    /\ UNCHANGED <<inputs, workCache, gtpCache, entry, vs, ingress, entryCache, vsCache, ingressCache, events, last>>

PinFails(k) ==
    /\ runs[k].pc = "pin"
    /\ Failing(k, "finish", FALSE) /\ Spend("failures")
    /\ \/ /\ ShouldPin /\ drCache \notin {Absent, Pinned}
          /\ drCache' = Pinned
          /\ InClusterRule
       \/ "incluster" \notin locals /\ UNCHANGED <<drCache, locals>>
    /\ UNCHANGED <<inputs, workCache, gtpCache, entry, dr, vs, ingress, entryCache, vsCache, ingressCache, events, last>>

\* An error brings the event back, unless a newer one has been queued or it has
\* been tried too often; a deletion that succeeds empties the cache
Finish(k) ==
    /\ runs[k].pc = "finish"
    /\ LET item == runs[k].item IN
       /\ events' = IF runs[k].err /\ events[k] = None /\ item.tries < MaxRetries
                    THEN [events EXCEPT ![k] = [item EXCEPT !.tries = @ + 1]] ELSE events
       /\ workCache' = IF k = "workload" /\ item.type = "Delete" /\ ~runs[k].err
                       THEN Nothing ELSE workCache
    /\ runs' = [runs EXCEPT ![k] = Idle]
    /\ last' = [alone |-> runs[k].alone, fresh |-> runs[k].alone /\ runs[k].fresh,
                saw |-> runs[k].seen # Nothing]
    /\ UNCHANGED <<inputs, gtpCache, objects, caches, budget>>

Step(k) ==
    \/ Start(k) \/ WriteRule(k) \/ Discover(k)
    \/ WriteIngress(k) \/ IngressFails(k) \/ Rollback(k)
    \/ WriteInCluster(k) \/ Pin(k) \/ PinFails(k) \/ Finish(k)

-----------------------------------------------------------------------------
(* The environment                                                         *)

\* An informer delivers what the API server holds
ObserveEntry ==
    entryCache # entry /\ entryCache' = entry /\ UNCHANGED <<drCache, vsCache, ingressCache>>
ObserveRule ==
    drCache # dr /\ drCache' = dr /\ UNCHANGED <<entryCache, vsCache, ingressCache>>
ObserveService ==
    vsCache # vs /\ vsCache' = vs /\ UNCHANGED <<entryCache, drCache, ingressCache>>
ObserveIngress ==
    ingressCache # ingress /\ ingressCache' = ingress /\ UNCHANGED <<entryCache, drCache, vsCache>>
Observe ==
    /\ ObserveEntry \/ ObserveRule \/ ObserveService \/ ObserveIngress
    /\ UNCHANGED <<inputs, workCache, gtpCache, objects, events, runs, last, budget>>

Changed == runs' = Disturbed /\ last' = Unknown /\ UNCHANGED <<workCache, gtpCache, objects, caches>>

\* The workload changes or is removed; one that migrates loses one part first
ChangeWork ==
    /\ Spend("changes") /\ Changed
    /\ work' \in Works \ (IF Migrating(work) THEN {work, Nothing} ELSE {work})
    /\ events' = [events EXCEPT !["workload"] = New(IF work' = Nothing THEN "Delete" ELSE "Add")]
    /\ UNCHANGED <<multi, gtp, disabled, custom>>

\* It comes or goes in the other region; the event of that cluster's controller
\* runs the same function, here unless an event of this cluster is waiting anyway
ChangeElsewhere ==
    /\ Spend("changes") /\ Changed
    /\ multi' = ~multi
    /\ events' = [events EXCEPT !["workload"] = IF @ = None THEN New("Add") ELSE @]
    /\ UNCHANGED <<work, gtp, disabled, custom>>

ChangePolicy ==
    /\ Spend("changes") /\ Changed
    /\ gtp' \in (Policies \cup {NoPolicy}) \ {gtp}
    /\ events' = [events EXCEPT !["policy"] = New(IF gtp' = NoPolicy THEN "Delete" ELSE "Add")]
    /\ UNCHANGED <<work, multi, disabled, custom>>

\* The dynamic configuration changes: no event of the identity follows
ChangeSwitch ==
    /\ Spend("changes") /\ Changed
    /\ disabled' = ~disabled
    /\ UNCHANGED <<work, multi, gtp, custom, events>>

\* A virtual service of the user enters IdentityVirtualServiceCache or leaves
\* it, and no event of the identity follows either
ChangeCustom ==
    /\ Spend("changes") /\ Changed
    /\ custom' = ~custom
    /\ UNCHANGED <<work, multi, gtp, disabled, events>>

\* An event about the workload that brings nothing new (a resynchronisation)
Nudge ==
    /\ work # Nothing /\ events["workload"] = None /\ Spend("nudges")
    /\ events' = [events EXCEPT !["workload"] = New("Add")]
    /\ last' = Unknown
    /\ UNCHANGED <<inputs, workCache, gtpCache, objects, caches, runs>>

Next == (\E k \in Workers : Step(k)) \/ Observe \/ ChangeWork \/ ChangeElsewhere
        \/ ChangePolicy \/ ChangeSwitch \/ ChangeCustom \/ Nudge

Spec == Init /\ [][Next]_vars

-----------------------------------------------------------------------------
(* Properties                                                              *)

Running == work # Nothing

(***************************************************************************)
(* With a failover policy, after a run that nothing disturbed the rule is  *)
(* pinned to the other region exactly if the in-cluster virtual service is *)
(* exported to clients.  Unpinned, the share of the other region would be  *)
(* split a second time by the rule; pinned without the virtual service,    *)
(* every local client would be sent away.  The rule is written BEFORE the  *)
(* virtual service, from what the cache says of the latter                 *)
(* (DoDRUpdateForInClusterVSRouting), and corrected after it               *)
(* (performDRPinning).  The rule for the local services is in place.       *)
(***************************************************************************)
ExportedIsBacked ==
    last.fresh /\ Running =>
      /\ gtp.default.lb = "FAILOVER" /\ multi => (vs.export = "clients" <=> dr = Pinned)
      /\ vs.export = "clients" => "incluster" \in locals

(***************************************************************************)
(* After such a run the in-cluster virtual service gives the other region  *)
(* what the policy leaves to it, and the local services, whatever the      *)
(* weights of a canary, the rest, less what is lost to rounding            *)
(* (getDestinationsForGTPDNSPrefixes).  Not while migrating: the           *)
(* deployment and the rollout then get the share each.                     *)
(***************************************************************************)
SharesHonoured ==
    last.fresh /\ Running /\ ~Migrating(work) =>
      \A p \in {"default", "extra"} :
        gtp[p].lb = "FAILOVER" /\ gtp[p].here \in 1..99 =>
          LET route == vs.routes[IF p = "default" THEN "main" ELSE "extra"] IN
          /\ route["remote"] = 100 - gtp[p].here
          /\ Total(route) \in 99..100

(***************************************************************************)
(* Without a policy, after such a run the virtual service of a passive     *)
(* region sends everything to the active one, and that of an active region *)
(* nothing (doActivePassiveInClusterVS): no client is sent back and forth. *)
(***************************************************************************)
PassiveForwards ==
    last.fresh /\ Running /\ gtp = NoPolicy /\ multi =>
      LET route == vs.routes["main"] IN
      IF dr = Pinned
      THEN route["remote"] = 100 /\ Total(route) = 100
      ELSE "remote" \notin DOMAIN route

(***************************************************************************)
(* A run that was alone and found a workload in the cluster leaves no      *)
(* in-cluster virtual service of a disabled identity exported to clients,  *)
(* HOWEVER outdated the other caches it read are                           *)
(* (performInVSRoutingRollback asks the API server).  Without a workload   *)
(* the cluster is not visited, and what was exported stays so.             *)
(***************************************************************************)
HiddenWhenDisabled ==
    last.alone /\ last.saw /\ disabled /\ PerformRollback => vs.export # "clients"
=============================================================================
