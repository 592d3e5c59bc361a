--------------------------- MODULE TrafficPolicies ---------------------------
(***************************************************************************)
(* From the policies users create (global traffic policies, outlier        *)
(* detections, client connection configs) to the one policy of an identity *)
(* that the destination rules of all its clusters carry.                   *)
(*   admiral/pkg/controller/admiral/globaltraffic.go, outlierdetection.go, *)
(*     clientconnectionconfigcontroller.go      (a cache per cluster)      *)
(*   admiral/pkg/clusters/globaltraffic_handler.go,                        *)
(*     outlierdetection_handler.go, clientconnectionconfig_handler.go      *)
(*     (a cache for all clusters)                                          *)
(*   admiral/pkg/clusters/serviceentry.go       (selection, order)         *)
(*                                                                         *)
(* The model follows ONE identity in one environment, and one of the three *)
(* kinds of policy at a time.  A policy is put into the cache of its       *)
(* cluster; a run then GATHERS the policies of every cluster in which the  *)
(* identity runs, PUBLISHES the best one to the cache for all clusters,    *)
(* and WRITES the destination rule of each cluster from what that cache    *)
(* holds when the cluster's turn comes.                                    *)
(***************************************************************************)
EXTENDS Naturals, Sequences, FiniteSets

CONSTANTS
    Clusters,
    Names,              \* names of policies
    Region,             \* the region of each cluster
    PreventSplitBrain,
    MaxRetries,
    Prefixes,           \* dnsPrefixes that a traffic policy may have a target for
    VersionLess(_, _),  \* `<` on resource versions, as strings
    FirstVersion,       \* revision of the API server when the model starts
    NoPolicy,
    \* Bounds of the environment
    Kinds,              \* the kinds of policy to look at
    Places,             \* the clusters and names under which users keep policies
    Designs,            \* the targets and priorities of users' traffic policies
    Budgets             \* how often what may happen

Priorities == {0, 1}
Regions    == {Region[c] : c \in Clusters}
Workload   == "workload"                    \* the worker of the workload controllers
Workers    == Clusters \cup {Workload}      \* and the policy controller of each cluster

\* makeDnsPrefixRegionMapping: the region that is to be active for a prefix,
\* "none" unless it is a FAILOVER with a target of weight 100
Targets == [Prefixes -> Regions \cup {"none"}]
Nowhere == [x \in Prefixes |-> "none"]

\* born: CreationTimestamp; rev: ResourceVersion
Object == [name : Names, at : Clusters, to : Targets, prio : Priorities, ignore : BOOLEAN,
           born : Nat, rev : Nat]
Item   == [type : {"Put", "Delete"}, obj : Object, tries : Nat]
Budget == [changes : Nat, joins : Nat, failures : Nat, overlaps : Nat]

ASSUME PolicyAssumption ==
    /\ DOMAIN Region = Clusters /\ "none" \notin Regions /\ Workload \notin Clusters
    /\ NoPolicy \notin Object
    /\ PreventSplitBrain \in BOOLEAN /\ MaxRetries \in Nat
    /\ Kinds \subseteq {"gtp", "od", "ccc"} /\ Budgets \subseteq Budget
    /\ Places \subseteq Clusters \X Names
    /\ Designs \subseteq [to : Targets, prio : Priorities] /\ FirstVersion \in Nat

VARIABLES
    kind,       \* the kind of policy (never changes)
    live,       \* the policies in each cluster, by name
    clock,      \* creation times and resource versions
    sources,    \* clusters in which the identity runs
    queues,     \* the events of each policy controller
    joined,     \* the workload controllers have an event
    cached,     \* gtpCache, odCache, clientConnectionSettingsCache of each cluster
    global,     \* the policy in the cache for all clusters
    used,       \* the policy in each cluster's destination rule
    runs,
    raced,      \* history: a run has started while another was under way
    misjudged,  \* history: an event was dropped that counts, or repeated that does not
    troubled,   \* history: something has failed, or prefixes moved to different regions
    budget

vars == <<kind, live, clock, sources, queues, joined, cached, global, used, runs,
          raced, misjudged, troubled, budget>>

Idle == [pc |-> "idle"]
Run  == [pc     : {"gather", "publish", "write", "finish"},
         left   : SUBSET Clusters,           \* clusters to look at, or to write
         over   : SUBSET Clusters,           \* sourceServices
         found  : SUBSET Object,
         prefer : Regions \cup {"none"},     \* gtpPreferenceRegion
         err    : BOOLEAN,
         item   : Item \cup {NoPolicy}]      \* the event of a policy controller

TypeOK ==
    /\ kind \in Kinds
    /\ live \in [Clusters -> [Names -> Object \cup {NoPolicy}]]
    /\ clock \in Nat /\ sources \subseteq Clusters /\ joined \in BOOLEAN
    /\ queues \in [Clusters -> Seq(Item)]
    /\ cached \in [Clusters -> SUBSET Object]
    /\ global \in Object \cup {NoPolicy}
    /\ used \in [Clusters -> Object \cup {NoPolicy}]
    /\ runs \in [Workers -> Run \cup {Idle}]
    /\ \A c \in Clusters : runs[c] # Idle => runs[c].item \in Item
    /\ raced \in BOOLEAN /\ misjudged \in BOOLEAN /\ troubled \in BOOLEAN
    /\ budget \in Budget

Init ==
    /\ kind \in Kinds
    /\ live = [c \in Clusters |-> [n \in Names |-> NoPolicy]]
    /\ clock = FirstVersion
    /\ \E c \in Clusters : sources = {c}
    /\ queues = [c \in Clusters |-> << >>] /\ joined = TRUE
    /\ cached = [c \in Clusters |-> {}]
    /\ global = NoPolicy
    /\ used = [c \in Clusters |-> NoPolicy]
    /\ runs = [w \in Workers |-> Idle]
    /\ raced = FALSE /\ misjudged = FALSE /\ troubled = FALSE
    /\ budget \in Budgets

Spend(f) == budget[f] > 0 /\ budget' = [budget EXCEPT ![f] = @ - 1]

-----------------------------------------------------------------------------
(* Selection                                                               *)

\* sortOutlierDetectionByCreationTime, sortClientConnectionConfigByCreationTime.
\* Policies may be equally old: timestamps count seconds.  (Traffic policies that
\* both have a lastUpdatedAt annotation are compared by it instead: left out.)
ByCreation(p, q) == p.born > q.born

\* SortGtpsByPriorityAndCreationTime
ByPriority(p, q) == IF p.prio # q.prio THEN p.prio > q.prio ELSE ByCreation(p, q)

Before(p, q) == IF kind = "gtp" THEN ByPriority(p, q) ELSE ByCreation(p, q)

\* What may come first after sorting, which is not stable
Best(objects) ==
    IF objects = {} THEN {NoPolicy}
    ELSE {p \in objects : \A q \in objects : ~Before(q, p)}

Moved(old, new) ==
    {x \in Prefixes : "none" \notin {old.to[x], new.to[x]} /\ old.to[x] # new.to[x]}

Destinations(old, new) ==
    IF PreventSplitBrain /\ NoPolicy \notin {old, new}
    THEN {new.to[x] : x \in Moved(old, new)} ELSE {}

\* GetGtpPreferenceRegion: the new active region of a prefix that is moved,
\* whichever of them the map yields first
PreferenceRegions(old, new) ==
    IF Destinations(old, new) = {} THEN {"none"} ELSE Destinations(old, new)

MovesApart(old, new) == \E r, s \in Destinations(old, new) : r # s

\* Mutant: the clusters are written in any order
AnyOrder(run, c) == c \in run.left

\* orderSourceClusters
MayBeNext(run, c) ==
    \/ run.prefer = "none" \/ Region[c] = run.prefer
    \/ \A d \in run.left : Region[d] # run.prefer

-----------------------------------------------------------------------------
(* The caches of the controllers                                           *)

Without(c, obj) == {o \in cached[c] : o.name # obj.name}

\* gtpCache.Put, clientConnectionSettingsCache.Put, odCache.Put.  The last one
\* deletes an ignored policy from the wrong map, so that it stays
PutTraffic(c, obj)    == IF obj.ignore THEN Without(c, obj) ELSE Without(c, obj) \cup {obj}
PutConnection(c, obj) == IF obj.ignore THEN Without(c, obj) ELSE Without(c, obj) \cup {obj}
PutOutlier(c, obj)    == IF obj.ignore THEN cached[c] ELSE Without(c, obj) \cup {obj}

\* What the controllers' Get offers to compare a retry with: the best policy of
\* the cache, or the policy of that name from the API server
LatestTraffic(c)     == Best(cached[c])
LatestByName(c, obj) == {live[c][obj.name]}
Latest(c, obj)       == IF kind = "gtp" THEN LatestTraffic(c) ELSE LatestByName(c, obj)

\* shouldRetry returns TRUE where there is nothing to compare with
MayRetry(c, item) == \E latest \in Latest(c, item.obj) :
    latest # NoPolicy => ~VersionLess(item.obj.rev, latest.rev)
MayDrop(c, item) == \E latest \in Latest(c, item.obj) :
    latest # NoPolicy /\ VersionLess(item.obj.rev, latest.rev)

\* The event is the last there has been about its policy
IsLatest(c, item) ==
    LET now == live[c][item.obj.name] IN
    IF item.type = "Delete" THEN now = NoPolicy ELSE now = item.obj

-----------------------------------------------------------------------------
(* A run                                                                   *)

Alone == \A w \in Workers : runs[w] = Idle

Overlap == IF Alone THEN UNCHANGED <<raced, budget>>
           ELSE Spend("overlaps") /\ raced' = TRUE

NewRun(item) ==
    [pc |-> "gather", left |-> Clusters, over |-> {}, found |-> {}, prefer |-> "none",
     err |-> FALSE, item |-> item]

\* GlobalTrafficController, OutlierDetectionController and
\* ClientConnectionConfigController: what Added, Updated and Deleted do to the
\* cache of cluster c
TakeTraffic(c, item) ==
    /\ kind = "gtp"
    /\ cached' = [cached EXCEPT ![c] =
         IF item.type = "Put" THEN PutTraffic(c, item.obj) ELSE Without(c, item.obj)]
TakeOutlier(c, item) ==
    /\ kind = "od"
    /\ cached' = [cached EXCEPT ![c] =
         IF item.type = "Put" THEN PutOutlier(c, item.obj) ELSE Without(c, item.obj)]
TakeConnection(c, item) ==
    /\ kind = "ccc"
    /\ cached' = [cached EXCEPT ![c] =
         IF item.type = "Put" THEN PutConnection(c, item.obj) ELSE Without(c, item.obj)]

\* A policy event is handled: all handlers run it as an update of the identity,
\* a deletion too
TakePolicy(c) ==
    /\ runs[c] = Idle /\ queues[c] # << >>
    /\ LET item == Head(queues[c]) IN
       /\ item.tries > 0 => MayRetry(c, item)
       /\ queues' = [queues EXCEPT ![c] = Tail(@)]
       /\ TakeTraffic(c, item) \/ TakeOutlier(c, item) \/ TakeConnection(c, item)
       /\ runs' = [runs EXCEPT ![c] = NewRun(item)]
       /\ misjudged' = (misjudged \/ (item.tries > 0 /\ ~IsLatest(c, item)))
    /\ Overlap
    /\ UNCHANGED <<kind, live, clock, sources, joined, global, used, troubled>>

\* An event that has failed before is dropped as outdated
DropRetry(c) ==
    /\ runs[c] = Idle /\ queues[c] # << >>
    /\ LET item == Head(queues[c]) IN
       /\ item.tries > 0 /\ MayDrop(c, item)
       /\ misjudged' = (misjudged \/ IsLatest(c, item))
    /\ queues' = [queues EXCEPT ![c] = Tail(@)]
    /\ UNCHANGED <<kind, live, clock, sources, joined, cached, global, used, runs,
                   raced, troubled, budget>>

TakeWorkload ==
    /\ runs[Workload] = Idle /\ joined
    /\ joined' = FALSE
    /\ runs' = [runs EXCEPT ![Workload] = NewRun(NoPolicy)]
    /\ Overlap
    /\ UNCHANGED <<kind, live, clock, sources, queues, cached, global, used,
                   misjudged, troubled>>

\* The loop over the clusters passes over those without the identity, and reads
\* the caches of the others one after the other
Gather(w) ==
    /\ runs[w].pc = "gather"
    /\ \E c \in runs[w].left :
         runs' = [runs EXCEPT ![w] = [runs[w] EXCEPT
            !.left = @ \ {c}, !.over = @ \cup ({c} \cap sources),
            !.found = IF c \in sources THEN @ \cup cached[c] ELSE @,
            !.pc = IF runs[w].left = {c} THEN "publish" ELSE "gather"]]
    /\ UNCHANGED <<kind, live, clock, sources, queues, joined, cached, global, used,
                   raced, misjudged, troubled, budget>>

ToWrite(w, region) ==
    runs' = [runs EXCEPT ![w] = [runs[w] EXCEPT !.pc = "write", !.left = runs[w].over,
                                                !.prefer = region]]

\* Put and Delete of the caches for all clusters
SetTraffic(p)    == kind = "gtp" /\ global' = p
SetOutlier(p)    == kind = "od"  /\ global' = p
SetConnection(p) == kind = "ccc" /\ global' = p

\* updateGlobalGtpCacheAndGetGtpPreferenceRegion, updateGlobalOutlierDetectionCache,
\* updateGlobalClientConnectionConfigCache
PublishTraffic(w, best) ==
    /\ SetTraffic(best)
    /\ \E region \in PreferenceRegions(global, best) : ToWrite(w, region)
    /\ troubled' = (troubled \/ MovesApart(global, best))
PublishOutlier(w, best)    == SetOutlier(best) /\ ToWrite(w, "none") /\ UNCHANGED troubled
PublishConnection(w, best) == SetConnection(best) /\ ToWrite(w, "none") /\ UNCHANGED troubled

\* Mutant: where no policy is left the old one stays
PublishFound(w) ==
    /\ runs[w].pc = "publish"
    /\ \E best \in IF runs[w].found = {} THEN {global} ELSE Best(runs[w].found) :
         PublishTraffic(w, best) \/ PublishOutlier(w, best) \/ PublishConnection(w, best)
    /\ UNCHANGED <<kind, live, clock, sources, queues, joined, cached, used,
                   raced, misjudged, budget>>

Publish(w) ==
    /\ runs[w].pc = "publish"
    /\ \E best \in Best(runs[w].found) :
         PublishTraffic(w, best) \/ PublishOutlier(w, best) \/ PublishConnection(w, best)
    /\ UNCHANGED <<kind, live, clock, sources, queues, joined, cached, used,
                   raced, misjudged, budget>>

\* handleDynamoDbUpdateForOldGtp fails: the policy stays in the cache
DatabaseFails(w) ==
    /\ runs[w].pc = "publish"
    /\ kind = "gtp" /\ runs[w].found = {} /\ global # NoPolicy
    /\ Spend("failures") /\ troubled' = TRUE
    /\ runs' = [runs EXCEPT ![w] = [runs[w] EXCEPT !.pc = "write", !.left = runs[w].over,
                                                   !.err = TRUE]]
    /\ UNCHANGED <<kind, live, clock, sources, queues, joined, cached, global, used,
                   raced, misjudged>>

\* AddServiceEntriesWithDrWorker, for the next source cluster
Turn(w, c) ==
    /\ runs[w].pc = "write" /\ c \in runs[w].left /\ MayBeNext(runs[w], c)

Done(w, c, err) ==
    runs' = [runs EXCEPT ![w] = [runs[w] EXCEPT
        !.left = @ \ {c}, !.err = @ \/ err,
        !.pc = IF runs[w].left = {c} THEN "finish" ELSE "write"]]

Write(w) ==
    /\ \E c \in Clusters : Turn(w, c) /\ used' = [used EXCEPT ![c] = global] /\ Done(w, c, FALSE)
    /\ UNCHANGED <<kind, live, clock, sources, queues, joined, cached, global,
                   raced, misjudged, troubled, budget>>

WriteFails(w) ==
    /\ Spend("failures") /\ troubled' = TRUE
    /\ \E c \in Clusters : Turn(w, c) /\ used[c] # global /\ Done(w, c, TRUE)
    /\ UNCHANGED <<kind, live, clock, sources, queues, joined, cached, global, used,
                   raced, misjudged>>

\* The end of processNextItem: a failed event goes back into the queue, unless
\* it has had its retries or counts as outdated
Requeue(c, item) ==
    \/ /\ item.tries < MaxRetries /\ MayRetry(c, item)
       /\ queues' = [queues EXCEPT ![c] = Append(@, [item EXCEPT !.tries = @ + 1])]
       /\ UNCHANGED misjudged
    \/ /\ item.tries >= MaxRetries \/ MayDrop(c, item)
       /\ misjudged' = (misjudged \/ IsLatest(c, item)) /\ UNCHANGED queues

\* Mutant: the errors of the writes are not returned
FinishQuietly(w) ==
    /\ runs[w].pc = "finish"
    /\ runs' = [runs EXCEPT ![w] = Idle]
    /\ UNCHANGED <<kind, live, clock, sources, queues, joined, cached, global, used,
                   raced, misjudged, troubled, budget>>

Finish(w) ==
    /\ runs[w].pc = "finish"
    /\ IF ~runs[w].err THEN UNCHANGED <<queues, joined, misjudged>>
       ELSE IF w = Workload THEN joined' = TRUE /\ UNCHANGED <<queues, misjudged>>
       ELSE Requeue(w, runs[w].item) /\ UNCHANGED joined
    /\ runs' = [runs EXCEPT ![w] = Idle]
    /\ UNCHANGED <<kind, live, clock, sources, cached, global, used,
                   raced, troubled, budget>>

Step(w) ==
    \/ w \in Clusters /\ (TakePolicy(w) \/ DropRetry(w))
    \/ w = Workload /\ TakeWorkload
    \/ Gather(w) \/ Publish(w) \/ DatabaseFails(w)
    \/ Write(w) \/ WriteFails(w) \/ Finish(w)

-----------------------------------------------------------------------------
(* The environment                                                         *)

Event(c, type, obj) ==
    queues' = [queues EXCEPT ![c] = Append(@, [type |-> type, obj |-> obj, tries |-> 0])]

\* The creation time of a new policy, which may be that of the youngest one
Births    == {p.born : p \in {live[c][n] : c \in Clusters, n \in Names} \ {NoPolicy}}
Birthdays == {clock + 1} \cup {b \in Births : \A a \in Births : a <= b}

\* A user creates or changes a policy
Apply(c, n) ==
    /\ Spend("changes") /\ clock' = clock + 1
    /\ \E d \in IF kind = "gtp" THEN Designs ELSE {[to |-> Nowhere, prio |-> 0]},
          birth \in Birthdays, ign \in BOOLEAN :
         LET old == live[c][n]
             new == [name |-> n, at |-> c, to |-> d.to, prio |-> d.prio, ignore |-> ign,
                     born |-> IF old = NoPolicy THEN birth ELSE old.born, rev |-> clock + 1]
         IN  /\ ign => old # NoPolicy
             /\ live' = [live EXCEPT ![c][n] = new]
             /\ Event(c, "Put", new)
    /\ UNCHANGED <<kind, sources, joined, cached, global, used, runs,
                   raced, misjudged, troubled>>

Remove(c, n) ==
    /\ live[c][n] # NoPolicy /\ Spend("changes")
    /\ live' = [live EXCEPT ![c][n] = NoPolicy]
    /\ Event(c, "Delete", live[c][n])
    /\ UNCHANGED <<kind, clock, sources, joined, cached, global, used, runs,
                   raced, misjudged, troubled>>

\* A workload of the identity comes to a cluster
Join(c) ==
    /\ c \notin sources /\ Spend("joins")
    /\ sources' = sources \cup {c} /\ joined' = TRUE
    /\ UNCHANGED <<kind, live, clock, queues, cached, global, used, runs,
                   raced, misjudged, troubled>>

Next ==
    \/ \E w \in Workers : Step(w)
    \/ \E c \in Clusters : Join(c)
    \/ \E p \in Places : Apply(p[1], p[2]) \/ Remove(p[1], p[2])

Spec == Init /\ [][Next]_vars

\* The workers of the controllers do not stop
Fairness == \A w \in Workers : WF_vars(Step(w))
FairSpec == Spec /\ Fairness

-----------------------------------------------------------------------------
(* Properties                                                              *)

Quiet == Alone /\ ~joined /\ \A c \in Clusters : queues[c] = << >>

\* The policies that count: those of the clusters in which the identity runs
Wanted == {live[c][n] : c \in sources, n \in Names} \ {NoPolicy}
Counting == {p \in Wanted : ~p.ignore}

\* Runs one after the other, no event misjudged, and no outlier detection that
\* was told to be ignored (odCache.Put keeps it)
Undisturbed ==
    ~raced /\ ~misjudged /\ (kind = "od" => \A p \in Wanted : ~p.ignore)

\* NoCrossing: for no prefix two regions send their traffic to each other.  While
\* the active region of a prefix is moved, the clusters of the new active region
\* are written first, whatever the order of the changes, as long as the runs do
\* not overlap, no write fails, and no policy moves its prefixes to different
\* regions at once.
NoCrossing ==
    kind = "gtp" /\ ~raced /\ ~troubled =>
      ~ \E c, d \in Clusters, x \in Prefixes :
           /\ Region[c] # Region[d] /\ used[c] # NoPolicy /\ used[d] # NoPolicy
           /\ used[c].to[x] = Region[d] /\ used[d].to[x] = Region[c]

\* All clusters of the identity use one policy, and none is better
UsesBest == \E best \in Best(Counting) : \A c \in sources : used[c] = best

\* SettledUsesBest: once all events are handled, every cluster of the identity
\* uses the same policy, and it is the best of those there are now: neither an
\* outdated version, nor one that was removed or is to be ignored, nor the one
\* a cluster that joined late would choose for itself.
SettledUsesBest ==
    Quiet /\ Undisturbed => UsesBest

\* ChangesTakeEffect: after the last change and the last failure every cluster
\* comes to use the best policy and keeps it.
ChangesTakeEffect == <>[](Undisturbed => UsesBest)
=============================================================================
