---------------------------- MODULE ClusterFanout ----------------------------
(***************************************************************************)
(* How the service entries of an identity are written to many clusters:    *)
(*   admiral/pkg/clusters/serviceentry.go   AddServiceEntriesWithDrToAll-   *)
(*                            Cluster, AddServiceEntriesWithDrWorker        *)
(* and, with one cluster and one worker, ConsumeIdentityConfigs of          *)
(* shard_handler.go.                                                       *)
(*                                                                         *)
(* For every service entry the caller makes two channels and starts the    *)
(* workers, hands out the clusters, and receives one error value for each. *)
(* What a worker does with one service entry of one cluster is a single    *)
(* step here: ServiceEntryWriter has the requests it consists of.          *)
(***************************************************************************)
EXTENDS Naturals, Sequences, FiniteSets

CONSTANTS
    Entries,     \* service entries
    Calls,       \* the sets of service entries the function may be called with
    NoHosts,     \* those with an empty list of hosts
    Clusters,    \* sourceClusters
    Workers,     \* DependentClusterWorkerConcurrency() goroutines
    NumSeDrs,    \* for each entry the length of seDrSet, unless it is empty: one,
                 \* and more with a traffic policy
    Outcomes     \* what may come of a seDr: "written", "failed", "skipped", "unread",
                 \* and of a cluster: "unknown", without a remote controller or
                 \* region, and "unaddressed", without a seDr

ASSUME FanoutAssumption ==
    /\ IsFiniteSet(Clusters)
    /\ NoHosts \subseteq Entries /\ Calls \subseteq SUBSET Entries
    /\ NumSeDrs \in [Entries -> Nat \ {0}]
    /\ Outcomes \subseteq {"written", "failed", "skipped", "unread", "unknown", "unaddressed"}

\* An error value: the failures it tells of.  nil is the empty set.
Errors == SUBSET (Entries \X Clusters)
nil == {}

clustersLen == Cardinality(Clusters)

VARIABLES
    caller,     \* where AddServiceEntriesWithDrToAllCluster is
    todo,       \* entries it has not come to
    clusters,   \* for each entry its channel of clusters
    errors,     \* for each entry its channel of errors
    work,       \* the goroutines, by entry
    done,       \* for each entry and cluster, how many seDrs were handled
    served,     \* ClientClusterNamespaceServerCache: clusters without an error
    failed,     \* history: where a write has failed
    skipped     \* history: the entries that a skip was sent for

vars == <<caller, todo, clusters, errors, work, done, served, failed, skipped>>

Caller ==
    [pc : {"range"}, err : Errors]
    \cup [pc : {"feed"}, err : Errors, entry : Entries, left : SUBSET Clusters]
    \cup [pc : {"collect"}, err : Errors, entry : Entries, left : 0 .. clustersLen]
    \cup [pc : {"returned"}, err : Errors]
    \cup [pc : {"refused"}]                  \* returned an error about an entry

Unstarted == [pc |-> "unstarted"]
Waiting   == [pc |-> "waiting"]
Exited    == [pc |-> "exited"]

\* err: addSEorDRToAClusterError.  A worker that found both objects to be skipped
\* has a nil to send before it goes on.
Busy == [pc : {"working", "skipping", "sending"}, cluster : Clusters, err : Errors]

TypeOK ==
    /\ caller \in Caller
    /\ todo \subseteq Entries
    /\ clusters \in [Entries -> [queue : Seq(Clusters), closed : BOOLEAN]]
    /\ errors \in [Entries -> Seq(Errors)]
    /\ work \in [Entries -> [Workers -> Busy \cup {Unstarted, Waiting, Exited}]]
    /\ done \in [Entries -> [Clusters -> Nat]]
    /\ \A e \in Entries, c \in Clusters : done[e][c] <= NumSeDrs[e]
    /\ served \subseteq Clusters
    /\ failed \subseteq Entries \X Clusters
    /\ skipped \subseteq Entries

Init ==
    /\ caller = [pc |-> "range", err |-> nil]
    /\ todo \in Calls
    /\ clusters = [e \in Entries |-> [queue |-> <<>>, closed |-> FALSE]]
    /\ errors = [e \in Entries |-> <<>>]
    /\ work = [e \in Entries |-> [w \in Workers |-> Unstarted]]
    /\ done = [e \in Entries |-> [c \in Clusters |-> 0]]
    /\ served = {}
    /\ failed = {}
    /\ skipped = {}

-----------------------------------------------------------------------------
(* The caller *)

\* The next service entry: an entry without hosts ends the loop, and its error
\* takes the place of the ones collected so far
NextEntry(e) ==
    /\ caller.pc = "range"
    /\ e \in todo
    /\ todo' = todo \ {e}
    /\ IF e \in NoHosts
       THEN /\ caller' = [pc |-> "refused"]
            /\ UNCHANGED work
       ELSE /\ caller' = [pc |-> "feed", err |-> caller.err, entry |-> e,
                          left |-> Clusters]
            /\ work' = [work EXCEPT ![e] = [w \in Workers |-> Waiting]]
    /\ UNCHANGED <<clusters, errors, done, served, failed, skipped>>

\* clusters <- c.  The channel has room for all of them.
Feed(c) ==
    /\ caller.pc = "feed" /\ c \in caller.left
    /\ clusters' = [clusters EXCEPT ![caller.entry].queue = Append(@, c)]
    /\ caller' = [caller EXCEPT !.left = @ \ {c}]
    /\ UNCHANGED <<todo, errors, work, done, served, failed, skipped>>

\* Mutant: for i := 1; i < clustersLen; i++
CollectsOneLess ==
    /\ caller.pc = "feed" /\ caller.left = {}
    /\ clusters' = [clusters EXCEPT ![caller.entry].closed = TRUE]
    /\ caller' = [caller EXCEPT !.pc = "collect", !.left = clustersLen - 1]
    /\ UNCHANGED <<todo, errors, work, done, served, failed, skipped>>

Close ==
    /\ caller.pc = "feed" /\ caller.left = {}
    /\ clusters' = [clusters EXCEPT ![caller.entry].closed = TRUE]
    /\ caller' = [caller EXCEPT !.pc = "collect", !.left = clustersLen]
    /\ UNCHANGED <<todo, errors, work, done, served, failed, skipped>>

\* Mutant: addSEorDRerror = <-errors
CollectLast ==
    /\ caller.pc = "collect" /\ caller.left > 0
    /\ errors[caller.entry] # <<>>
    /\ caller' = [caller EXCEPT !.err = Head(errors[caller.entry]), !.left = @ - 1]
    /\ errors' = [errors EXCEPT ![caller.entry] = Tail(@)]
    /\ UNCHANGED <<todo, clusters, work, done, served, failed, skipped>>

\* addSEorDRerror = common.AppendError(addSEorDRerror, <-errors)
Collect ==
    /\ caller.pc = "collect" /\ caller.left > 0
    /\ errors[caller.entry] # <<>>
    /\ caller' = [caller EXCEPT !.err = @ \cup Head(errors[caller.entry]),
                                !.left = @ - 1]
    /\ errors' = [errors EXCEPT ![caller.entry] = Tail(@)]
    /\ UNCHANGED <<todo, clusters, work, done, served, failed, skipped>>

Continue ==
    /\ caller.pc = "collect" /\ caller.left = 0
    /\ caller' = [pc |-> "range", err |-> caller.err]
    /\ UNCHANGED <<todo, clusters, errors, work, done, served, failed, skipped>>

Return ==
    /\ caller.pc = "range" /\ todo = {}
    /\ caller' = [pc |-> "returned", err |-> caller.err]
    /\ UNCHANGED <<todo, clusters, errors, work, done, served, failed, skipped>>

-----------------------------------------------------------------------------
(* The workers *)

\* for cluster := range clusters
Take(e, w) ==
    /\ work[e][w] = Waiting
    /\ clusters[e].queue # <<>>
    /\ work' = [work EXCEPT ![e][w] = [pc |-> "working", err |-> nil,
                                       cluster |-> Head(clusters[e].queue)]]
    /\ clusters' = [clusters EXCEPT ![e].queue = Tail(@)]
    /\ UNCHANGED <<caller, todo, errors, done, served, failed, skipped>>

\* Mutant: nothing is sent for a cluster without a remote controller
DropSilently(e, w) ==
    /\ "unknown" \in Outcomes
    /\ work[e][w].pc = "working"
    /\ done[e][work[e][w].cluster] = 0
    /\ work' = [work EXCEPT ![e][w] = Waiting]
    /\ UNCHANGED <<caller, todo, clusters, errors, done, served, failed, skipped>>

\* The registry does not know the cluster, by now: there is nothing to do
Drop(e, w) ==
    /\ "unknown" \in Outcomes
    /\ work[e][w].pc = "working"
    /\ done[e][work[e][w].cluster] = 0
    /\ done' = [done EXCEPT ![e][work[e][w].cluster] = NumSeDrs[e]]
    /\ work' = [work EXCEPT ![e][w].pc = "sending"]
    /\ UNCHANGED <<caller, todo, clusters, errors, served, failed, skipped>>

\* createSeAndDrSetFromGtp returns nothing when an address cannot be had: there
\* is nothing to write then, nobody to record as served, and no error
NoPairs(e, w) ==
    /\ "unaddressed" \in Outcomes
    /\ work[e][w].pc = "working"
    /\ done[e][work[e][w].cluster] = 0
    /\ done' = [done EXCEPT ![e][work[e][w].cluster] = NumSeDrs[e]]
    /\ work' = [work EXCEPT ![e][w].pc = "sending"]
    /\ UNCHANGED <<caller, todo, clusters, errors, served, failed, skipped>>

Exit(e, w) ==
    /\ work[e][w] = Waiting
    /\ clusters[e].queue = <<>> /\ clusters[e].closed
    /\ work' = [work EXCEPT ![e][w] = Exited]
    /\ UNCHANGED <<caller, todo, clusters, errors, done, served, failed, skipped>>

\* One seDr: the error of a write is kept for the end, a skip is sent right away.
\* The error of a read is dropped: an entry that could not be read passes for a
\* user's own and is left out, a rule that could not be read for a new one.
HandleSeDr(e, w) ==
    /\ work[e][w].pc = "working"
    /\ LET c == work[e][w].cluster
       IN /\ done[e][c] < NumSeDrs[e]
          /\ done' = [done EXCEPT ![e][c] = @ + 1]
          /\ \/ /\ Outcomes \cap {"written", "unread"} # {}
                /\ UNCHANGED <<work, failed>>
             \/ /\ "failed" \in Outcomes
                /\ work' = [work EXCEPT ![e][w].err = @ \cup {<<e, c>>}]
                /\ failed' = failed \cup {<<e, c>>}
             \/ /\ "skipped" \in Outcomes
                /\ work' = [work EXCEPT ![e][w].pc = "skipping"]
                /\ UNCHANGED failed
    /\ UNCHANGED <<caller, todo, clusters, errors, served, skipped>>

\* The channel has room for another error
HasRoom(e) == Len(errors[e]) < clustersLen

\* if skipSEUpdate && skipDRUpdate { errors <- nil; continue }
SendSkip(e, w) ==
    /\ work[e][w].pc = "skipping"
    /\ HasRoom(e)
    /\ errors' = [errors EXCEPT ![e] = Append(@, nil)]
    /\ work' = [work EXCEPT ![e][w].pc = "working"]
    /\ skipped' = skipped \cup {e}
    /\ UNCHANGED <<caller, todo, clusters, done, served, failed>>

\* After the last seDr
EndCluster(e, w) ==
    /\ work[e][w].pc = "working"
    /\ done[e][work[e][w].cluster] = NumSeDrs[e]
    /\ work' = [work EXCEPT ![e][w].pc = "sending"]
    /\ served' = IF work[e][w].err = nil THEN served \cup {work[e][w].cluster}
                 ELSE served
    /\ UNCHANGED <<caller, todo, clusters, errors, done, failed, skipped>>

\* errors <- addSEorDRToAClusterError
Send(e, w) ==
    /\ work[e][w].pc = "sending"
    /\ HasRoom(e)
    /\ errors' = [errors EXCEPT ![e] = Append(@, work[e][w].err)]
    /\ work' = [work EXCEPT ![e][w] = Waiting]
    /\ UNCHANGED <<caller, todo, clusters, done, served, failed, skipped>>

-----------------------------------------------------------------------------
CallerStep ==
    \/ \E e \in Entries : NextEntry(e)
    \/ \E c \in Clusters : Feed(c)
    \/ Close \/ Collect \/ Continue \/ Return

WorkerStep(e, w) ==
    \/ Take(e, w) \/ Drop(e, w) \/ NoPairs(e, w) \/ Exit(e, w) \/ HandleSeDr(e, w)
    \/ SendSkip(e, w) \/ EndCluster(e, w) \/ Send(e, w)

Next == CallerStep \/ \E e \in Entries, w \in Workers : WorkerStep(e, w)

Spec == Init /\ [][Next]_vars

\* Goroutines that can go on do go on
Fairness ==
    /\ WF_vars(CallerStep)
    /\ \A e \in Entries, w \in Workers : WF_vars(WorkerStep(e, w))

FairSpec == Spec /\ Fairness
-----------------------------------------------------------------------------
(* Properties *)

Returned == caller.pc \in {"returned", "refused"}

\* The entries whose clusters the caller has collected the results of
Collected ==
    {e \in Entries :
        /\ \E w \in Workers : work[e][w] # Unstarted
        /\ caller.pc \in {"feed", "collect"} => e # caller.entry}

\* What AddServiceEntriesWithDrToAllCluster has collected results for is
\* finished: no worker is still writing one of these entries to a cluster,
\* unless the values sent for skips were counted as results.
NothingLeftBehind ==
    \A e \in Collected \ skipped, c \in Clusters : done[e][c] = NumSeDrs[e]

Reported(e) ==
    \A c \in Clusters :
        <<e, c>> \in failed => caller.pc = "refused" \/ <<e, c>> \in caller.err

\* A failed write makes the result an error, so that the event comes back, for
\* the entries of which nothing was skipped: neither the values of other clusters
\* nor an entry that loses errors make AddServiceEntriesWithDrToAllCluster lose
\* those of others.  Failed reads and addresses that cannot be had are not errors
\* to AddServiceEntriesWithDrWorker, and never part of the result.
ErrorsReported == \A e \in Collected \ skipped : Reported(e)

Ended(e) == \A w \in Workers : work[e][w] \in {Unstarted, Exited}

\* The channels are large enough: the caller always returns, whatever is
\* skipped, and the workers it started end instead of blocking on a channel for
\* ever.  Of the entries with skips this needs two values per cluster to be all.
Finishes ==
    <>[](Returned /\ \A e \in Entries : NumSeDrs[e] = 1 \/ e \notin skipped => Ended(e))
=============================================================================
