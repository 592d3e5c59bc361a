--------------------------- MODULE ClusterRegistry ---------------------------
(***************************************************************************)
(* From the secrets that name the member clusters to the sets of           *)
(* controllers that watch them.                                            *)
(*   admiral/pkg/controller/secret/secretcontroller.go                     *)
(*   admiral/pkg/clusters/registry.go           (start, refresh, stop)     *)
(*   admiral/pkg/clusters/types.go              (RemoteRegistry)           *)
(*                                                                         *)
(* A secret holds a kubeconfig for each of its clusters; here a kubeconfig *)
(* is the API server it leads to, or Unusable.  One worker handles the     *)
(* secrets; errors with single clusters are logged and not retried.        *)
(* Closing the stop channel of a set of controllers ends its informers.    *)
(* Its workers stay parked, waiting on queues that are never shut down,    *)
(* until the process ends: the leak that updateCacheController warns of.   *)
(***************************************************************************)
EXTENDS Naturals, FiniteSets

CONSTANTS
    Secrets, Clusters, Hosts,
    Unusable,           \* a kubeconfig that cannot be loaded
    None,
    \* Bounds of the environment
    Contents,           \* what secrets may hold
    Budgets             \* how often what may happen

Budget == [changes : Nat, failures : Nat, restarts : Nat]

\* A set of controllers of a cluster, which share a stop channel
Set == [cluster : Clusters, host : Hosts, id : Nat]

ASSUME RegistryAssumption ==
    /\ Unusable \notin Hosts /\ None \notin Hosts \cup {Unusable} \cup Secrets
    /\ None \notin Contents \cup Set
    /\ Contents \subseteq [Clusters -> Hosts \cup {Unusable, None}]
    /\ Budgets \subseteq Budget

VARIABLES
    secrets,    \* the data of each secret, or None
    up,         \* Admiral runs and knows its read-write state
    queue,      \* secrets to be handled
    task,       \* the secret that is being handled
    store,      \* RemoteClusters: the secret of each cluster
    remote,     \* remoteControllers
    watching,   \* the sets of controllers whose informers run (open channel)
    parked,     \* the sets whose channel is closed and whose workers wait
    starts,
    irregular,  \* history: clusters the secrets do not determine
    moves,      \* history: how often secrets moved a cluster or dropped it
    budget

vars == <<secrets, up, queue, task, store, remote, watching, parked, starts,
          irregular, moves, budget>>

Idle == [secret |-> None]
Task == [secret : Secrets, data : Contents \cup {None}, left : SUBSET Clusters]

TypeOK ==
    /\ secrets \in [Secrets -> Contents \cup {None}]
    /\ up \in BOOLEAN /\ queue \subseteq Secrets /\ task \in Task \cup {Idle}
    /\ store \in [Clusters -> Secrets \cup {None}]
    /\ remote \in [Clusters -> Set \cup {None}]
    /\ watching \subseteq Set /\ parked \subseteq Set /\ starts \in Nat
    /\ irregular \subseteq Clusters /\ moves \in [Clusters -> Nat] /\ budget \in Budget

Init ==
    /\ secrets \in [Secrets -> Contents \cup {None}]
    /\ up = FALSE /\ queue = {} /\ task = Idle
    /\ store = [c \in Clusters |-> None] /\ remote = [c \in Clusters |-> None]
    /\ watching = {} /\ parked = {} /\ starts = 0
    /\ irregular = {} /\ moves = [c \in Clusters |-> 0]
    /\ budget \in Budgets

Spend(f) == budget[f] > 0 /\ budget' = [budget EXCEPT ![f] = @ - 1]

Listed(data) == IF data = None THEN {} ELSE {c \in Clusters : data[c] # None}
Twice(all)   == {c \in Clusters : \E s, t \in Secrets :
                    s # t /\ c \in Listed(all[s]) /\ c \in Listed(all[t])}

-----------------------------------------------------------------------------
(* Start and end of the process                                            *)

\* InitAdmiral, InitAdmiralOperator: the secret controller is started once the
\* read-write state is known; its informer lists the secrets
Boot ==
    /\ ~up /\ up' = TRUE
    /\ queue' = {s \in Secrets : secrets[s] # None}
    /\ irregular' = Twice(secrets)
    /\ UNCHANGED <<secrets, task, store, remote, watching, parked, starts, moves, budget>>

\* The process ends, with all its goroutines
Gone ==
    /\ up' = FALSE /\ queue' = {} /\ task' = Idle
    /\ watching' = {} /\ parked' = {}
    /\ irregular' = {} /\ moves' = [c \in Clusters |-> 0]
    /\ store' = [c \in Clusters |-> None] /\ remote' = [c \in Clusters |-> None]

Stop == up /\ Spend("restarts") /\ Gone /\ UNCHANGED <<secrets, starts>>

-----------------------------------------------------------------------------
(* createCacheController, deleteCacheController                            *)

NewSet(c, host) == [cluster |-> c, host |-> host, id |-> starts]

\* Mutant: the registered controllers are replaced and their channel is not closed
NotStopped(c) == watching

\* deleteCacheController: the channel of the registered controllers is closed
WithoutOld(c) == watching \ {remote[c]}
Park(c)       == parked' = parked \cup ({remote[c]} \ {None})

Started(c, host, others) ==
    /\ remote' = [remote EXCEPT ![c] = NewSet(c, host)]
    /\ watching' = others \cup {NewSet(c, host)}
    /\ starts' = starts + 1
    /\ UNCHANGED <<irregular, budget>>

\* A controller cannot be created: those before it, if any, keep running, as
\* the stop channel is not closed
StartFailed(c, host, others) ==
    /\ Spend("failures")
    /\ remote' = [remote EXCEPT ![c] = None]
    /\ \E part \in {{}, {NewSet(c, host)}} : watching' = others \cup part
    /\ starts' = starts + 1
    /\ irregular' = irregular \cup {c}

Start(c, host, others) == Started(c, host, others) \/ StartFailed(c, host, others)

-----------------------------------------------------------------------------
(* The secret controller                                                   *)

\* Mutant: a secret that is gone is passed over
TakeExisting(s) ==
    /\ up /\ task = Idle /\ s \in queue
    /\ queue' = queue \ {s}
    /\ task' = [secret |-> s, data |-> secrets[s], left |-> Listed(secrets[s])]
    /\ UNCHANGED <<secrets, up, store, remote, watching, parked, starts, irregular,
                   moves, budget>>

\* processNextItem, processItem: the secret is looked up when it is handled
Take(s) ==
    /\ up /\ task = Idle /\ s \in queue
    /\ queue' = queue \ {s}
    /\ task' = [secret |-> s, data |-> secrets[s],
                left |-> IF secrets[s] # None THEN Listed(secrets[s])
                         ELSE {c \in Clusters : store[c] = s}]
    /\ UNCHANGED <<secrets, up, store, remote, watching, parked, starts, irregular,
                   moves, budget>>

Turn(c) == task # Idle /\ c \in task.left

Handled(c) == task' = [task EXCEPT !.left = @ \ {c}]

\* addMemberCluster, the cluster is not known.  It is recorded before its
\* controllers are started
AddCluster(c) ==
    /\ Turn(c) /\ task.data # None /\ store[c] = None /\ task.data[c] \in Hosts
    /\ store' = [store EXCEPT ![c] = task.secret]
    /\ Start(c, task.data[c], watching)
    /\ Handled(c)
    /\ UNCHANGED <<secrets, up, queue, parked, moves>>

\* Nothing is done for a cluster of another secret, with a kubeconfig that
\* cannot be used, or (updateCacheController) at the same API server
LeaveCluster(c) ==
    /\ Turn(c) /\ task.data # None
    /\ \/ store[c] \notin {None, task.secret} \/ task.data[c] = Unusable
       \/ store[c] = task.secret /\ remote[c] # None /\ remote[c].host = task.data[c]
    /\ Handled(c)
    /\ UNCHANGED <<secrets, up, queue, store, remote, watching, parked, starts, irregular,
                   moves, budget>>

\* Mutant: the controllers are refreshed whenever the secret changes
RefreshAlways(c) ==
    /\ Turn(c) /\ task.data # None
    /\ store[c] = task.secret /\ task.data[c] \in Hosts /\ remote[c] # None
    /\ Start(c, task.data[c], WithoutOld(c)) /\ Park(c)
    /\ Handled(c)
    /\ UNCHANGED <<secrets, up, queue, store, moves>>

\* updateCacheController, the API server is another one
RefreshCluster(c) ==
    /\ Turn(c) /\ task.data # None
    /\ store[c] = task.secret /\ task.data[c] \in Hosts
    /\ remote[c] # None /\ remote[c].host # task.data[c]
    /\ Start(c, task.data[c], WithoutOld(c)) /\ Park(c)
    /\ Handled(c)
    /\ UNCHANGED <<secrets, up, queue, store, moves>>

\* updateCacheController, the controllers had not been started: it reads the
\* API server of a nil controller, and the process panics
Panic(c) ==
    /\ Turn(c) /\ task.data # None
    /\ store[c] = task.secret /\ task.data[c] \in Hosts /\ remote[c] = None
    /\ Gone
    /\ UNCHANGED <<secrets, starts, budget>>

\* deleteMemberCluster
DeleteCluster(c) ==
    /\ Turn(c) /\ task.data = None
    /\ remote' = [remote EXCEPT ![c] = None]
    /\ watching' = WithoutOld(c) /\ Park(c)
    /\ store' = [store EXCEPT ![c] = None]
    /\ Handled(c)
    /\ UNCHANGED <<secrets, up, queue, starts, irregular, moves, budget>>

Finish ==
    /\ task # Idle /\ task.left = {}
    /\ task' = Idle
    /\ UNCHANGED <<secrets, up, queue, store, remote, watching, parked, starts, irregular,
                   moves, budget>>

Work ==
    \/ \E s \in Secrets : Take(s)
    \/ \E c \in Clusters : AddCluster(c) \/ LeaveCluster(c) \/ RefreshCluster(c)
                           \/ Panic(c) \/ DeleteCluster(c)
    \/ Finish

-----------------------------------------------------------------------------
(* The environment                                                         *)

\* The clusters that are, or are about to be, registered for a secret
Held(s) == {c \in Clusters : store[c] = s \/ (task # Idle /\ task.secret = s /\ c \in task.left)}

\* A secret is created, changed or deleted.  Only the secret's name is queued:
\* a deletion that is followed by a creation before it is handled is not seen.
Change(s) ==
    /\ Spend("changes")
    /\ \E data \in Contents \cup {None} :
         LET new == [secrets EXCEPT ![s] = data] IN
         /\ data # secrets[s] /\ secrets' = new
         /\ moves' = [c \in Clusters |->
              IF up /\ c \in Listed(secrets[s]) /\ (data = None \/ data[c] # secrets[s][c])
              THEN moves[c] + 1 ELSE moves[c]]
         /\ irregular' = irregular \cup Twice(new)
              \cup (Listed(data) \cap UNION {Held(t) : t \in Secrets \ {s}})
              \cup (IF data = None THEN {} ELSE Held(s) \ Listed(data))
    /\ queue' = IF up THEN queue \cup {s} ELSE queue
    /\ UNCHANGED <<up, task, store, remote, watching, parked, starts>>

Next == Boot \/ Stop \/ Work \/ \E s \in Secrets : Change(s)

Spec == Init /\ [][Next]_vars

\* Kubernetes starts the process again, and the worker does not stop
FairSpec == Spec /\ WF_vars(Boot) /\ WF_vars(Work)

-----------------------------------------------------------------------------
(* Properties                                                              *)

\* OneWatch: the informers of one set of controllers deliver the events of a
\* cluster, those of the registered set, and of a cluster that is not registered
\* none do: neither a refresh nor a deletion leaves informers behind, and no set
\* is registered whose channel has been closed.  A start that fails may leave
\* some.  (Parked workers get no more events; each still holds what was queued.)
OneWatch ==
    /\ watching \cap parked = {}
    /\ \A c \in Clusters \ irregular :
         {w \in watching : w.cluster = c} = (IF remote[c] = None THEN {} ELSE {remote[c]})

\* SlowLeak: the sets of workers that are parked are no more than the times a
\* secret moved the cluster to another API server, dropped it or was deleted;
\* changes of a secret that do not concern the cluster park nothing ("only do
\* the controller refresh if the API Server of the remote cluster has changed").
SlowLeak ==
    \A c \in Clusters \ irregular : Cardinality({w \in parked : w.cluster = c}) <= moves[c]

\* The registry has the clusters of the secrets.  A kubeconfig that cannot be
\* loaded determines nothing
Matches(c) ==
    LET hosts == {secrets[s][c] : s \in {t \in Secrets : secrets[t] # None}} \ {None} IN
    \/ Unusable \in hosts
    \/ hosts = {} /\ remote[c] = None
    \/ remote[c] # None /\ hosts = {remote[c].host}

\* RegistryFollows: after the last change of the secrets and the last restart
\* the registry comes to agree with them, for every cluster that only one
\* secret has named at a time, that was not taken out of a secret that is still
\* there, and whose controllers could be started since the process began.
RegistryFollows == <>[](\A c \in Clusters \ irregular : Matches(c))
=============================================================================
