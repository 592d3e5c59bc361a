------------------------ MODULE ClusterRegistryProofs ------------------------
(***************************************************************************)
(* Proofs about ClusterRegistry, for any secrets, clusters and API servers *)
(* and any number of changes, failed starts and restarts.                  *)
(***************************************************************************)
EXTENDS ClusterRegistry, TLAPS

-----------------------------------------------------------------------------
(* Type correctness                                                        *)

LEMMA SpendType ==
    ASSUME TypeOK, NEW f \in {"changes", "failures", "restarts"}, Spend(f)
    PROVE  budget' \in Budget
  BY DEF TypeOK, Budget, Spend

LEMMA NewSetType ==
    ASSUME TypeOK, NEW c \in Clusters, NEW h \in Hosts
    PROVE  /\ NewSet(c, h) \in Set
           /\ NewSet(c, h).cluster = c
           /\ NewSet(c, h).host = h
           /\ NewSet(c, h) # None
  BY RegistryAssumption DEF TypeOK, Set, NewSet

\* Whatever comes of a start, the registry and the controllers keep their types
LEMMA StartType ==
    ASSUME TypeOK, NEW c \in Clusters, NEW h \in Hosts, NEW others \in SUBSET watching,
           Start(c, h, others)
    PROVE  /\ remote' \in [Clusters -> Set \cup {None}]
           /\ watching' \subseteq Set /\ starts' \in Nat
           /\ irregular' \subseteq Clusters /\ budget' \in Budget
<1>1. CASE Started(c, h, others)
  BY <1>1, NewSetType DEF TypeOK, Started
<1>2. CASE StartFailed(c, h, others)
  <2>1. budget' \in Budget
    BY <1>2, SpendType DEF StartFailed
  <2>2. QED
    BY <1>2, <2>1, NewSetType DEF TypeOK, StartFailed
<1>3. QED
  BY <1>1, <1>2 DEF Start

LEMMA ParkType ==
    ASSUME TypeOK, NEW c \in Clusters, Park(c)
    PROVE  parked' \subseteq Set
  BY DEF TypeOK, Park

LEMMA TaskType ==
    ASSUME TypeOK, NEW c \in Clusters, Turn(c)
    PROVE  /\ task \in Task /\ task.secret \in Secrets
           /\ task.data \in Contents \cup {None}
           /\ Handled(c) => task' \in Task
  BY RegistryAssumption DEF TypeOK, Turn, Handled, Task, Idle

LEMMA GoneType == ASSUME Gone, TypeOK, UNCHANGED <<secrets, starts>>, budget' \in Budget
                  PROVE  TypeOK'
  BY DEF Gone, TypeOK

LEMMA TypeStep == TypeOK /\ [Next]_vars => TypeOK'
<1> SUFFICES ASSUME TypeOK, [Next]_vars
             PROVE  TypeOK'
  OBVIOUS
<1>1. CASE Boot
  BY <1>1 DEF Boot, TypeOK, Twice
<1>2. CASE Stop
  BY <1>2, SpendType, GoneType DEF Stop
<1>3. ASSUME NEW s \in Secrets, Take(s)
      PROVE  TypeOK'
  <2>1. task' \in Task
    BY <1>3 DEF Take, TypeOK, Task, Listed
  <2>2. QED
    BY <1>3, <2>1 DEF Take, TypeOK
<1>4. ASSUME NEW c \in Clusters, AddCluster(c)
      PROVE  TypeOK'
  <2>1. Turn(c) /\ task.data[c] \in Hosts /\ Start(c, task.data[c], watching) /\ Handled(c)
    BY <1>4 DEF AddCluster
  <2>2. task' \in Task /\ task.secret \in Secrets
    BY <2>1, TaskType
  <2>3. QED
    BY <1>4, <2>1, <2>2, StartType DEF AddCluster, TypeOK
<1>5. ASSUME NEW c \in Clusters, LeaveCluster(c)
      PROVE  TypeOK'
  BY <1>5, TaskType DEF LeaveCluster, TypeOK
<1>6. ASSUME NEW c \in Clusters, RefreshCluster(c)
      PROVE  TypeOK'
  <2>1. /\ Turn(c) /\ task.data[c] \in Hosts /\ Handled(c)
        /\ Start(c, task.data[c], WithoutOld(c)) /\ WithoutOld(c) \in SUBSET watching
    BY <1>6 DEF RefreshCluster, WithoutOld
  <2>2. task' \in Task
    BY <2>1, TaskType
  <2>3. QED
    BY <1>6, <2>1, <2>2, StartType, ParkType DEF RefreshCluster, TypeOK
<1>7. ASSUME NEW c \in Clusters, Panic(c)
      PROVE  TypeOK'
  BY <1>7, GoneType DEF Panic, TypeOK
<1>8. ASSUME NEW c \in Clusters, DeleteCluster(c)
      PROVE  TypeOK'
  BY <1>8, TaskType, ParkType DEF DeleteCluster, TypeOK, WithoutOld
<1>9. CASE Finish
  BY <1>9 DEF Finish, TypeOK
<1>10. ASSUME NEW s \in Secrets, Change(s)
       PROVE  TypeOK'
  <2>1. budget' \in Budget
    BY <1>10, SpendType DEF Change
  <2>2. irregular' \subseteq Clusters /\ secrets' \in [Secrets -> Contents \cup {None}]
    BY <1>10 DEF Change, TypeOK, Twice, Listed, Held
  <2>3. moves' \in [Clusters -> Nat]
    BY <1>10 DEF Change, TypeOK
  <2>4. QED
    BY <1>10, <2>1, <2>2, <2>3 DEF Change, TypeOK
<1>11. CASE UNCHANGED vars
  BY <1>11 DEF vars, TypeOK
<1>12. QED
  BY <1>1, <1>2, <1>3, <1>4, <1>5, <1>6, <1>7, <1>8, <1>9, <1>10, <1>11 DEF Next, Work

LEMMA TypeInit == Init => TypeOK
<1> SUFFICES ASSUME Init
             PROVE  TypeOK
  OBVIOUS
<1>1. budget \in Budget
  BY RegistryAssumption DEF Init
<1>2. QED
  BY <1>1 DEF Init, TypeOK

\* The registry, the secrets and the sets of controllers keep their types.
THEOREM RegistryTypeCorrect == Spec => []TypeOK
  BY TypeInit, TypeStep, PTL DEF Spec

-----------------------------------------------------------------------------
(***************************************************************************)
(* One watch per cluster.  OneWatch is not inductive: a set of controllers *)
(* must be registered under its own cluster, a cluster that is not         *)
(* recorded must not have controllers, a process that is down must have    *)
(* left nothing behind, and a new set must differ from every one there is, *)
(* parked ones included.                                                   *)
(***************************************************************************)
DownIsEmpty ==
    ~up => task = Idle /\ watching = {}
           /\ \A c \in Clusters : store[c] = None /\ remote[c] = None

RemoteSound ==
    \A c \in Clusters : /\ store[c] = None => remote[c] = None
                        /\ remote[c] # None => remote[c].cluster = c

\* The sets there are have been started
Numbered ==
    /\ \A w \in watching \cup parked : w.id < starts
    /\ \A c \in Clusters : remote[c] # None => remote[c].id < starts

Apart == watching \cap parked = {}

Single ==
    \A c \in Clusters \ irregular :
       {w \in watching : w.cluster = c} = (IF remote[c] = None THEN {} ELSE {remote[c]})

WatchInv == TypeOK /\ DownIsEmpty /\ RemoteSound /\ Numbered /\ OneWatch

LEMMA OneWatchParts == OneWatch <=> Apart /\ Single
  BY DEF OneWatch, Apart, Single

\* What is done to the registered set of a cluster keeps the sets numbered, and
\* those that are parked apart from those that run
LEMMA StartNumbered ==
    ASSUME TypeOK, Numbered, Apart, NEW c \in Clusters, NEW h \in Hosts,
           Start(c, h, watching \ {remote[c]}),
           Park(c) \/ (remote[c] = None /\ parked' = parked)
    PROVE  Numbered' /\ Apart'
<1>1. /\ NewSet(c, h) \in Set /\ NewSet(c, h).id = starts /\ starts \in Nat
  BY NewSetType DEF NewSet, TypeOK
<1>2. PICK part \in {{}, {NewSet(c, h)}} :
        /\ watching' = (watching \ {remote[c]}) \cup part
        /\ starts' = starts + 1
        /\ remote' \in {[remote EXCEPT ![c] = NewSet(c, h)], [remote EXCEPT ![c] = None]}
  BY DEF Start, Started, StartFailed
<1>3. parked' = parked \cup ({remote[c]} \ {None})
  BY DEF Park
<1>4. \A w \in watching \cup parked : w \in Set /\ w.id \in Nat
  BY DEF TypeOK, Set
<1>5. \A d \in Clusters : remote[d] # None => remote[d] \in Set /\ remote[d].id \in Nat
  BY DEF TypeOK, Set
<1>6. Numbered'
  <2>1. \A w \in watching' \cup parked' : w.id < starts'
    BY <1>1, <1>2, <1>3, <1>4, <1>5 DEF Numbered
  <2>2. \A d \in Clusters : remote'[d] # None => remote'[d].id < starts'
    BY <1>1, <1>2, <1>5 DEF Numbered, TypeOK
  <2>3. QED
    BY <2>1, <2>2 DEF Numbered
<1>7. NewSet(c, h) \notin parked'
  BY <1>1, <1>3, <1>4, <1>5 DEF Numbered
<1>8. QED
  BY <1>2, <1>3, <1>6, <1>7 DEF Apart

\* The process leaves nothing behind
LEMMA GoneWatch == ASSUME Gone
                   PROVE  DownIsEmpty' /\ RemoteSound' /\ Numbered' /\ OneWatch'
  BY DEF Gone, DownIsEmpty, RemoteSound, Numbered, OneWatch

\* A start replaces the sets of the cluster by the new one, or makes the
\* cluster irregular, and leaves those of other clusters alone
LEMMA StartWatch ==
    ASSUME WatchInv, NEW c \in Clusters, NEW h \in Hosts, Start(c, h, watching \ {remote[c]})
    PROVE  /\ Single'
           /\ \A d \in Clusters : remote'[d] # None => remote'[d].cluster = d
           /\ \A d \in Clusters \ {c} : remote'[d] = remote[d]
<1>1. /\ NewSet(c, h).cluster = c /\ NewSet(c, h) # None
  BY NewSetType DEF WatchInv
<1>2. /\ \A d \in Clusters : remote[d] # None => remote[d].cluster = d
      /\ \A d \in Clusters \ irregular :
            {w \in watching : w.cluster = d} = (IF remote[d] = None THEN {} ELSE {remote[d]})
      /\ remote \in [Clusters -> Set \cup {None}] /\ watching \subseteq Set /\ None \notin Set
  BY RegistryAssumption DEF WatchInv, RemoteSound, OneWatch, Single, TypeOK
<1>3. CASE Started(c, h, watching \ {remote[c]})
  <2>1. /\ remote' = [remote EXCEPT ![c] = NewSet(c, h)] /\ irregular' = irregular
        /\ watching' = (watching \ {remote[c]}) \cup {NewSet(c, h)}
    BY <1>3 DEF Started
  <2>2. ASSUME NEW d \in Clusters \ irregular
        PROVE  {w \in watching' : w.cluster = d}
                  = (IF remote'[d] = None THEN {} ELSE {remote'[d]})
    <3>1. CASE d = c
      BY <1>1, <1>2, <2>1, <3>1
    <3>2. CASE d # c
      BY <1>1, <1>2, <2>1, <3>2
    <3>3. QED
      BY <3>1, <3>2
  <2>3. QED
    BY <1>1, <1>2, <2>1, <2>2 DEF Single
<1>4. CASE StartFailed(c, h, watching \ {remote[c]})
  <2>1. PICK part \in {{}, {NewSet(c, h)}} :
          /\ remote' = [remote EXCEPT ![c] = None] /\ irregular' = irregular \cup {c}
          /\ watching' = (watching \ {remote[c]}) \cup part
    BY <1>4 DEF StartFailed
  <2>2. ASSUME NEW d \in Clusters \ irregular'
        PROVE  {w \in watching' : w.cluster = d}
                  = (IF remote'[d] = None THEN {} ELSE {remote'[d]})
    BY <1>1, <1>2, <2>1
  <2>3. QED
    BY <1>1, <1>2, <2>1, <2>2 DEF Single
<1>5. QED
  BY <1>3, <1>4 DEF Start

LEMMA WatchStep == WatchInv /\ [Next]_vars => WatchInv'
<1> SUFFICES ASSUME WatchInv, [Next]_vars
             PROVE  DownIsEmpty' /\ RemoteSound' /\ Numbered' /\ OneWatch'
  BY TypeStep DEF WatchInv
<1> USE DEF WatchInv
<1>1. CASE Boot
  BY <1>1 DEF Boot, DownIsEmpty, RemoteSound, Numbered, OneWatch
<1>2. CASE Stop
  BY <1>2, GoneWatch DEF Stop
<1>3. ASSUME NEW s \in Secrets, Take(s)
      PROVE  DownIsEmpty' /\ RemoteSound' /\ Numbered' /\ OneWatch'
  BY <1>3 DEF Take, DownIsEmpty, RemoteSound, Numbered, OneWatch
<1>4. ASSUME NEW c \in Clusters, AddCluster(c)
      PROVE  DownIsEmpty' /\ RemoteSound' /\ Numbered' /\ OneWatch'
  <2>1. /\ task.data[c] \in Hosts /\ store[c] = None /\ task # Idle /\ up' = up
        /\ store' = [store EXCEPT ![c] = task.secret]
        /\ Start(c, task.data[c], watching) /\ parked' = parked
    BY <1>4 DEF AddCluster, Turn
  <2>2. watching = watching \ {remote[c]} /\ remote[c] = None
    BY <2>1, RegistryAssumption DEF RemoteSound, TypeOK
  <2>3. task.secret # None
    BY <1>4, TaskType, RegistryAssumption DEF AddCluster
  <2>4. Start(c, task.data[c], watching \ {remote[c]})
    BY <2>1, <2>2
  <2>5. /\ Single'
        /\ \A d \in Clusters : remote'[d] # None => remote'[d].cluster = d
        /\ \A d \in Clusters \ {c} : remote'[d] = remote[d]
    BY <2>1, <2>4, StartWatch
  <2>6. Numbered' /\ Apart'
    BY <2>1, <2>2, <2>4, StartNumbered, OneWatchParts
  <2>7. OneWatch'
    BY <2>5, <2>6 DEF OneWatch, Apart, Single
  <2>8. QED
    BY <2>1, <2>3, <2>5, <2>6, <2>7 DEF DownIsEmpty, RemoteSound, TypeOK
<1>5. ASSUME NEW c \in Clusters, LeaveCluster(c)
      PROVE  DownIsEmpty' /\ RemoteSound' /\ Numbered' /\ OneWatch'
  BY <1>5 DEF LeaveCluster, Turn, DownIsEmpty, RemoteSound, Numbered, OneWatch
<1>6. ASSUME NEW c \in Clusters, RefreshCluster(c)
      PROVE  DownIsEmpty' /\ RemoteSound' /\ Numbered' /\ OneWatch'
  <2>1. /\ task.data[c] \in Hosts /\ store[c] = task.secret /\ task # Idle /\ up' = up
        /\ store' = store /\ Start(c, task.data[c], watching \ {remote[c]}) /\ Park(c)
    BY <1>6 DEF RefreshCluster, Turn, WithoutOld
  <2>2. task.secret # None
    BY <1>6, TaskType, RegistryAssumption DEF RefreshCluster
  <2>3. /\ Single'
        /\ \A d \in Clusters : remote'[d] # None => remote'[d].cluster = d
        /\ \A d \in Clusters \ {c} : remote'[d] = remote[d]
    BY <2>1, StartWatch
  <2>4. Numbered' /\ Apart'
    BY <2>1, StartNumbered, OneWatchParts
  <2>5. OneWatch'
    BY <2>3, <2>4 DEF OneWatch, Apart, Single
  <2>6. QED
    BY <2>1, <2>2, <2>3, <2>4, <2>5 DEF DownIsEmpty, RemoteSound
<1>7. ASSUME NEW c \in Clusters, Panic(c)
      PROVE  DownIsEmpty' /\ RemoteSound' /\ Numbered' /\ OneWatch'
  BY <1>7, GoneWatch DEF Panic
<1>8. ASSUME NEW c \in Clusters, DeleteCluster(c)
      PROVE  DownIsEmpty' /\ RemoteSound' /\ Numbered' /\ OneWatch'
  <2>1. /\ remote' = [remote EXCEPT ![c] = None] /\ watching' = watching \ {remote[c]}
        /\ store' = [store EXCEPT ![c] = None] /\ up' = up /\ irregular' = irregular
        /\ task # Idle /\ parked' = parked \cup ({remote[c]} \ {None}) /\ starts' = starts
    BY <1>8 DEF DeleteCluster, WithoutOld, Turn, Park
  <2>2. DownIsEmpty' /\ RemoteSound'
    BY <2>1 DEF DownIsEmpty, RemoteSound, TypeOK
  <2>3. ASSUME NEW d \in Clusters \ irregular
        PROVE  {w \in watching' : w.cluster = d}
                  = (IF remote'[d] = None THEN {} ELSE {remote'[d]})
    BY <2>1 DEF RemoteSound, OneWatch, TypeOK
  <2>4. Numbered' /\ watching' \cap parked' = {}
    BY <2>1 DEF Numbered, OneWatch, TypeOK
  <2>5. QED
    BY <2>1, <2>2, <2>3, <2>4 DEF OneWatch
<1>9. CASE Finish
  BY <1>9 DEF Finish, DownIsEmpty, RemoteSound, Numbered, OneWatch
<1>10. ASSUME NEW s \in Secrets, Change(s)
       PROVE  DownIsEmpty' /\ RemoteSound' /\ Numbered' /\ OneWatch'
  <2>1. irregular \subseteq irregular'
    BY <1>10 DEF Change
  <2>2. QED
    BY <1>10, <2>1 DEF Change, DownIsEmpty, RemoteSound, Numbered, OneWatch
<1>11. CASE UNCHANGED vars
  BY <1>11 DEF vars, DownIsEmpty, RemoteSound, Numbered, OneWatch
<1>12. QED
  BY <1>1, <1>2, <1>3, <1>4, <1>5, <1>6, <1>7, <1>8, <1>9, <1>10, <1>11 DEF Next, Work

LEMMA WatchInit == Init => WatchInv
<1> SUFFICES ASSUME Init
             PROVE  WatchInv
  OBVIOUS
<1>1. TypeOK
  BY TypeInit
<1>2. QED
  BY <1>1 DEF Init, WatchInv, DownIsEmpty, RemoteSound, Numbered, OneWatch

(***************************************************************************)
(* Of every cluster whose start has not failed, the informers of the       *)
(* registered set of controllers run and no others, and that set is none   *)
(* of those parked: refreshing a cluster at another API server             *)
(* (updateCacheController) and deleting one (deleteCacheController) close  *)
(* the stop channel of the set they replace, and only of that one.         *)
(***************************************************************************)
THEOREM WatchedOnce == Spec => []OneWatch
<1>1. WatchInv => OneWatch
  BY DEF WatchInv
<1>2. QED
  BY <1>1, WatchInit, WatchStep, PTL DEF Spec

-----------------------------------------------------------------------------
(***************************************************************************)
(* The registry follows the secrets.  What the worker has still to do is   *)
(* in the queue or in its task; a cluster of which nothing is still to be  *)
(* done is as its secret says.                                             *)
(***************************************************************************)

\* Nothing is left to be done
Settled == up /\ queue = {} /\ task = Idle

\* The safety part of RegistryFollows
SettledMatches == Settled => \A c \in Clusters \ irregular : Matches(c)

Handling(s) == task # Idle /\ task.secret = s

\* The cluster is registered as secret s says
Current(c, s) ==
    \/ secrets[s][c] = Unusable
    \/ store[c] = s /\ remote[c] # None /\ remote[c].host = secrets[s][c]

\* A task has read the secret as it is now, or the secret is queued again
TaskFresh ==
    task # Idle => /\ task.secret \in queue \/ task.data = secrets[task.secret]
                   /\ task.data # None => task.left \subseteq Listed(task.data)
                   /\ task.data = None => \A c \in task.left : store[c] = task.secret

\* A cluster that one secret lists is not held for another one
NotShared ==
    \A c \in Clusters \ irregular, s, t \in Secrets :
       s # t /\ c \in Listed(secrets[s]) => c \notin Listed(secrets[t]) \cup Held(t)

\* Every cluster of a secret is registered or will be
ListedSoon ==
    \A c \in Clusters \ irregular, s \in Secrets :
       c \in Listed(secrets[s]) =>
          \/ s \in queue \/ Current(c, s)
          \/ Handling(s) /\ task.data = secrets[s] /\ c \in task.left

\* Every cluster that is held for a secret is in it, or will be deleted
HeldListed ==
    \A c \in Clusters \ irregular, s \in Secrets :
       c \in Held(s) =>
          \/ c \in Listed(secrets[s])
          \/ secrets[s] = None /\ s \in queue
          \/ secrets[s] = None /\ Handling(s) /\ task.data = None /\ c \in task.left

FollowInv ==
    up => TaskFresh /\ NotShared /\ ListedSoon /\ HeldListed

\* What the worker's step for one cluster does to its task
LEMMA HandledTask ==
    ASSUME TypeOK, NEW c \in Clusters, Turn(c), Handled(c)
    PROVE  /\ task # Idle /\ task' # Idle /\ c \in task.left /\ task.secret \in Secrets
           /\ task'.secret = task.secret /\ task'.data = task.data
           /\ task'.left = task.left \ {c}
<1>1. task \in Task /\ task # Idle /\ c \in task.left /\ task' = [task EXCEPT !.left = @ \ {c}]
  BY TaskType DEF Turn, Handled
<1>2. QED
  BY <1>1, RegistryAssumption DEF Task, Idle

\* A step about cluster c keeps what concerns the other clusters
LEMMA OtherClusters ==
    ASSUME TypeOK, TaskFresh, NotShared, ListedSoon, HeldListed,
           NEW c \in Clusters, Turn(c), Handled(c),
           UNCHANGED <<secrets, queue>>, irregular \subseteq irregular',
           \A d \in Clusters \ {c} : store'[d] = store[d] /\ remote'[d] = remote[d]
    PROVE  /\ TaskFresh'
           /\ \A d \in Clusters \ irregular', s, t \in Secrets :
                d # c /\ s # t /\ d \in Listed(secrets[s]) =>
                   d \notin Listed(secrets[t]) \cup Held(t)'
           /\ \A d \in Clusters \ irregular', s \in Secrets :
                d # c /\ d \in Listed(secrets[s]) =>
                   \/ s \in queue \/ Current(d, s)'
                   \/ Handling(s)' /\ task'.data = secrets[s] /\ d \in task'.left
           /\ \A d \in Clusters \ irregular', s \in Secrets :
                d # c /\ d \in Held(s)' =>
                   \/ d \in Listed(secrets[s])
                   \/ secrets[s] = None /\ s \in queue
                   \/ secrets[s] = None /\ Handling(s)' /\ task'.data = None /\ d \in task'.left
<1>1. /\ task # Idle /\ task' # Idle /\ c \in task.left
      /\ task'.secret = task.secret /\ task'.data = task.data
      /\ task'.left = task.left \ {c}
  BY HandledTask
<1>2. task.left \subseteq Clusters
  BY <1>1, TaskType DEF Task
<1>3. TaskFresh'
  BY <1>1, <1>2 DEF TaskFresh, Listed
<1>4. \A s \in Secrets, d \in Clusters : d # c /\ d \in Held(s)' => d \in Held(s)
  BY <1>1 DEF Held
<1>5. QED
  BY <1>1, <1>3, <1>4 DEF NotShared, ListedSoon, HeldListed, Current, Handling

LEMMA FollowStep == WatchInv /\ FollowInv /\ [Next]_vars => FollowInv'
<1> SUFFICES ASSUME WatchInv, FollowInv, [Next]_vars, up'
             PROVE  TaskFresh' /\ NotShared' /\ ListedSoon' /\ HeldListed'
  BY DEF FollowInv
<1>0. TypeOK /\ DownIsEmpty /\ RemoteSound /\ None \notin Secrets
  BY RegistryAssumption DEF WatchInv
<1>a. up => TaskFresh /\ NotShared /\ ListedSoon /\ HeldListed
  BY DEF FollowInv
<1>1. CASE Boot
  <2>1. /\ queue' = {s \in Secrets : secrets[s] # None} /\ irregular' = Twice(secrets)
        /\ task' = Idle /\ secrets' = secrets /\ \A c \in Clusters : store'[c] = None
    BY <1>1, <1>0 DEF Boot, DownIsEmpty
  <2>2. \A s \in Secrets : Held(s)' = {}
    BY <2>1, <1>0 DEF Held
  <2>3. NotShared'
    BY <2>1, <2>2 DEF NotShared, Twice, Listed
  <2>4. ListedSoon' /\ HeldListed' /\ TaskFresh'
    BY <2>1, <2>2 DEF ListedSoon, HeldListed, TaskFresh, Listed
  <2>5. QED
    BY <2>3, <2>4
<1>2. CASE Stop
  BY <1>2 DEF Stop, Gone
<1>3. ASSUME NEW s \in Secrets, Take(s)
      PROVE  TaskFresh' /\ NotShared' /\ ListedSoon' /\ HeldListed'
  <2>1. /\ up /\ task = Idle /\ s \in queue /\ queue' = queue \ {s}
        /\ task' = [secret |-> s, data |-> secrets[s],
                    left |-> IF secrets[s] # None THEN Listed(secrets[s])
                             ELSE {c \in Clusters : store[c] = s}]
        /\ UNCHANGED <<secrets, store, remote, irregular>>
    BY <1>3 DEF Take
  <2>2. /\ task'.secret = s /\ task'.data = secrets[s] /\ task' # Idle
        /\ task'.left = IF secrets[s] # None THEN Listed(secrets[s])
                        ELSE {c \in Clusters : store[c] = s}
    BY <2>1, <1>0 DEF Idle
  <2>3. TaskFresh'
    BY <2>1, <2>2 DEF TaskFresh, Listed
  <2>4. \A t \in Secrets : Held(t)' \subseteq Held(t) \cup Listed(secrets[t])
    BY <2>1, <2>2 DEF Held
  <2>5. NotShared'
    BY <2>1, <2>4, <1>a DEF NotShared, Listed
  <2>6. ListedSoon'
    BY <2>1, <2>2, <1>a DEF ListedSoon, Listed, Current, Handling
  <2>7. HeldListed'
    BY <2>1, <2>2, <2>4, <1>a DEF HeldListed, Listed, Held, Handling
  <2>8. QED
    BY <2>3, <2>5, <2>6, <2>7
<1>4. ASSUME NEW c \in Clusters,
             AddCluster(c) \/ LeaveCluster(c) \/ RefreshCluster(c) \/ DeleteCluster(c)
      PROVE  TaskFresh' /\ NotShared' /\ ListedSoon' /\ HeldListed'
  <2> DEFINE s == task.secret
  <2>1. /\ Turn(c) /\ Handled(c) /\ UNCHANGED <<secrets, queue>> /\ up
    BY <1>4, <1>0 DEF AddCluster, LeaveCluster, RefreshCluster, DeleteCluster, Turn, DownIsEmpty
  <2>2. /\ irregular \subseteq irregular'
        /\ \A d \in Clusters \ {c} : store'[d] = store[d] /\ remote'[d] = remote[d]
    BY <1>4, <1>0 DEF AddCluster, LeaveCluster, RefreshCluster, DeleteCluster, Start, Started,
                      StartFailed, TypeOK
  <2>3. /\ task # Idle /\ task' # Idle /\ c \in task.left /\ s \in Secrets
        /\ task'.secret = s /\ task'.data = task.data
        /\ task'.left = task.left \ {c}
    BY <2>1, <1>0, HandledTask
  <2>4. /\ s \in queue \/ task.data = secrets[s]
        /\ task.data # None => c \in Listed(task.data)
        /\ task.data = None => store[c] = s
    BY <2>1, <2>3, <1>a DEF TaskFresh
  \* Whatever is done for c, it comes to be held for nobody else
  <2>5. /\ store'[c] \in {store[c], s, None}
        /\ \A t \in Secrets : c \in Held(t)' => c \in Held(t)
    <3>1. store'[c] \in {store[c], s, None}
      BY <1>4, <1>0 DEF AddCluster, LeaveCluster, RefreshCluster, DeleteCluster, TypeOK
    <3>2. QED
      BY <3>1, <2>3, <1>0 DEF Held
  <2>6. ASSUME c \notin irregular', NEW t \in Secrets, c \in Listed(secrets[t])
        PROVE  t \in queue \/ Current(c, t)'
    <3>1. c \notin irregular
      BY <2>2, <2>6
    <3>2. \A r \in Secrets \ {t} : c \notin Held(r)
      BY <2>1, <2>6, <3>1, <1>a DEF NotShared
    <3>3. t = s
      BY <2>3, <3>2 DEF Held
    <3>4. store[c] \in {None, s}
      BY <3>2, <3>3, <1>0 DEF Held, TypeOK
    <3>5. CASE task.data = secrets[s] /\ task.data # None
      <4>1. CASE AddCluster(c) \/ RefreshCluster(c)
        <5>1. /\ store'[c] = s /\ task.data[c] \in Hosts
              /\ Started(c, task.data[c], watching) \/ Started(c, task.data[c], WithoutOld(c))
          BY <4>1, <2>6, <1>0 DEF AddCluster, RefreshCluster, Start, StartFailed, TypeOK
        <5>2. remote'[c] = NewSet(c, task.data[c])
          BY <5>1, <1>0 DEF Started, TypeOK
        <5>3. remote'[c] # None /\ remote'[c].host = secrets'[s][c]
          BY <5>1, <5>2, <3>5, <2>1, <1>0, NewSetType
        <5>4. QED
          BY <5>1, <5>3, <3>3 DEF Current
      <4>2. CASE LeaveCluster(c)
        BY <4>2, <3>3, <3>4, <3>5, <2>1 DEF LeaveCluster, Current
      <4>3. QED
        BY <4>1, <4>2, <3>5, <1>4 DEF DeleteCluster
    <3>6. QED
      BY <2>4, <2>6, <3>3, <3>5 DEF Listed
  <2>7. ASSUME c \notin irregular', NEW t \in Secrets, c \in Held(t)'
        PROVE  c \in Listed(secrets[t]) \/ (secrets[t] = None /\ t \in queue)
    <3>1. c \in Held(t) /\ c \notin irregular
      BY <2>2, <2>5, <2>7
    <3>2. \/ c \in Listed(secrets[t])
          \/ secrets[t] = None /\ t \in queue
          \/ secrets[t] = None /\ t = s /\ task.data = None
      BY <2>1, <3>1, <1>a DEF HeldListed, Handling
    <3>3. ASSUME t = s, task.data = None
          PROVE  c \notin Held(t)'
      BY <3>3, <1>4, <2>3, <1>0
         DEF AddCluster, LeaveCluster, RefreshCluster, DeleteCluster, Held, TypeOK
    <3>4. QED
      BY <2>7, <3>2, <3>3
  <2>8. /\ TaskFresh'
        /\ \A d \in Clusters \ irregular', r, t \in Secrets :
             d # c /\ r # t /\ d \in Listed(secrets[r]) =>
                d \notin Listed(secrets[t]) \cup Held(t)'
        /\ \A d \in Clusters \ irregular', r \in Secrets :
             d # c /\ d \in Listed(secrets[r]) =>
                \/ r \in queue \/ Current(d, r)'
                \/ Handling(r)' /\ task'.data = secrets[r] /\ d \in task'.left
        /\ \A d \in Clusters \ irregular', r \in Secrets :
             d # c /\ d \in Held(r)' =>
                \/ d \in Listed(secrets[r])
                \/ secrets[r] = None /\ r \in queue
                \/ secrets[r] = None /\ Handling(r)' /\ task'.data = None /\ d \in task'.left
    BY <2>1, <2>2, <1>0, <1>a, OtherClusters
  <2>9. NotShared'
    BY <2>1, <2>2, <2>5, <2>8, <1>a DEF NotShared, Listed
  <2>10. ListedSoon'
    BY <2>1, <2>6, <2>8 DEF ListedSoon, Listed
  <2>11. HeldListed'
    BY <2>1, <2>7, <2>8 DEF HeldListed, Listed
  <2>12. QED
    BY <2>8, <2>9, <2>10, <2>11
<1>5. ASSUME NEW c \in Clusters, Panic(c)
      PROVE  FALSE
  BY <1>5 DEF Panic, Gone
<1>9. CASE Finish
  <2>1. /\ up /\ task # Idle /\ task.left = {} /\ task' = Idle
        /\ UNCHANGED <<secrets, queue, store, remote, irregular>>
    BY <1>9, <1>0 DEF Finish, DownIsEmpty
  <2>2. \A t \in Secrets : Held(t)' \subseteq Held(t)
    BY <2>1 DEF Held
  <2>3. TaskFresh' /\ NotShared' /\ ListedSoon' /\ HeldListed'
    BY <2>1, <2>2, <1>a DEF TaskFresh, NotShared, ListedSoon, HeldListed, Listed, Current, Handling
  <2>4. QED
    BY <2>3
<1>10. ASSUME NEW s \in Secrets, Change(s)
       PROVE  TaskFresh' /\ NotShared' /\ ListedSoon' /\ HeldListed'
  <2>1. PICK data \in Contents \cup {None} :
          /\ secrets' = [secrets EXCEPT ![s] = data]
          /\ irregular' = irregular \cup Twice([secrets EXCEPT ![s] = data])
               \cup (Listed(data) \cap UNION {Held(t) : t \in Secrets \ {s}})
               \cup (IF data = None THEN {} ELSE Held(s) \ Listed(data))
    BY <1>10 DEF Change
  <2>2. /\ up /\ queue' = queue \cup {s}
        /\ UNCHANGED <<task, store, remote>>
    BY <1>10 DEF Change
  <2>3. /\ secrets'[s] = data /\ \A t \in Secrets \ {s} : secrets'[t] = secrets[t]
        /\ \A t \in Secrets : Held(t)' = Held(t)
    BY <2>1, <2>2, <1>0 DEF TypeOK, Held
  <2>4. TaskFresh'
    <3>1. task # Idle => task.secret \in Secrets
      BY <1>0 DEF TypeOK, Task
    <3>2. QED
      BY <2>2, <2>3, <3>1, <1>a DEF TaskFresh, Listed
  <2>5. NotShared'
    <3> SUFFICES ASSUME NEW c \in Clusters \ irregular', NEW r \in Secrets, NEW t \in Secrets,
                        r # t, c \in Listed(secrets'[r])
                 PROVE  c \notin Listed(secrets'[t]) /\ c \notin Held(t)
      BY <2>3 DEF NotShared, Listed
    <3>1. c \notin Listed(secrets'[t])
      BY <2>1 DEF Twice, Listed
    <3>2. CASE r = s
      BY <2>1, <2>3, <3>1, <3>2
    <3>3. CASE r # s
      BY <2>1, <2>2, <2>3, <3>1, <3>3, <1>a DEF NotShared, Listed
    <3>4. QED
      BY <3>1, <3>2, <3>3
  <2>6. ListedSoon'
    BY <2>1, <2>2, <2>3, <1>a DEF ListedSoon, Listed, Current, Handling
  <2>7. HeldListed'
    <3> SUFFICES ASSUME NEW c \in Clusters \ irregular', NEW t \in Secrets, c \in Held(t)
                 PROVE  \/ c \in Listed(secrets'[t])
                        \/ secrets'[t] = None /\ t \in queue'
                        \/ secrets'[t] = None /\ Handling(t) /\ task.data = None /\ c \in task.left
      BY <2>2, <2>3 DEF HeldListed, Listed, Handling
    <3>1. CASE t = s
      BY <2>1, <2>2, <2>3, <3>1
    <3>2. CASE t # s
      BY <2>1, <2>2, <2>3, <3>2, <1>a DEF HeldListed, Listed, Handling
    <3>3. QED
      BY <3>1, <3>2
  <2>8. QED
    BY <2>4, <2>5, <2>6, <2>7
<1>11. CASE UNCHANGED vars
  BY <1>11, <1>a DEF vars, TaskFresh, NotShared, ListedSoon, HeldListed, Listed, Current, Handling, Held
<1>12. QED
  BY <1>1, <1>2, <1>3, <1>4, <1>5, <1>9, <1>10, <1>11 DEF Next, Work

LEMMA FollowInit == Init => FollowInv
  BY DEF Init, FollowInv

(***************************************************************************)
(* When no secret is queued or being handled, the registry has exactly the *)
(* clusters of the secrets, at the API servers the secrets lead to, except *)
(* for those that are irregular: no order of changes and no refresh leaves *)
(* a cluster registered that no secret lists, or one out that a secret     *)
(* does.  It is what RegistryFollows says once the worker has caught up.   *)
(***************************************************************************)
THEOREM RegistryCaughtUp == Spec => []SettledMatches
<1>1. WatchInv /\ FollowInv => SettledMatches
  <2> SUFFICES ASSUME WatchInv, FollowInv, Settled, NEW c \in Clusters \ irregular
               PROVE  Matches(c)
    BY DEF SettledMatches
  <2>1. /\ NotShared /\ ListedSoon /\ HeldListed /\ queue = {} /\ task = Idle
        /\ TypeOK /\ RemoteSound
    BY DEF WatchInv, FollowInv, Settled
  <2>2. ASSUME NEW s \in Secrets, c \in Listed(secrets[s])
        PROVE  Matches(c)
    <3>1. secrets[s] # None /\ secrets[s][c] # None
      BY <2>2 DEF Listed
    <3>2. Current(c, s)
      BY <2>1, <2>2 DEF ListedSoon, Handling
    <3>3. \A t \in Secrets \ {s} : secrets[t] = None \/ secrets[t][c] = None
      BY <2>1, <2>2 DEF NotShared, Listed
    <3>4. {secrets[t][c] : t \in {r \in Secrets : secrets[r] # None}} \ {None} = {secrets[s][c]}
      BY <3>1, <3>3
    <3>5. QED
      BY <3>2, <3>4 DEF Current, Matches
  <2>3. ASSUME \A s \in Secrets : c \notin Listed(secrets[s])
        PROVE  Matches(c)
    <3>1. \A s \in Secrets : c \notin Held(s)
      BY <2>1, <2>3 DEF HeldListed, Handling
    <3>2. remote[c] = None
      BY <2>1, <3>1 DEF Held, RemoteSound, TypeOK
    <3>3. {secrets[t][c] : t \in {r \in Secrets : secrets[r] # None}} \ {None} = {}
      BY <2>3 DEF Listed
    <3>4. QED
      BY <3>2, <3>3 DEF Matches
  <2>4. QED
    BY <2>2, <2>3
<1>2. QED
  BY <1>1, WatchInit, WatchStep, FollowInit, FollowStep, PTL DEF Spec
=============================================================================
