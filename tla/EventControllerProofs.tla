------------------------ MODULE EventControllerProofs ------------------------
(***************************************************************************)
(* Proofs about EventController, for any deployments, number of workers    *)
(* and retries, budgets of the environment and order of the versions: type *)
(* correctness; the order of events and their survival in behaviours in    *)
(* which workers take turns and comparisons of versions come out as those  *)
(* of the numbers; deletions that are final where workers take turns; and, *)
(* if a slot belongs to one deployment, that what counts as processed has  *)
(* reached the mesh.                                                       *)
(***************************************************************************)
EXTENDS EventController, SequenceTheorems, TLAPS

\* At most one worker holds an item
Sole == \A u, w \in Workers : work[u] # Idle /\ work[w] # Idle => u = w

\* No comparison of versions went against the numbers
Numeric == "order" \notin astray

\* The handler that writes has read something
SomethingSeen == \A w \in Workers : work[w].pc = "write" => work[w].seen # NoObj

TypeInv == TypeOK /\ SomethingSeen /\ (InTurn => Sole)

-----------------------------------------------------------------------------
(* The order of what the controller has heard of                           *)

\* The revision of the API server
Top == FirstVersion + spent.writes

\* A version that the informer has been told of: none that it has not been told
\* of yet is older
Told(rv) == rv <= Top /\ \A k \in 1 .. Len(watch) : rv <= watch[k].obj.rv

\* obj is not older than the deployment o as far as that matters: if they are the
\* same deployment, or obj has been deleted
Follows(type, obj, o) == obj.name = o.name \/ type = "Delete" => o.rv <= obj.rv

WatchSorted ==
    /\ \A k \in 1 .. Len(watch) : watch[k].obj.rv <= Top
    /\ \A j, k \in 1 .. Len(watch) : j <= k => watch[j].obj.rv <= watch[k].obj.rv

\* The objects the controller still has
Held ==
    {queue[k].obj : k \in 1 .. Len(queue)} \cup {delayed[k].obj : k \in 1 .. Len(delayed)}
      \cup {work[w].item.obj : w \in {v \in Workers : work[v] # Idle}} \cup ({Cached} \ {NoObj})

HeldTold ==
    /\ \A o \in Held : Told(o.rv)
    /\ \A n \in Names : store[n] # NoObj =>
          /\ store[n].name = n /\ Told(store[n].rv)
          /\ \A o \in Held : o.name = n => o.rv <= store[n].rv

\* The queued event item comes after everything that precedes it and that a
\* worker and the cache hold
InOrder(item, k) ==
    /\ \A j \in 1 .. k : Follows(item.type, item.obj, queue[j].obj)
    /\ \A w \in Workers : work[w] # Idle => Follows(item.type, item.obj, work[w].item.obj)
    /\ Cached # NoObj => Follows(item.type, item.obj, Cached)

\* Events that have not been tried yet are in order; the others have been
QueueOrdered ==
    /\ \A k \in 1 .. Len(queue) : queue[k].requeues = 0 => InOrder(queue[k], k)
    /\ \A k \in 1 .. Len(delayed) : delayed[k].requeues > 0

\* What a worker works on is not older than what is cached
Current(task) ==
    /\ task.item.obj.ign => ~task.err /\ task.pc \in {"cache", "status", "finish"}
    /\ task.pc = "cache" => ~task.err
    /\ task.pc = "cache" /\ task.item.requeues > 0 /\ Cached # NoObj =>
         Cached.rv <= task.item.obj.rv
    /\ task.pc = "cache" /\ task.item.requeues = 0 /\ Cached # NoObj =>
         Follows(task.item.type, task.item.obj, Cached)
    /\ task.pc # "cache" /\ ~task.item.obj.ign /\ Cached # NoObj =>
         Cached.rv <= task.item.obj.rv

WorkCurrent == \A w \in Workers : work[w] # Idle => Current(work[w])

OrderInv == TypeInv /\ WatchSorted /\ HeldTold /\ QueueOrdered /\ WorkCurrent

\* An event that will not be dropped when a worker takes it
Accepted(item) == item.requeues = 0 \/ ShouldRetry(item.obj)

Carried ==
    ProcessStatus = "ProcessingInProgress" =>
        \/ \E k \in 1 .. Len(queue) : Accepted(queue[k])
        \/ \E k \in 1 .. Len(delayed) : Accepted(delayed[k])
        \/ \E w \in Workers : work[w] # Idle /\ (work[w].pc # "finish" \/ work[w].err)

CarryInv == OrderInv /\ (slot # NoItem => known) /\ Carried

-----------------------------------------------------------------------------
(* Type correctness                                                        *)

Objects == Deployment \cup {NoObj}
Slots   == [obj : Objects, status : Statuses] \cup {NoItem}
Changes == [gone : BOOLEAN, obj : Deployment]

LEMMA SpendType ==
    ASSUME TypeOK, NEW kinds, Spend(kinds)
    PROVE  /\ spent' \in Budget
           /\ spent'.writes = IF "writes" \in kinds THEN spent.writes + 1 ELSE spent.writes
           /\ spent'.overlaps = IF "overlaps" \in kinds THEN spent.overlaps + 1 ELSE spent.overlaps
           /\ kinds = {"overlaps"} =>
                /\ spent'.deletes = spent.deletes /\ spent'.ignores = spent.ignores
                /\ spent'.failures = spent.failures /\ spent'.toggles = spent.toggles
<1> DEFINE Fields == {"writes", "deletes", "ignores", "failures", "toggles", "overlaps"}
<1>1. DOMAIN spent = Fields /\ \A k \in Fields : spent[k] \in Nat
  BY DEF TypeOK, Budget
<1>2. spent' = [k \in Fields |-> IF k \in kinds THEN spent[k] + 1 ELSE spent[k]]
  BY <1>1 DEF Spend
<1>3. \A k \in Fields : (IF k \in kinds THEN spent[k] + 1 ELSE spent[k]) \in Nat
  BY <1>1
<1>4. QED
  BY <1>2, <1>3 DEF Budget

LEMMA ItemTypes ==
    ASSUME NEW item \in Item
    PROVE  /\ item.obj \in Deployment /\ item.type \in EventTypes /\ item.requeues \in Nat
           /\ item.obj.rv \in Nat /\ item.obj.name \in Names /\ item.obj.ign \in BOOLEAN
  BY DEF Item, Deployment

\* What the cache holds
LEMMA CachedType ==
    ASSUME TypeOK
    PROVE  /\ Cached \in Objects /\ (Cached # NoObj => Cached \in Deployment)
           /\ (slot # NoItem => slot = [obj |-> slot.obj, status |-> slot.status]
                                /\ slot.status \in Statuses)
<1>1. slot # NoItem => slot \in [obj : Objects, status : Statuses]
  BY DEF TypeOK, Objects
<1>2. QED
  BY <1>1 DEF Cached, Objects

\* A new status leaves the cached deployment alone
LEMMA StatusStep ==
    ASSUME TypeOK, NEW status \in Statuses, UpdateProcessStatus(status)
    PROVE  /\ known' = known /\ slot' \in Slots /\ Cached' = Cached
           /\ (known => ProcessStatus' = status)
           /\ (~known => ProcessStatus' = ProcessStatus)
           /\ slot' # NoItem => slot # NoItem \/ known
<1>1. known' = known /\ slot' = IF known THEN [obj |-> Cached, status |-> status] ELSE slot
  BY DEF UpdateProcessStatus
<1>2. [obj |-> Cached, status |-> status] # NoItem
  <2>1. [obj |-> Cached, status |-> status].status # "none"
    BY DEF Statuses
  <2>2. NoItem.status = "none"
    BY DEF NoItem
  <2>3. QED
    BY <2>1, <2>2
<1>3. CASE known
  BY <1>1, <1>2, <1>3, CachedType DEF Cached, ProcessStatus, Slots
<1>4. CASE ~known
  BY <1>1, <1>4 DEF TypeOK, Slots, Objects, Cached, ProcessStatus
<1>5. QED
  BY <1>3, <1>4 DEF TypeOK

LEMMA PutStep ==
    ASSUME TypeOK, NEW o \in Deployment, CachePut(o)
    PROVE  known' = TRUE /\ slot' \in Slots /\ slot' # NoItem /\ Cached' = o
<1>1. known' = TRUE /\ slot' = [obj |-> o, status |-> "ProcessingInProgress"]
  BY DEF CachePut
<1>2. slot'.status # "none" /\ NoItem.status = "none"
  BY <1>1 DEF NoItem
<1>3. slot' # NoItem
  BY <1>2
<1>4. QED
  BY <1>1, <1>3 DEF Cached, Slots, Objects, Statuses

LEMMA DeleteStep ==
    ASSUME TypeOK, NEW o, CacheDelete(o)
    PROVE  /\ known' = known /\ slot' \in Slots /\ (slot' # NoItem => slot # NoItem)
           /\ Cached' \in {Cached, NoObj}
  BY DEF CacheDelete, TypeOK, Slots, Objects, Cached

\* The cluster writes a deployment with the next version
LEMMA ClusterWrites ==
    ASSUME TypeOK, Cluster
    PROVE  \E o \in Deployment, gone \in BOOLEAN, kinds \in {{}, {"ignores"}, {"deletes"}} :
              o.rv = Version /\ Write(o, gone, kinds)
<1>1. Version \in Nat
  BY BoundsAssumption DEF Version, TypeOK, Budget
<1>2. PICK n \in Names : Create(n) \/ Change(n) \/ Ignore(n) \/ Destroy(n)
  BY DEF Cluster
<1>3. CASE Create(n)
  <2>1. [name |-> n, rv |-> Version, gen |-> Version, tmpl |-> Version, ign |-> FALSE]
           \in Deployment
    BY <1>1 DEF Deployment
  <2>2. QED
    BY <1>3, <2>1 DEF Create
<1>4. CASE Change(n) \/ Ignore(n) \/ Destroy(n)
  <2>1. PICK d \in Deployment : d = api[n]
    BY <1>4 DEF Change, Ignore, Destroy, TypeOK
  <2>2. /\ [d EXCEPT !.rv = Version] \in Deployment
        /\ [d EXCEPT !.rv = Version, !.gen = Version] \in Deployment
        /\ [d EXCEPT !.rv = Version, !.gen = Version, !.tmpl = Version] \in Deployment
    BY <1>1 DEF Deployment
  <2>3. /\ [d EXCEPT !.rv = Version, !.gen = Version, !.tmpl = Version, !.ign = ~@] \in Deployment
        /\ [d EXCEPT !.rv = Version, !.ign = ~@] \in Deployment
    BY <1>1 DEF Deployment
  <2>4. /\ [d EXCEPT !.rv = Version].rv = Version
        /\ [d EXCEPT !.rv = Version, !.gen = Version].rv = Version
        /\ [d EXCEPT !.rv = Version, !.gen = Version, !.tmpl = Version].rv = Version
        /\ [d EXCEPT !.rv = Version, !.gen = Version, !.tmpl = Version, !.ign = ~@].rv = Version
        /\ [d EXCEPT !.rv = Version, !.ign = ~@].rv = Version
    BY DEF Deployment
  <2>5. CASE Change(n)
    BY <2>1, <2>2, <2>4, <2>5 DEF Change
  <2>6. CASE Ignore(n)
    BY <2>1, <2>3, <2>4, <2>6 DEF Ignore
  <2>7. CASE Destroy(n)
    BY <2>1, <2>2, <2>4, <2>7 DEF Destroy
  <2>8. QED
    BY <1>4, <2>5, <2>6, <2>7
<1>5. QED
  BY <1>2, <1>3, <1>4

LEMMA WriteType ==
    ASSUME TypeOK, NEW o \in Deployment, NEW gone \in BOOLEAN, NEW kinds, Write(o, gone, kinds)
    PROVE  TypeOK'
<1>1. spent' \in Budget
  BY SpendType DEF Write
<1>2. api' \in [Names -> Deployment \cup {NoObj}]
  BY DEF Write, TypeOK, Deployment
<1>3. watch' \in Seq(Changes)
  <2>1. watch \in Seq(Changes) /\ [gone |-> gone, obj |-> o] \in Changes
    BY DEF TypeOK, Changes
  <2>2. \A c \in Changes : Append(watch, c) \in Seq(Changes)
    BY <2>1
  <2>3. QED
    BY <2>1, <2>2 DEF Write
<1>4. QED
  BY <1>1, <1>2, <1>3 DEF Write, TypeOK, Changes, queueVars, cacheVars

\* new is not older than old, and comparing their versions says so
InOrderOf(old, new) == old.rv = new.rv \/ (old.rv <= new.rv /\ ~Misordered(new.rv, old.rv))

\* The deployments UpdateFunc may enqueue
LEMMA LatestType ==
    ASSUME TypeOK, NEW old \in Deployment, NEW new \in Deployment, NEW latest \in LatestObj(old, new)
    PROVE  /\ latest.obj \in Deployment
           /\ InOrderOf(old, new) => latest.obj = new \/ (latest.obj = old /\ old.rv = new.rv)
<1>1. /\ old.rv \in Nat /\ new.rv \in Nat /\ new.name \in Names
  BY DEF Deployment
<1>2. CASE old.rv = new.rv
  BY <1>2 DEF LatestObj
<1>3. CASE old.rv # new.rv /\ VersionLess(new.rv, old.rv)
  <2>1. \/ latest = [obj |-> new, changed |-> TRUE]
        \/ latest = [obj |-> old, changed |-> FALSE]
        \/ api[new.name] # NoObj /\ latest = [obj |-> api[new.name], changed |-> TRUE]
    BY <1>3 DEF LatestObj
  <2>2. api[new.name] # NoObj => api[new.name] \in Deployment
    BY <1>1 DEF TypeOK
  <2>3. ~InOrderOf(old, new)
    BY <1>1, <1>3 DEF InOrderOf, Misordered
  <2>4. QED
    BY <2>1, <2>2, <2>3
<1>4. CASE old.rv # new.rv /\ ~VersionLess(new.rv, old.rv)
  BY <1>4 DEF LatestObj
<1>5. QED
  BY <1>2, <1>3, <1>4

\* What the informer's handlers do to the queue: nothing, or a new event for o
Announces(type, o) ==
    /\ queue' = Append(queue, [type |-> type, obj |-> o, requeues |-> 0])
    /\ informer' = informer \/ informer' = [pc |-> "mode", obj |-> o]

LEMMA UpdateStep ==
    ASSUME TypeOK, NEW old \in Deployment, NEW new \in Deployment, UpdateFunc(old, new)
    PROVE  \/ UNCHANGED <<queue, informer>>
           \/ \E o \in Deployment :
                 /\ Announces("Update", o)
                 /\ InOrderOf(old, new) => o = new \/ (o = old /\ old.rv = new.rv)
<1>1. CASE UNCHANGED <<queue, informer>>
  BY <1>1
<1>2. ASSUME NEW latest \in LatestObj(old, new), Enqueue("Update", latest.obj),
             informer' = [pc |-> "mode", obj |-> latest.obj]
      PROVE  \E o \in Deployment :
                 /\ Announces("Update", o)
                 /\ InOrderOf(old, new) => o = new \/ (o = old /\ old.rv = new.rv)
  <2>1. Announces("Update", latest.obj)
    BY <1>2 DEF Announces, Enqueue, NewItem
  <2>2. QED
    BY <1>2, <2>1, LatestType
<1>3. QED
  BY <1>1, <1>2 DEF UpdateFunc

LEMMA AnnounceStep ==
    ASSUME TypeOK, NEW type \in EventTypes, NEW o \in Deployment, Announces(type, o)
    PROVE  /\ queue' \in Seq(Item) /\ informer' \in Marking \cup {Idle}
           /\ Len(queue') = Len(queue) + 1
           /\ queue'[Len(queue) + 1] = [type |-> type, obj |-> o, requeues |-> 0]
           /\ \A k \in 1 .. Len(queue) : queue'[k] = queue[k]
<1>1. [type |-> type, obj |-> o, requeues |-> 0] \in Item /\ queue \in Seq(Item)
  BY DEF Item, TypeOK
<1>2. PICK x \in Item : x = [type |-> type, obj |-> o, requeues |-> 0] /\ queue' = Append(queue, x)
  BY <1>1 DEF Announces
<1>3. /\ queue' \in Seq(Item) /\ Len(queue') = Len(queue) + 1 /\ queue'[Len(queue) + 1] = x
      /\ \A k \in 1 .. Len(queue) : queue'[k] = queue[k]
  BY <1>1, <1>2
<1>4. informer' \in Marking \cup {Idle}
  BY DEF Announces, TypeOK, Marking
<1>5. QED
  BY <1>2, <1>3, <1>4

\* The change the informer is told of next
LEMMA NotifyStep ==
    ASSUME TypeOK, Notify
    PROVE  \E c \in Changes :
             /\ watch # << >> /\ c = watch[1] /\ watch' = Tail(watch)
             /\ store' = [store EXCEPT ![c.obj.name] = IF c.gone THEN NoObj ELSE c.obj]
             /\ UNCHANGED <<api, delayed, known, slot, work, mesh, readOnly, spent>>
             /\ \/ c.gone /\ Announces("Delete", c.obj)
                \/ ~c.gone /\ Announces("Add", c.obj)
                \/ /\ ~c.gone /\ store[c.obj.name] \in Deployment
                   /\ store[c.obj.name] # NoObj
                   /\ UpdateFunc(store[c.obj.name], c.obj)
                   /\ Misordered(c.obj.rv, store[c.obj.name].rv) => "order" \in astray'
             /\ astray' \in {astray, astray \cup {"order"}} /\ informer = Idle
<1>1. PICK c : c = Head(watch)
  OBVIOUS
<1>2. watch # << >> /\ watch \in Seq(Changes)
  BY DEF Notify, TypeOK, Changes
<1>3. c \in Changes /\ c = watch[1]
  BY <1>1, <1>2
<1>4. c.gone \in BOOLEAN /\ c.obj \in Deployment /\ c.obj.name \in Names
  BY <1>3 DEF Changes, Deployment
<1>5. /\ watch' = Tail(watch) /\ UNCHANGED <<api, delayed, known, slot, work, mesh, readOnly, spent>>
      /\ informer = Idle
      /\ IF c.gone
         THEN /\ store' = [store EXCEPT ![c.obj.name] = NoObj]
              /\ DeleteFunc(c.obj) /\ astray' = astray
         ELSE /\ store' = [store EXCEPT ![c.obj.name] = c.obj]
              /\ IF store[c.obj.name] = NoObj THEN AddFunc(c.obj)
                 ELSE UpdateFunc(store[c.obj.name], c.obj)
              /\ astray' = IF store[c.obj.name] # NoObj
                              /\ Misordered(c.obj.rv, store[c.obj.name].rv)
                           THEN astray \cup {"order"} ELSE astray
  BY <1>1 DEF Notify, cacheVars, Record
<1>6. store[c.obj.name] # NoObj => store[c.obj.name] \in Deployment
  BY <1>4 DEF TypeOK
<1>7. CASE c.gone
  BY <1>2, <1>3, <1>5, <1>7 DEF DeleteFunc, Enqueue, NewItem, Announces
<1>8. CASE ~c.gone
  BY <1>2, <1>3, <1>5, <1>6, <1>8 DEF AddFunc, Enqueue, NewItem, Announces
<1>9. QED
  BY <1>7, <1>8

LEMMA InformerType ==
    ASSUME TypeOK, Notify \/ \E n \in Names : Resync(n)
    PROVE  TypeOK'
<1>1. ASSUME NEW type \in EventTypes, NEW o \in Deployment, Announces(type, o)
      PROVE  queue' \in Seq(Item) /\ informer' \in Marking \cup {Idle}
  BY <1>1, AnnounceStep DEF TypeOK
<1>2. ASSUME NEW old \in Deployment, NEW new \in Deployment, UpdateFunc(old, new)
      PROVE  queue' \in Seq(Item) /\ informer' \in Marking \cup {Idle}
  <2>1. CASE UNCHANGED <<queue, informer>>
    BY <2>1 DEF TypeOK
  <2>2. QED
    BY <1>1, <1>2, <2>1, UpdateStep DEF EventTypes
<1>3. CASE Notify
  <2>1. PICK c \in Changes :
             /\ watch # << >> /\ c = watch[1] /\ watch' = Tail(watch)
             /\ store' = [store EXCEPT ![c.obj.name] = IF c.gone THEN NoObj ELSE c.obj]
             /\ UNCHANGED <<api, delayed, known, slot, work, mesh, readOnly, spent>>
             /\ \/ c.gone /\ Announces("Delete", c.obj)
                \/ ~c.gone /\ Announces("Add", c.obj)
                \/ /\ ~c.gone /\ store[c.obj.name] \in Deployment
                   /\ store[c.obj.name] # NoObj
                   /\ UpdateFunc(store[c.obj.name], c.obj)
             /\ astray' \in {astray, astray \cup {"order"}}
    BY <1>3, NotifyStep
  <2>2. c.obj \in Deployment
    BY DEF Changes
  <2>3. queue' \in Seq(Item) /\ informer' \in Marking \cup {Idle}
    BY <1>1, <1>2, <2>1, <2>2 DEF EventTypes
  <2>4. store' \in [Names -> Deployment \cup {NoObj}]
    BY <2>1, <2>2 DEF TypeOK
  <2>5. watch' \in Seq(Changes)
    BY <2>1 DEF TypeOK, Changes
  <2>6. astray' \in SUBSET Mishaps
    BY <2>1 DEF TypeOK, Mishaps
  <2>7. QED
    BY <2>1, <2>3, <2>4, <2>5, <2>6 DEF TypeOK, Changes
<1>4. CASE \E n \in Names : Resync(n)
  <2>1. PICK n \in Names : /\ store[n] # NoObj /\ UpdateFunc(store[n], store[n])
                           /\ UNCHANGED <<api, watch, store, delayed, known, slot, work, mesh,
                                          readOnly, spent, astray>>
    BY <1>4 DEF Resync, clusterVars, cacheVars
  <2>2. store[n] \in Deployment
    BY <2>1 DEF TypeOK
  <2>3. queue' \in Seq(Item) /\ informer' \in Marking \cup {Idle}
    BY <1>2, <2>1, <2>2
  <2>4. QED
    BY <2>1, <2>3 DEF TypeOK
<1>5. QED
  BY <1>3, <1>4

\* The end of UpdateFuncImpl: at most the status changes
LEMMA MarkStep ==
    ASSUME TypeInv, ReadMode \/ MarkInProgress
    PROVE  /\ UNCHANGED <<api, watch, store, queue, delayed, known, work, mesh, readOnly, spent>>
           /\ slot' \in Slots /\ Cached' = Cached /\ (slot' # NoItem => slot # NoItem \/ known)
           /\ informer' \in Marking \cup {Idle}
           /\ astray' \in {astray, astray \cup {"mark"}}
           /\ \/ slot' = slot
              \/ Pending(NewItem("Update", informer.obj))
              \/ "mark" \in astray'
           /\ ProcessStatus' # ProcessStatus => ProcessStatus' = "ProcessingInProgress"
<1> USE DEF TypeInv
<1>1. informer # Idle /\ informer \in Marking
  BY DEF ReadMode, MarkInProgress, Idle, TypeOK
<1>2. CASE ReadMode
  <2>1. [informer EXCEPT !.pc = "mark"] \in Marking
    BY <1>1 DEF Marking
  <2>2. QED
    BY <1>2, <2>1 DEF ReadMode, clusterVars, queueVars, cacheVars, Cached, ProcessStatus, TypeOK,
                      Slots, Objects
<1>3. CASE MarkInProgress
  <2>1. /\ known' = known /\ slot' \in Slots /\ Cached' = Cached
        /\ (known => ProcessStatus' = "ProcessingInProgress")
        /\ (~known => ProcessStatus' = ProcessStatus)
        /\ slot' # NoItem => slot # NoItem \/ known
    BY <1>3, StatusStep DEF MarkInProgress, Statuses
  <2>2. /\ UNCHANGED <<api, watch, store, queue, delayed, work, mesh, readOnly, spent>>
        /\ informer' = Idle
        /\ astray' = IF ~Pending(NewItem("Update", informer.obj)) THEN astray \cup {"mark"}
                     ELSE astray
    BY <1>3 DEF MarkInProgress, clusterVars, queueVars, Record
  <2>3. known \in BOOLEAN
    BY DEF TypeOK
  <2>4. QED
    BY <2>1, <2>2, <2>3
<1>4. QED
  BY <1>2, <1>3

\* A worker that is at some place in processItem
LEMMA BusyType ==
    ASSUME TypeOK, NEW w \in Workers,
           work[w].pc \in {"cache", "begin", "write", "evict", "status", "finish"}
    PROVE  /\ work[w] \in Busy /\ work[w] # Idle /\ work[w].item \in Item
           /\ work[w].seen \in Objects /\ work[w].err \in BOOLEAN
<1>1. work[w] # Idle
  BY DEF Idle
<1>2. QED
  BY <1>1 DEF TypeOK, Busy, Objects

\* A worker at a place of processItem goes to another, and may have failed
LEMMA GotoStep ==
    ASSUME TypeOK, NEW w \in Workers, work[w] \in Busy,
           NEW pc \in {"cache", "begin", "write", "evict", "status", "finish"}, NEW seen \in Objects,
           NEW err \in BOOLEAN, NEW t, work' = [work EXCEPT ![w] = t],
           t = [pc |-> pc, item |-> work[w].item, seen |-> seen, err |-> err]
    PROVE  work' \in [Workers -> Busy \cup {Idle}]
<1>1. t \in Busy
  BY DEF Busy, Objects
<1>2. QED
  BY <1>1 DEF TypeOK

\* A worker that only changes its place
LEMMA GotoFields ==
    ASSUME TypeOK, NEW w \in Workers, work[w] \in Busy, NEW pc, Goto(w, pc)
    PROVE  work' = [work EXCEPT ![w] = [pc |-> pc, item |-> work[w].item,
                                        seen |-> work[w].seen, err |-> work[w].err]]
<1>1. PICK s \in Busy : s = work[w]
  OBVIOUS
<1>2. [s EXCEPT !.pc = pc] = [pc |-> pc, item |-> s.item, seen |-> s.seen, err |-> s.err]
  BY DEF Busy
<1>3. work' = [work EXCEPT ![w] = [s EXCEPT !.pc = pc]]
  BY <1>1 DEF Goto, TypeOK
<1>4. QED
  BY <1>1, <1>2, <1>3

Meshes == [name : Names, tmpl : Nat] \cup {NoObj}

\* A worker between taking an item and finishing with it: it goes on with the
\* item, and puts the item's deployment into the cache, removes the cached one or
\* leaves it alone
LEMMA BusyStep ==
    ASSUME TypeInv, NEW w \in Workers,
           \/ CacheStep(w) \/ Begin(w) \/ WriteMesh(w) \/ FailWrite(w) \/ Evict(w) \/ SetStatus(w)
    PROVE  /\ work[w] \in Busy /\ work[w] # Idle /\ work[w].pc # "finish"
           /\ UNCHANGED <<api, watch, store, queue, delayed, readOnly, informer, astray>>
           /\ spent' \in Budget /\ spent'.writes = spent.writes /\ spent'.overlaps = spent.overlaps
           /\ slot' \in Slots /\ known' \in BOOLEAN /\ mesh' \in Meshes
           /\ (known => known') /\ (slot' # NoItem => slot # NoItem \/ known')
           /\ \/ Cached' \in {Cached, NoObj}
              \/ work[w].pc = "cache" /\ ~work[w].item.obj.ign /\ Cached' = work[w].item.obj
           /\ \E t \in Busy :
                /\ work' = [work EXCEPT ![w] = t] /\ t.item = work[w].item /\ t.pc # "cache"
                /\ t.pc = "write" => t.seen # NoObj
                /\ t.pc = "finish" => work[w].pc = "status" /\ t.err = work[w].err
                /\ t.item.obj.ign /\ work[w].pc \in {"cache", "status"} =>
                     t.pc \in {"status", "finish"} /\ t.err = work[w].err
                /\ work[w].pc = "cache" /\ ~t.item.obj.ign =>
                     /\ t.pc = "begin" /\ t.err = work[w].err
                     /\ Cached' = IF t.item.type = "Delete" THEN Cached ELSE t.item.obj
                /\ t.pc = "finish" /\ ~t.err /\ (slot # NoItem => known) =>
                     ProcessStatus' # "ProcessingInProgress"
<1>1. PICK s : s = work[w]
  OBVIOUS
<1> USE DEF TypeInv
<1>2. s.pc \in {"cache", "begin", "write", "evict", "status"}
  BY <1>1 DEF CacheStep, Begin, WriteMesh, FailWrite, Evict, SetStatus
<1>3. /\ s \in Busy /\ s # Idle /\ s.item \in Item /\ s.seen \in Objects /\ s.err \in BOOLEAN
      /\ s.item.obj \in Deployment /\ s.item.obj.ign \in BOOLEAN
  BY <1>1, <1>2, BusyType, ItemTypes
<1>4. ASSUME NEW pc \in {"begin", "write", "evict", "status", "finish"}, Goto(w, pc)
      PROVE  \E t \in Busy : /\ work' = [work EXCEPT ![w] = t] /\ t.item = s.item /\ t.pc = pc
                             /\ t.err = s.err
  <2>1. [pc |-> pc, item |-> s.item, seen |-> s.seen, err |-> s.err] \in Busy
    BY <1>3 DEF Busy, Objects
  <2>2. QED
    BY <1>1, <1>3, <1>4, <2>1, GotoFields
<1>5. /\ slot \in Slots /\ mesh \in Meshes /\ spent \in Budget /\ known \in BOOLEAN
  BY DEF TypeOK, Slots, Objects, Meshes
<1>6. UNCHANGED <<api, watch, store, queue, delayed, readOnly, informer, astray>>
  BY DEF CacheStep, Begin, WriteMesh, FailWrite, Evict, SetStatus, clusterVars, queueVars
<1>7. CASE CacheStep(w)
  <2>1. s.pc = "cache" /\ UNCHANGED <<mesh, spent>>
    BY <1>1, <1>7 DEF CacheStep
  <2>2. CASE s.item.obj.ign /\ Goto(w, "status")
             /\ (UNCHANGED cacheVars \/ CacheDelete(s.item.obj))
    <3>1. /\ known' = known /\ slot' \in Slots /\ (slot' # NoItem => slot # NoItem)
          /\ Cached' \in {Cached, NoObj}
      <4>1. CASE UNCHANGED cacheVars
        BY <1>5, <4>1 DEF cacheVars, Cached
      <4>2. CASE CacheDelete(s.item.obj)
        BY <4>2, DeleteStep
      <4>3. QED
        BY <2>2, <4>1, <4>2
    <3>2. PICK t \in Busy : /\ work' = [work EXCEPT ![w] = t] /\ t.item = s.item
                            /\ t.pc = "status" /\ t.err = s.err
      BY <1>4, <2>2
    <3>3. QED
      BY <1>1, <1>3, <1>5, <1>6, <2>1, <2>2, <3>1, <3>2
  <2>3. CASE ~s.item.obj.ign /\ Goto(w, "begin")
             /\ IF s.item.type = "Delete" THEN UNCHANGED cacheVars ELSE CachePut(s.item.obj)
    <3>1. /\ known' \in BOOLEAN /\ slot' \in Slots /\ (known => known')
          /\ (slot' # NoItem => slot # NoItem \/ known')
          /\ Cached' = IF s.item.type = "Delete" THEN Cached ELSE s.item.obj
      <4>1. CASE s.item.type = "Delete" /\ UNCHANGED cacheVars
        BY <1>5, <4>1 DEF cacheVars, Cached
      <4>2. CASE s.item.type # "Delete" /\ CachePut(s.item.obj)
        <5>1. known' = TRUE /\ slot' \in Slots /\ Cached' = s.item.obj
          BY <1>3, <4>2, PutStep
        <5>2. known' \in BOOLEAN /\ known'
          BY <5>1
        <5>3. QED
          BY <4>2, <5>1, <5>2
      <4>3. QED
        BY <2>3, <4>1, <4>2
    <3>2. PICK t \in Busy : /\ work' = [work EXCEPT ![w] = t] /\ t.item = s.item
                            /\ t.pc = "begin" /\ t.err = s.err
      BY <1>4, <2>3
    <3>3. QED
      BY <1>1, <1>3, <1>5, <1>6, <2>1, <2>3, <3>1, <3>2
  <2>4. QED
    BY <1>1, <1>7, <2>2, <2>3 DEF CacheStep
<1>8. CASE Begin(w)
  <2>1. s.pc = "begin" /\ UNCHANGED <<known, slot, mesh, spent>>
    BY <1>1, <1>8 DEF Begin, cacheVars
  <2>2. Cached' = Cached
    BY <2>1 DEF Cached
  <2>3. AfterHandler(w) \in {"evict", "status"} /\ Cached \in Objects
    BY CachedType DEF AfterHandler
  <2>4. PICK t : /\ work' = [work EXCEPT ![w] = t]
                 /\ \/ t = [s EXCEPT !.pc = AfterHandler(w)]
                    \/ t = [s EXCEPT !.pc = "status", !.err = TRUE]
                    \/ Cached # NoObj /\ t = [s EXCEPT !.pc = "write", !.seen = Cached]
    BY <1>1, <1>8 DEF Begin
  <2>5. /\ t \in Busy /\ t.item = s.item /\ t.pc \in {"evict", "status", "write"}
        /\ t.pc = "write" => t.seen # NoObj
    BY <1>3, <2>3, <2>4 DEF Busy, Objects
  <2>6. QED
    BY <1>1, <1>3, <1>5, <1>6, <2>1, <2>2, <2>4, <2>5
<1>9. CASE WriteMesh(w) \/ FailWrite(w)
  <2>1. s.pc = "write" /\ UNCHANGED <<known, slot>>
    BY <1>1, <1>9 DEF WriteMesh, FailWrite, cacheVars
  <2>2. Cached' = Cached
    BY <2>1 DEF Cached
  <2>3. spent' \in Budget /\ spent'.writes = spent.writes /\ spent'.overlaps = spent.overlaps
    BY <1>5, <1>9, SpendType DEF WriteMesh, FailWrite
  <2>4. Desired(w) \in Meshes
    <3>1. s.seen \in Deployment
      BY <1>1, <1>3, <2>1 DEF SomethingSeen, Objects
    <3>2. [name |-> s.seen.name, tmpl |-> s.seen.tmpl] \in Meshes
      BY <3>1 DEF Meshes, Deployment
    <3>3. QED
      BY <1>1, <3>2 DEF Desired, Meshes
  <2>5. PICK t \in Busy : /\ work' = [work EXCEPT ![w] = t] /\ t.item = s.item
                          /\ t.pc \in {"evict", "status"}
    <3>1. CASE WriteMesh(w)
      BY <1>4, <3>1 DEF WriteMesh, AfterHandler
    <3>2. CASE FailWrite(w)
      <4>1. work' = [work EXCEPT ![w] = [s EXCEPT !.pc = "status", !.err = TRUE]]
        BY <1>1, <3>2 DEF FailWrite, TypeOK
      <4>2. [s EXCEPT !.pc = "status", !.err = TRUE] \in Busy
        BY <1>3 DEF Busy
      <4>3. [s EXCEPT !.pc = "status", !.err = TRUE].item = s.item
        BY <1>3 DEF Busy
      <4>4. [s EXCEPT !.pc = "status", !.err = TRUE].pc = "status"
        BY <1>3 DEF Busy
      <4>5. QED
        BY <4>1, <4>2, <4>3, <4>4
    <3>3. QED
      BY <1>9, <3>1, <3>2
  <2>6. mesh' \in Meshes
    BY <1>5, <1>9, <2>4 DEF WriteMesh, FailWrite
  <2>7. QED
    BY <1>1, <1>3, <1>5, <1>6, <2>1, <2>2, <2>3, <2>5, <2>6
<1>10. CASE Evict(w)
  <2>1. s.pc = "evict" /\ UNCHANGED <<mesh, spent>> /\ CacheDelete(s.item.obj) /\ Goto(w, "status")
    BY <1>1, <1>10 DEF Evict
  <2>2. /\ known' = known /\ slot' \in Slots /\ (slot' # NoItem => slot # NoItem)
        /\ Cached' \in {Cached, NoObj}
    BY <2>1, DeleteStep
  <2>3. PICK t \in Busy : work' = [work EXCEPT ![w] = t] /\ t.item = s.item /\ t.pc = "status"
    BY <1>4, <2>1
  <2>4. QED
    BY <1>1, <1>3, <1>5, <1>6, <2>1, <2>2, <2>3
<1>11. CASE SetStatus(w)
  <2>1. s.pc = "status" /\ UNCHANGED <<mesh, spent>> /\ Goto(w, "finish")
    BY <1>1, <1>11 DEF SetStatus
  <2>2. PICK status \in Statuses :
           UpdateProcessStatus(status) /\ (s.err \/ status # "ProcessingInProgress")
    BY <1>1, <1>11 DEF SetStatus, Statuses
  <2>3. /\ known' = known /\ slot' \in Slots /\ (slot' # NoItem => slot # NoItem \/ known)
        /\ Cached' = Cached
    BY <2>2, StatusStep
  <2>7. (known => ProcessStatus' = status) /\ (~known => ProcessStatus' = ProcessStatus)
    BY <2>2, StatusStep
  <2>6. slot = NoItem => ProcessStatus # "ProcessingInProgress"
    BY DEF ProcessStatus
  <2>4. PICK t \in Busy : /\ work' = [work EXCEPT ![w] = t] /\ t.item = s.item
                          /\ t.pc = "finish" /\ t.err = s.err
    BY <1>4, <2>1
  <2>5. QED
    <3>1. ~s.err /\ (slot # NoItem => known) => ProcessStatus' # "ProcessingInProgress"
      BY <2>2, <2>6, <2>7
    <3>2. QED
      BY <1>1, <1>3, <1>5, <1>6, <2>1, <2>3, <2>4, <3>1
<1>12. QED
  BY <1>7, <1>8, <1>9, <1>10, <1>11

\* A worker takes the first item of the queue and drops it or starts on it
LEMMA GetStep ==
    ASSUME TypeInv, NEW w \in Workers, GetItem(w)
    PROVE  /\ work[w] = Idle /\ Len(queue) > 0 /\ queue[1] \in Item
           /\ UNCHANGED <<api, watch, store, delayed, known, slot, mesh, readOnly, informer>>
           /\ spent' \in Budget /\ spent'.writes = spent.writes /\ spent'.overlaps >= spent.overlaps
           /\ InTurn' => spent' = spent /\ \A u \in Workers : work[u] = Idle
           /\ astray' \in {astray, astray \cup {"order"}}
           /\ queue[1].requeues > 0 /\ Misjudged(queue[1].obj) => "order" \in astray'
           /\ queue' \in Seq(Item) /\ Len(queue) = Len(queue') + 1
           /\ \A k \in 1 .. Len(queue') : queue'[k] = queue[k + 1] /\ k + 1 \in 1 .. Len(queue)
           /\ \/ ~Accepted(queue[1]) /\ work' = work
              \/ /\ Accepted(queue[1])
                 /\ \E t \in Busy : /\ work' = [work EXCEPT ![w] = t] /\ t.pc = "cache"
                                    /\ t.item = queue[1] /\ ~t.err
<1>1. queue \in Seq(Item) /\ queue # << >> /\ queue' = Tail(queue) /\ work[w] = Idle
  BY DEF GetItem, TypeInv, TypeOK
<1>2. PICK x : x = Head(queue)
  OBVIOUS
<1>3. x \in Item /\ x = queue[1] /\ x.requeues \in Nat
  BY <1>1, <1>2, ItemTypes
<1>4. /\ Len(queue) > 0 /\ queue' \in Seq(Item) /\ Len(queue) = Len(queue') + 1
      /\ \A k \in 1 .. Len(queue') : queue'[k] = queue[k + 1] /\ k + 1 \in 1 .. Len(queue)
  BY <1>1
<1>5. /\ UNCHANGED <<api, watch, store, delayed, known, slot, mesh, readOnly, informer>>
      /\ astray' \in {astray, astray \cup {"order"}}
      /\ x.requeues > 0 /\ Misjudged(x.obj) => "order" \in astray'
  BY <1>2 DEF GetItem, clusterVars, cacheVars, Record
<1>11. /\ spent' \in Budget /\ spent'.writes = spent.writes /\ spent'.overlaps >= spent.overlaps
       /\ InTurn' => spent' = spent /\ \A u \in Workers : work[u] = Idle
  <2>1. spent \in Budget /\ spent.overlaps \in Nat /\ spent.writes \in Nat
    BY DEF TypeInv, TypeOK, Budget
  <2>2. CASE /\ \A u \in Workers : work[u] = Idle
             /\ spent' = spent
    BY <2>1, <2>2
  <2>3. CASE Spend({"overlaps"})
    <3>1. /\ spent' \in Budget /\ spent'.writes = spent.writes
          /\ spent'.overlaps = spent.overlaps + 1
      BY <2>3, SpendType DEF TypeInv
    <3>2. QED
      BY <2>1, <3>1 DEF InTurn
  <2>4. QED
    BY <2>2, <2>3 DEF GetItem
<1>6. IF x.requeues > 0 /\ ~ShouldRetry(x.obj) THEN UNCHANGED work
      ELSE work' = [work EXCEPT ![w] = [pc |-> "cache", item |-> x, seen |-> NoObj, err |-> FALSE]]
  BY <1>2 DEF GetItem
<1>7. [pc |-> "cache", item |-> x, seen |-> NoObj, err |-> FALSE] \in Busy
  BY <1>3 DEF Busy
<1>8. x.requeues > 0 /\ ~ShouldRetry(x.obj) <=> ~Accepted(x)
  BY <1>3 DEF Accepted
<1>9. \/ ~Accepted(x) /\ work' = work
      \/ /\ Accepted(x)
         /\ \E t \in Busy : /\ work' = [work EXCEPT ![w] = t] /\ t.pc = "cache"
                            /\ t.item = x /\ ~t.err
  <2>1. CASE Accepted(x)
    BY <1>6, <1>7, <1>8, <2>1
  <2>2. CASE ~Accepted(x)
    BY <1>6, <1>8, <2>2
  <2>3. QED
    BY <2>1, <2>2
<1>10. QED
  BY <1>1, <1>3, <1>4, <1>5, <1>9, <1>11

\* What becomes of the item a worker is through with: it waits to be retried, or
\* it is forgotten, which happens after a failure only when it is stale or has
\* been retried often enough
LEMMA FinishStep ==
    ASSUME TypeInv, NEW w \in Workers, Finish(w)
    PROVE  /\ work[w] \in Busy /\ work[w] # Idle /\ work[w].pc = "finish"
           /\ UNCHANGED <<api, watch, store, queue, known, mesh, readOnly, spent, informer>>
           /\ astray' \in {astray, astray \cup {"order"}}
           /\ work' = [work EXCEPT ![w] = Idle]
           /\ slot' \in Slots /\ Cached' = Cached /\ (slot' # NoItem => slot # NoItem \/ known)
           /\ \/ ~work[w].err /\ UNCHANGED <<delayed, slot>>
              \/ /\ work[w].err /\ UNCHANGED slot /\ ShouldRetry(work[w].item.obj)
                 /\ Misjudged(work[w].item.obj) => "order" \in astray'
                 /\ \E x \in Item : /\ delayed' = Append(delayed, x)
                                    /\ x.obj = work[w].item.obj /\ x.requeues > 0
                                    /\ x.type = work[w].item.type
              \/ /\ work[w].err /\ UNCHANGED <<delayed, slot>> /\ ~ShouldRetry(work[w].item.obj)
                 /\ Misjudged(work[w].item.obj) => "order" \in astray'
              \/ /\ work[w].err /\ delayed' = delayed
                 /\ (known => ProcessStatus' = "NotProcessed")
                 /\ (~known => ProcessStatus' = ProcessStatus)
<1>1. PICK s : s = work[w]
  OBVIOUS
<1> USE DEF TypeInv
<1>2. s.pc = "finish" /\ UNCHANGED <<api, watch, store, queue, mesh, readOnly, spent, informer>>
      /\ work' = [work EXCEPT ![w] = Idle]
  BY <1>1 DEF Finish, clusterVars, Leave
<1>3. /\ s \in Busy /\ s # Idle /\ s.item \in Item /\ s.err \in BOOLEAN
      /\ s.item.requeues \in Nat
  BY <1>1, <1>2, BusyType, ItemTypes
<1>4. slot \in Slots
  BY DEF TypeOK, Slots, Objects
<1>5. CASE ~s.err /\ UNCHANGED <<delayed, cacheVars, astray>>
  BY <1>1, <1>2, <1>3, <1>4, <1>5 DEF cacheVars, Cached
<1>6. CASE /\ s.err /\ UNCHANGED cacheVars
           /\ delayed' = IF ShouldRetry(s.item.obj)
                         THEN Append(delayed, [s.item EXCEPT !.requeues = @ + 1]) ELSE delayed
           /\ Record("order", Misjudged(s.item.obj))
  <2>7. /\ astray' \in {astray, astray \cup {"order"}}
        /\ Misjudged(s.item.obj) => "order" \in astray'
    BY <1>6 DEF Record
  <2>1. PICK x : x = [s.item EXCEPT !.requeues = @ + 1]
    OBVIOUS
  <2>2. x \in Item /\ x.obj = s.item.obj /\ x.requeues > 0 /\ x.type = s.item.type
    BY <1>3, <2>1 DEF Item
  <2>3. known' = known /\ slot' = slot /\ Cached' = Cached
    BY <1>6 DEF cacheVars, Cached
  <2>4. CASE ShouldRetry(s.item.obj)
    BY <1>1, <1>2, <1>3, <1>4, <1>6, <2>1, <2>2, <2>3, <2>4, <2>7
  <2>5. CASE ~ShouldRetry(s.item.obj)
    BY <1>1, <1>2, <1>3, <1>4, <1>6, <2>3, <2>5, <2>7
  <2>6. QED
    BY <2>4, <2>5
<1>7. CASE s.err /\ UpdateProcessStatus("NotProcessed") /\ UNCHANGED <<delayed, astray>>
  <2>1. /\ known' = known /\ slot' \in Slots /\ Cached' = Cached
        /\ (known => ProcessStatus' = "NotProcessed")
        /\ (~known => ProcessStatus' = ProcessStatus)
        /\ (slot' # NoItem => slot # NoItem \/ known)
    BY <1>7, StatusStep DEF Statuses
  <2>2. QED
    BY <1>1, <1>2, <1>3, <1>7, <2>1
<1>8. QED
  BY <1>1, <1>5, <1>6, <1>7 DEF Finish

\* An item that waited is ready again
LEMMA RequeueStep ==
    ASSUME TypeInv, Requeue
    PROVE  \E i \in 1 .. Len(delayed) :
             /\ UNCHANGED <<api, watch, store, known, slot, work, mesh, readOnly, spent, informer,
                            astray>>
             /\ queue' \in Seq(Item) /\ Len(queue') = Len(queue) + 1
             /\ queue'[Len(queue) + 1] = delayed[i]
             /\ \A k \in 1 .. Len(queue) : queue'[k] = queue[k]
             /\ delayed' \in Seq(Item)
             /\ \A k \in 1 .. Len(delayed') : \E j \in 1 .. Len(delayed) : delayed'[k] = delayed[j]
             /\ \A j \in 1 .. Len(delayed) : j # i =>
                  \E k \in 1 .. Len(delayed') : delayed'[k] = delayed[j]
<1>1. PICK i \in DOMAIN delayed :
        /\ queue' = Append(queue, delayed[i]) /\ delayed' = RemoveAt(delayed, i)
        /\ UNCHANGED <<clusterVars, store, cacheVars, work, mesh, readOnly, spent, informer, astray>>
  BY DEF Requeue
<1>2. delayed \in Seq(Item) /\ queue \in Seq(Item) /\ i \in 1 .. Len(delayed)
  BY DEF TypeInv, TypeOK
<1>3. PICK x \in Item : x = delayed[i] /\ queue' = Append(queue, x)
  BY <1>1, <1>2
<1>4. /\ queue' \in Seq(Item) /\ Len(queue') = Len(queue) + 1 /\ queue'[Len(queue) + 1] = x
      /\ \A k \in 1 .. Len(queue) : queue'[k] = queue[k]
  BY <1>2, <1>3
<1>5. PICK n \in Nat : n = Len(delayed) /\ i \in 1 .. n
  BY <1>2
<1>6. PICK a \in Seq(Item), b \in Seq(Item) :
        /\ a = SubSeq(delayed, 1, i - 1) /\ b = SubSeq(delayed, i + 1, n)
        /\ delayed' = a \o b
  <2>1. SubSeq(delayed, 1, i - 1) \in Seq(Item)
    BY <1>2, <1>5
  <2>2. SubSeq(delayed, i + 1, n) \in Seq(Item)
    BY <1>2, <1>5
  <2>3. QED
    BY <1>1, <1>5, <2>1, <2>2 DEF RemoveAt
<1>7. /\ Len(a) = i - 1 /\ \A k \in 1 .. (i - 1) : a[k] = delayed[k]
      /\ Len(b) = n - i /\ \A k \in 1 .. (n - i) : b[k] = delayed[k + i]
  <2>1. Len(a) = i - 1
    BY <1>2, <1>5, <1>6
  <2>2. \A k \in 1 .. (i - 1) : a[k] = delayed[k]
    BY <1>2, <1>5, <1>6
  <2>3. Len(b) = n - i
    BY <1>2, <1>5, <1>6
  <2>4. ASSUME NEW k \in 1 .. (n - i)
        PROVE  b[k] = delayed[k + i]
    <3>1. PICK m \in Int : m = i + 1
      BY <1>5
    <3>2. k \in 1 .. (n - m + 1) /\ m + k - 1 = k + i /\ n \in Int
      BY <1>5, <3>1
    <3>3. \A j \in m .. n : delayed[j] \in Item
      BY <1>2, <1>5, <3>1
    <3>4. \A j \in 1 .. (n - m + 1) : SubSeq(delayed, m, n)[j] = delayed[m + j - 1]
      BY <3>2, <3>3, SubSeqProperties
    <3>5. QED
      BY <1>6, <3>1, <3>2, <3>4
  <2>5. QED
    BY <2>1, <2>2, <2>3, <2>4
<1>8. /\ delayed' \in Seq(Item) /\ Len(delayed') = n - 1
      /\ \A k \in 1 .. (n - 1) : delayed'[k] = IF k < i THEN delayed[k] ELSE delayed[k + 1]
  <2>1. delayed' \in Seq(Item) /\ Len(delayed') = Len(a) + Len(b)
    BY <1>6
  <2>2. \A k \in 1 .. Len(delayed') : delayed'[k] = IF k <= Len(a) THEN a[k] ELSE b[k - Len(a)]
    BY <1>6, <2>1
  <2>3. ASSUME NEW k \in 1 .. (n - 1)
        PROVE  delayed'[k] = IF k < i THEN delayed[k] ELSE delayed[k + 1]
    <3>1. CASE k < i
      <4>1. k \in 1 .. (i - 1) /\ k \in 1 .. Len(delayed') /\ k <= Len(a)
        BY <1>5, <1>7, <2>1, <3>1
      <4>2. QED
        BY <1>7, <2>2, <3>1, <4>1
    <3>2. CASE ~(k < i)
      <4>1. /\ k - (i - 1) \in 1 .. (n - i) /\ (k - (i - 1)) + i = k + 1
            /\ k \in 1 .. Len(delayed') /\ ~(k <= Len(a))
        BY <1>5, <1>7, <2>1, <3>2
      <4>2. delayed'[k] = b[k - (i - 1)]
        BY <1>7, <2>2, <4>1
      <4>3. QED
        BY <1>7, <3>2, <4>1, <4>2
    <3>3. QED
      BY <3>1, <3>2
  <2>4. Len(delayed') = n - 1
    <3>1. Len(a) = i - 1 /\ Len(b) = n - i
      BY <1>7
    <3>2. QED
      BY <1>5, <2>1, <3>1
  <2>5. QED
    BY <2>1, <2>3, <2>4
<1>9. \A k \in 1 .. Len(delayed') : \E j \in 1 .. Len(delayed) : delayed'[k] = delayed[j]
  BY <1>5, <1>8
<1>10. ASSUME NEW j \in 1 .. Len(delayed), j # i
       PROVE  \E k \in 1 .. Len(delayed') : delayed'[k] = delayed[j]
  <2>1. CASE j < i
    <3>1. j \in 1 .. (n - 1) /\ j \in 1 .. Len(delayed')
      BY <1>5, <1>8, <1>10, <2>1
    <3>2. delayed'[j] = delayed[j]
      BY <1>8, <2>1, <3>1
    <3>3. QED
      BY <3>1, <3>2
  <2>2. CASE j > i
    <3>1. j - 1 \in 1 .. (n - 1) /\ ~(j - 1 < i) /\ (j - 1) + 1 = j
      BY <1>5, <1>10, <2>2
    <3>2. QED
      BY <1>8, <3>1
  <2>3. QED
    BY <1>5, <1>10, <2>1, <2>2
<1>11. QED
  BY <1>1, <1>2, <1>3, <1>4, <1>8, <1>9, <1>10 DEF clusterVars, cacheVars

\* Once workers did not take turns they never have again; the same for astray
LEMMA TurnKept ==
    ASSUME TypeInv, [Next]_vars
    PROVE  (InTurn' => InTurn) /\ astray \subseteq astray'
<1>1. spent.overlaps \in Nat
  BY DEF TypeInv, TypeOK, Budget
<1>2. CASE UNCHANGED vars
  BY <1>2 DEF vars, InTurn
<1>3. CASE Cluster
  <2>1. PICK o \in Deployment, gone \in BOOLEAN, kinds \in {{}, {"ignores"}, {"deletes"}} :
           Write(o, gone, kinds)
    BY <1>3, ClusterWrites DEF TypeInv
  <2>2. "overlaps" \notin {"writes"} \cup kinds
    OBVIOUS
  <2>3. spent'.overlaps = spent.overlaps /\ astray' = astray
    BY <2>1, <2>2, SpendType DEF Write, TypeInv
  <2>4. QED
    BY <2>3 DEF InTurn
<1>4. CASE Notify
  <2>1. spent' = spent /\ astray' \in {astray, astray \cup {"order"}}
    BY <1>4, NotifyStep DEF TypeInv
  <2>2. QED
    BY <2>1 DEF InTurn
<1>5. CASE \E n \in Names : Resync(n)
  BY <1>5 DEF Resync, InTurn
<1>6. CASE ReadMode \/ MarkInProgress
  <2>1. spent' = spent /\ astray' \in {astray, astray \cup {"mark"}}
    BY <1>6, MarkStep
  <2>2. QED
    BY <2>1 DEF InTurn
<1>7. ASSUME NEW w \in Workers, GetItem(w)
      PROVE  (InTurn' => InTurn) /\ astray \subseteq astray'
  <2>1. (InTurn' => spent' = spent) /\ astray' \in {astray, astray \cup {"order"}}
    BY <1>7, GetStep
  <2>2. QED
    BY <2>1 DEF InTurn
<1>8. ASSUME NEW w \in Workers,
             \/ CacheStep(w) \/ Begin(w) \/ WriteMesh(w) \/ FailWrite(w) \/ Evict(w) \/ SetStatus(w)
      PROVE  (InTurn' => InTurn) /\ astray \subseteq astray'
  <2>1. spent'.overlaps = spent.overlaps /\ astray' = astray
    BY <1>8, BusyStep
  <2>2. QED
    BY <2>1 DEF InTurn
<1>9. ASSUME NEW w \in Workers, Finish(w)
      PROVE  (InTurn' => InTurn) /\ astray \subseteq astray'
  <2>1. spent' = spent /\ astray' \in {astray, astray \cup {"order"}}
    BY <1>9, FinishStep
  <2>2. QED
    BY <2>1 DEF InTurn
<1>10. CASE Requeue
  BY <1>10 DEF Requeue, InTurn
<1>11. CASE ToggleMode
  <2>1. spent'.overlaps = spent.overlaps /\ astray' = astray
    BY <1>11, SpendType DEF ToggleMode, TypeInv
  <2>2. QED
    BY <2>1 DEF InTurn
<1>12. QED
  BY <1>2, <1>3, <1>4, <1>5, <1>6, <1>7, <1>8, <1>9, <1>10, <1>11 DEF Next, Worker, Progress

\* Where workers take turns, the one that makes a step is the only one at work
LEMMA Turn ==
    ASSUME TypeInv, InTurn', NEW w \in Workers, Worker(w)
    PROVE  \A v \in Workers : v # w => work[v] = Idle /\ work'[v] = Idle
<1>1. CASE GetItem(w)
  <2>1. /\ \A u \in Workers : work[u] = Idle
        /\ work' = work \/ \E t \in Busy : work' = [work EXCEPT ![w] = t]
    BY <1>1, GetStep
  <2>2. QED
    BY <2>1 DEF TypeInv, TypeOK
<1>2. CASE ~GetItem(w)
  <2>1. InTurn
    <3>1. [Next]_vars
      BY DEF Next
    <3>2. QED
      BY <3>1, TurnKept
  <2>2. work[w] # Idle /\ \E t : work' = [work EXCEPT ![w] = t]
    <3>1. CASE Finish(w)
      BY <3>1, FinishStep
    <3>2. CASE \/ CacheStep(w) \/ Begin(w) \/ WriteMesh(w) \/ FailWrite(w) \/ Evict(w) \/ SetStatus(w)
      BY <3>2, BusyStep
    <3>3. QED
      BY <1>2, <3>1, <3>2 DEF Worker, Progress
  <2>3. QED
    BY <2>1, <2>2 DEF TypeInv, TypeOK, Sole
<1>3. QED
  BY <1>1, <1>2

LEMMA TypeStep ==
    TypeInv /\ [Next]_vars => TypeInv'
<1> SUFFICES ASSUME TypeInv, [Next]_vars PROVE TypeInv'
  OBVIOUS
<1>0. InTurn' => Sole'
  <2>1. CASE work' = work
    BY <2>1, TurnKept DEF TypeInv, Sole
  <2>2. ASSUME NEW w \in Workers, Worker(w)
        PROVE  InTurn' => Sole'
    BY <2>2, Turn DEF Sole
  <2>3. work' = work \/ \E w \in Workers : Worker(w)
    <3>1. CASE Cluster
      BY <3>1 DEF Cluster, Create, Change, Ignore, Destroy, Write
    <3>2. CASE ReadMode \/ MarkInProgress \/ Notify \/ Requeue \/ ToggleMode
      BY <3>2 DEF ReadMode, MarkInProgress, Notify, Requeue, ToggleMode
    <3>3. CASE \E n \in Names : Resync(n)
      BY <3>3 DEF Resync
    <3>4. CASE UNCHANGED vars
      BY <3>4 DEF vars
    <3>5. QED
      BY <3>1, <3>2, <3>3, <3>4 DEF Next
  <2>4. QED
    BY <2>1, <2>2, <2>3
<1> SUFFICES TypeOK' /\ SomethingSeen'
  BY <1>0 DEF TypeInv
<1>1. CASE UNCHANGED vars
  BY <1>1 DEF vars, TypeInv, TypeOK, SomethingSeen
<1>2. CASE Cluster
  <2>1. PICK o \in Deployment, gone \in BOOLEAN, kinds \in {{}, {"ignores"}, {"deletes"}} :
           Write(o, gone, kinds)
    BY <1>2, ClusterWrites DEF TypeInv
  <2>2. TypeOK' /\ work' = work
    BY <2>1, WriteType DEF TypeInv, Write
  <2>3. QED
    BY <2>2 DEF TypeInv, SomethingSeen
<1>3. CASE Notify \/ \E n \in Names : Resync(n)
  <2>1. TypeOK' /\ work' = work
    BY <1>3, InformerType DEF TypeInv, Notify, Resync
  <2>2. QED
    BY <2>1 DEF TypeInv, SomethingSeen
<1>10. CASE ReadMode \/ MarkInProgress
  <2>1. /\ UNCHANGED <<api, watch, store, queue, delayed, known, work, mesh, readOnly, spent>>
        /\ slot' \in Slots /\ informer' \in Marking \cup {Idle}
        /\ astray' \in {astray, astray \cup {"mark"}}
    BY <1>10, MarkStep
  <2>2. QED
    BY <2>1 DEF TypeInv, TypeOK, SomethingSeen, Slots, Objects, Mishaps
<1>4. ASSUME NEW w \in Workers, GetItem(w)
      PROVE  TypeOK' /\ SomethingSeen'
  <2>1. /\ queue' \in Seq(Item) /\ spent' \in Budget
        /\ astray' \in {astray, astray \cup {"order"}}
        /\ UNCHANGED <<api, watch, store, delayed, known, slot, mesh, readOnly, informer>>
        /\ \/ work' = work
           \/ \E t \in Busy : work' = [work EXCEPT ![w] = t] /\ t.pc = "cache"
    BY <1>4, GetStep
  <2>2. work' \in [Workers -> Busy \cup {Idle}] /\ SomethingSeen'
    BY <2>1 DEF TypeInv, TypeOK, SomethingSeen
  <2>3. QED
    BY <2>1, <2>2 DEF TypeInv, TypeOK, Mishaps
<1>5. ASSUME NEW w \in Workers,
             \/ CacheStep(w) \/ Begin(w) \/ WriteMesh(w) \/ FailWrite(w) \/ Evict(w) \/ SetStatus(w)
      PROVE  TypeOK' /\ SomethingSeen'
  <2>1. /\ UNCHANGED <<api, watch, store, queue, delayed, readOnly, informer, astray>>
        /\ spent' \in Budget /\ slot' \in Slots /\ known' \in BOOLEAN /\ mesh' \in Meshes
        /\ \E t \in Busy : work' = [work EXCEPT ![w] = t] /\ (t.pc = "write" => t.seen # NoObj)
    BY <1>5, BusyStep
  <2>2. work' \in [Workers -> Busy \cup {Idle}] /\ SomethingSeen'
    BY <2>1 DEF TypeInv, TypeOK, SomethingSeen
  <2>3. QED
    BY <2>1, <2>2 DEF TypeInv, TypeOK, Slots, Objects, Meshes
<1>6. ASSUME NEW w \in Workers, Finish(w)
      PROVE  TypeOK' /\ SomethingSeen'
  <2>1. /\ UNCHANGED <<api, watch, store, queue, known, mesh, readOnly, spent, informer>>
        /\ astray' \in {astray, astray \cup {"order"}}
        /\ work' = [work EXCEPT ![w] = Idle] /\ slot' \in Slots
        /\ delayed' = delayed \/ \E x \in Item : delayed' = Append(delayed, x)
    BY <1>6, FinishStep
  <2>2. delayed' \in Seq(Item)
    <3>1. delayed \in Seq(Item) /\ \A x \in Item : Append(delayed, x) \in Seq(Item)
      BY DEF TypeInv, TypeOK
    <3>2. QED
      BY <2>1, <3>1
  <2>3. work' \in [Workers -> Busy \cup {Idle}] /\ SomethingSeen'
    BY <2>1 DEF TypeInv, TypeOK, SomethingSeen, Idle
  <2>4. QED
    BY <2>1, <2>2, <2>3 DEF TypeInv, TypeOK, Slots, Objects, Mishaps
<1>7. CASE Requeue
  BY <1>7, RequeueStep DEF TypeInv, TypeOK, SomethingSeen
<1>8. CASE ToggleMode
  <2>1. spent' \in Budget /\ readOnly' \in BOOLEAN
        /\ UNCHANGED <<api, watch, store, queue, delayed, known, slot, work, mesh, informer, astray>>
    BY <1>8, SpendType DEF ToggleMode, TypeInv, TypeOK, clusterVars, queueVars, cacheVars
  <2>2. QED
    BY <2>1 DEF TypeInv, TypeOK, SomethingSeen
<1>9. QED
  BY <1>1, <1>2, <1>3, <1>4, <1>5, <1>6, <1>7, <1>8, <1>10 DEF Next, Worker, Progress

\* Every variable keeps its type, and a handler never writes the mesh from a
\* deployment it did not find (HandleEventForDeployment returns early without one).
THEOREM EventsTypeCorrect == Spec => []TypeInv
<1>1. Init => TypeInv
  <2>1. SUFFICES ASSUME Init PROVE TypeInv
    OBVIOUS
  <2>2. spent \in Budget /\ work \in [Workers -> Busy \cup {Idle}]
    BY <2>1 DEF Init, Budget
  <2>3. queue \in Seq(Item) /\ delayed \in Seq(Item)
        /\ watch \in Seq([gone : BOOLEAN, obj : Deployment])
    BY <2>1 DEF Init
  <2>4. SomethingSeen
    BY <2>1 DEF Init, SomethingSeen, Idle
  <2>6. Sole
    BY <2>1 DEF Init, Sole
  <2>5. QED
    BY <2>1, <2>2, <2>3, <2>4, <2>6 DEF Init, TypeInv, TypeOK
<1>2. QED
  BY <1>1, TypeStep, PTL DEF Spec

-----------------------------------------------------------------------------
(* The order of events: no older event overwrites what a newer one cached   *)

\* Membership of Held, before and after a step
LEMMA HeldParts ==
    /\ \A k \in 1 .. Len(queue) : queue[k].obj \in Held
    /\ \A k \in 1 .. Len(delayed) : delayed[k].obj \in Held
    /\ \A w \in Workers : work[w] # Idle => work[w].item.obj \in Held
    /\ Cached # NoObj => Cached \in Held
    /\ \A o \in Held' :
         \/ \E k \in 1 .. Len(queue') : o = queue'[k].obj
         \/ \E k \in 1 .. Len(delayed') : o = delayed'[k].obj
         \/ \E w \in Workers : work'[w] # Idle /\ o = work'[w].item.obj
         \/ o = Cached' /\ Cached' # NoObj
<1>1. /\ \A k \in 1 .. Len(queue) : queue[k].obj \in Held
      /\ \A k \in 1 .. Len(delayed) : delayed[k].obj \in Held
  BY DEF Held
<1>2. \A w \in Workers : work[w] # Idle => work[w].item.obj \in Held
  BY DEF Held
<1>3. Cached # NoObj => Cached \in Held
  BY DEF Held
<1>4. \A o \in Held' :
         \/ \E k \in 1 .. Len(queue') : o = queue'[k].obj
         \/ \E k \in 1 .. Len(delayed') : o = delayed'[k].obj
         \/ \E w \in Workers : work'[w] # Idle /\ o = work'[w].item.obj
         \/ o = Cached' /\ Cached' # NoObj
  BY DEF Held
<1>5. QED
  BY <1>1, <1>2, <1>3, <1>4

\* What is held and what is watched are deployments
LEMMA HeldType ==
    ASSUME TypeInv
    PROVE  /\ \A o \in Held : o \in Deployment /\ o.rv \in Nat
           /\ \A k \in 1 .. Len(watch) : watch[k].obj.rv \in Nat
           /\ \A k \in 1 .. Len(queue) : queue[k] \in Item /\ queue[k].requeues \in Nat
           /\ \A k \in 1 .. Len(delayed) : delayed[k] \in Item
           /\ Top \in Nat
<1> USE DEF TypeInv
<1>1. /\ \A k \in 1 .. Len(queue) : queue[k] \in Item
      /\ \A k \in 1 .. Len(delayed) : delayed[k] \in Item
      /\ \A k \in 1 .. Len(watch) : watch[k] \in Changes
  <2>1. queue \in Seq(Item) /\ delayed \in Seq(Item) /\ watch \in Seq(Changes)
    BY DEF TypeOK, Changes
  <2>2. QED
    BY <2>1
<1>2. \A w \in Workers : work[w] # Idle => work[w].item \in Item
  BY DEF TypeOK, Busy
<1>3. \A x \in Item : x.obj \in Deployment /\ x.requeues \in Nat
  BY ItemTypes
<1>4. \A o \in Deployment : o.rv \in Nat
  BY DEF Deployment
<1>5. \A o \in Held : o \in Deployment
  <2>1. Cached # NoObj => Cached \in Deployment
    BY CachedType
  <2>2. QED
    BY <1>1, <1>2, <1>3, <2>1 DEF Held
<1>6. \A c \in Changes : c.obj \in Deployment
  BY DEF Changes
<1>7. Top \in Nat
  BY BoundsAssumption DEF Top, TypeOK, Budget
<1>8. QED
  BY <1>1, <1>3, <1>4, <1>5, <1>6, <1>7

\* A step that holds on to nothing new
LEMMA HeldShrinks ==
    ASSUME WatchSorted, HeldTold, UNCHANGED <<watch, store>>, Top' = Top,
           \A o \in Held' : o \in Held
    PROVE  WatchSorted' /\ HeldTold'
<1>1. WatchSorted'
  BY DEF WatchSorted
<1>2. \A rv : Told(rv)' <=> Told(rv)
  BY DEF Told
<1>3. QED
  BY <1>1, <1>2 DEF HeldTold

\* The informer announces an event that comes after everything that is held
LEMMA AnnounceOrder ==
    ASSUME OrderInv, NEW type \in EventTypes, NEW o \in Deployment, Announces(type, o),
           UNCHANGED <<delayed, work, slot>>, \A x \in Held : Follows(type, o, x)
    PROVE  /\ \A x \in Held' : x \in Held \/ x = o
           /\ QueueOrdered' /\ WorkCurrent'
<1>1. /\ queue' \in Seq(Item) /\ Cached' = Cached /\ Len(queue') = Len(queue) + 1
      /\ queue'[Len(queue) + 1] = [type |-> type, obj |-> o, requeues |-> 0]
      /\ \A k \in 1 .. Len(queue) : queue'[k] = queue[k]
  BY AnnounceStep DEF OrderInv, TypeInv, Cached
<1>2. PICK n \in Nat : n = Len(queue)
  BY DEF OrderInv, TypeInv, TypeOK
<1>3. \A k \in 1 .. Len(queue') : (k \in 1 .. n /\ queue'[k] = queue[k]) \/ k = n + 1
  BY <1>1, <1>2
<1>4. \A x \in Held' : x \in Held \/ x = o
  BY <1>1, <1>2, <1>3, HeldParts
<1>5. WorkCurrent'
  BY <1>1 DEF OrderInv, WorkCurrent, Current, ShouldRetry
<1>6. ASSUME NEW k \in 1 .. Len(queue'), queue'[k].requeues = 0
      PROVE  InOrder(queue[k], k)'
  <2>1. CASE k \in 1 .. n /\ queue'[k] = queue[k]
    <3>1. InOrder(queue[k], k)
      BY <1>2, <1>6, <2>1 DEF OrderInv, QueueOrdered
    <3>2. \A j \in 1 .. k : queue'[j] = queue[j]
      BY <1>1, <1>2, <2>1
    <3>3. QED
      BY <1>1, <2>1, <3>1, <3>2 DEF InOrder
  <2>2. CASE k = n + 1
    <3>1. queue'[k].type = type /\ queue'[k].obj = o
      BY <1>1, <1>2, <2>2
    <3>2. \A j \in 1 .. k : queue'[j].obj \in Held \/ queue'[j].obj = o
      BY <1>1, <1>2, <1>3, <2>2, <3>1, HeldParts
    <3>3. Follows(type, o, o)
      BY DEF Follows, Deployment
    <3>4. QED
      BY <1>1, <3>1, <3>2, <3>3, HeldParts DEF InOrder
  <2>3. QED
    BY <1>3, <2>1, <2>2
<1>7. QED
  BY <1>4, <1>5, <1>6 DEF OrderInv, QueueOrdered

LEMMA WriteOrder ==
    ASSUME OrderInv, NEW o \in Deployment, NEW gone \in BOOLEAN,
           NEW kinds \in {{}, {"ignores"}, {"deletes"}}, o.rv = Version, Write(o, gone, kinds)
    PROVE  WatchSorted' /\ HeldTold' /\ QueueOrdered' /\ WorkCurrent'
<1>1. UNCHANGED <<store, queue, delayed, known, slot, work>>
  BY DEF Write, queueVars, cacheVars
<1>2. Top \in Nat /\ Top' = Top + 1 /\ o.rv = Top + 1
  <2>1. spent'.writes = spent.writes + 1 /\ spent.writes \in Nat
    BY SpendType DEF Write, OrderInv, TypeInv, TypeOK, Budget
  <2>2. QED
    BY <2>1, BoundsAssumption DEF Top, Version
<1>3. PICK n \in Nat : n = Len(watch)
  BY DEF OrderInv, TypeInv, TypeOK
<1>4. /\ Len(watch') = n + 1 /\ watch'[n + 1].obj = o
      /\ \A k \in 1 .. n : watch'[k] = watch[k]
  BY <1>3 DEF Write, OrderInv, TypeInv, TypeOK
<1>5. \A k \in 1 .. n : watch[k].obj.rv \in Nat /\ watch[k].obj.rv <= Top
  BY <1>3, HeldType DEF OrderInv, WatchSorted
<1>6. \A k \in 1 .. (n + 1) : k \in 1 .. n \/ k = n + 1
  OBVIOUS
<1>7. WatchSorted'
  <2>1. \A k \in 1 .. (n + 1) : watch'[k].obj.rv \in Nat /\ watch'[k].obj.rv <= Top + 1
    BY <1>2, <1>4, <1>5, <1>6
  <2>2. ASSUME NEW j \in 1 .. (n + 1), NEW k \in 1 .. (n + 1), j <= k
        PROVE  watch'[j].obj.rv <= watch'[k].obj.rv
    <3>1. CASE k = n + 1
      BY <1>2, <1>4, <2>1, <3>1
    <3>2. CASE k \in 1 .. n
      BY <1>3, <1>4, <2>2, <3>2 DEF OrderInv, WatchSorted
    <3>3. QED
      BY <1>6, <3>1, <3>2
  <2>3. QED
    BY <1>2, <1>4, <2>1, <2>2 DEF WatchSorted
<1>8. HeldTold'
  <2>1. \A rv \in Nat : Told(rv) => Told(rv)'
    BY <1>2, <1>3, <1>4, <1>6 DEF Told
  <2>2. Held' = Held
    BY <1>1 DEF Held, Cached
  <2>3. \A n_1 \in Names : store[n_1] # NoObj => store[n_1].rv \in Nat
    BY DEF OrderInv, TypeInv, TypeOK, Deployment
  <2>4. QED
    BY <1>1, <2>1, <2>2, <2>3, HeldType DEF OrderInv, HeldTold
<1>9. QueueOrdered' /\ WorkCurrent'
  BY <1>1 DEF OrderInv, QueueOrdered, InOrder, WorkCurrent, Current, ShouldRetry, Cached
<1>10. QED
  BY <1>7, <1>8, <1>9

\* What the informer has in its own cache has been told, and what is held of the
\* same deployment is not newer
LEMMA StoreTold ==
    ASSUME OrderInv, NEW n \in Names, store[n] # NoObj
    PROVE  /\ store[n] \in Deployment /\ store[n].rv \in Nat /\ store[n].name = n
           /\ Told(store[n].rv) /\ \A x \in Held : x.name = n => x.rv <= store[n].rv
  BY DEF OrderInv, HeldTold, TypeInv, TypeOK, Deployment

LEMMA ResyncOrder ==
    ASSUME OrderInv, NEW n \in Names, Resync(n)
    PROVE  WatchSorted' /\ HeldTold' /\ QueueOrdered' /\ WorkCurrent'
<1>1. /\ store[n] # NoObj /\ UpdateFunc(store[n], store[n])
      /\ UNCHANGED <<api, watch, store, delayed, known, slot, work, mesh, readOnly, spent>>
  BY DEF Resync, clusterVars, cacheVars
<1>2. PICK s \in Deployment : /\ s = store[n] /\ s.rv \in Nat /\ s.name = n /\ Told(s.rv)
                              /\ \A x \in Held : x.name = n => x.rv <= s.rv
  BY <1>1, StoreTold
<1>3. Top' = Top
  BY <1>1 DEF Top
<1>4. CASE UNCHANGED queue
  <2>1. Held' = Held
    BY <1>1, <1>4 DEF Held, Cached
  <2>2. WatchSorted' /\ HeldTold'
    BY <1>1, <1>3, <2>1, HeldShrinks DEF OrderInv
  <2>3. QueueOrdered' /\ WorkCurrent'
    BY <1>1, <1>4 DEF OrderInv, QueueOrdered, InOrder, WorkCurrent, Current, ShouldRetry, Cached
  <2>4. QED
    BY <2>2, <2>3
<1>5. CASE Announces("Update", s)
  <2>1. \A x \in Held : Follows("Update", s, x)
    BY <1>2 DEF Follows
  <2>2. (\A x \in Held' : x \in Held \/ x = s) /\ QueueOrdered' /\ WorkCurrent'
    BY <1>1, <1>5, <2>1, AnnounceOrder DEF EventTypes
  <2>3. WatchSorted'
    BY <1>1, <1>3 DEF OrderInv, WatchSorted
  <2>4. \A rv : Told(rv)' <=> Told(rv)
    BY <1>1, <1>3 DEF Told
  <2>5. HeldTold'
    <3>1. \A o \in Held' : Told(o.rv)'
      BY <1>2, <2>2, <2>4 DEF OrderInv, HeldTold
    <3>2. \A m \in Names, o \in Held' : store[m] # NoObj /\ o.name = m => o.rv <= store[m].rv
      BY <1>2, <2>2 DEF OrderInv, HeldTold
    <3>3. QED
      BY <1>1, <2>4, <3>1, <3>2 DEF OrderInv, HeldTold
  <2>6. QED
    BY <2>2, <2>3, <2>5
<1>6. QED
  <2>1. \/ UNCHANGED queue
        \/ \E o \in Deployment : Announces("Update", o) /\ o = s
    BY <1>1, <1>2, UpdateStep DEF OrderInv, TypeInv, InOrderOf
  <2>2. QED
    BY <1>4, <1>5, <2>1

\* The next change the informer is told of comes after everything that is held
LEMMA NotifyOrder ==
    ASSUME OrderInv, Numeric', Notify
    PROVE  WatchSorted' /\ HeldTold' /\ QueueOrdered' /\ WorkCurrent'
<1>1. PICK c \in Changes :
             /\ watch # << >> /\ c = watch[1] /\ watch' = Tail(watch)
             /\ store' = [store EXCEPT ![c.obj.name] = IF c.gone THEN NoObj ELSE c.obj]
             /\ UNCHANGED <<api, delayed, known, slot, work, mesh, readOnly, spent>>
             /\ \/ c.gone /\ Announces("Delete", c.obj)
                \/ ~c.gone /\ Announces("Add", c.obj)
                \/ /\ ~c.gone /\ store[c.obj.name] \in Deployment
                   /\ store[c.obj.name] # NoObj
                   /\ UpdateFunc(store[c.obj.name], c.obj)
                   /\ Misordered(c.obj.rv, store[c.obj.name].rv) => "order" \in astray'
  BY NotifyStep DEF OrderInv, TypeInv
<1>2. PICK new \in Deployment : new = c.obj /\ new.rv \in Nat /\ new.name \in Names
  BY DEF Changes, Deployment
<1>3. PICK n \in Nat : /\ Len(watch) = n + 1 /\ Len(watch') = n
                       /\ \A k \in 1 .. n : watch'[k] = watch[k + 1] /\ k + 1 \in 1 .. Len(watch)
  <2>1. watch \in Seq(Changes) /\ watch # << >> /\ watch' = Tail(watch)
    BY <1>1 DEF OrderInv, TypeInv, TypeOK, Changes
  <2>2. /\ Len(watch') \in Nat /\ Len(watch) = Len(watch') + 1
        /\ \A k \in 1 .. Len(watch') : watch'[k] = watch[k + 1] /\ k + 1 \in 1 .. Len(watch)
    BY <2>1
  <2>3. QED
    BY <2>2
<1>4. Top' = Top /\ Top \in Nat
  BY <1>1, HeldType DEF Top, OrderInv
<1>5. 1 \in 1 .. Len(watch) /\ watch[1].obj = new
  BY <1>1, <1>2, <1>3
<1>6. \A x \in Held : x.rv \in Nat /\ x.rv <= new.rv
  BY <1>5, HeldType DEF OrderInv, HeldTold, Told
<1>7. \A rv : Told(rv) => Told(rv)'
  BY <1>3, <1>4 DEF Told
<1>8. Told(new.rv)'
  <2>1. new.rv <= Top /\ \A k \in 1 .. Len(watch) : new.rv <= watch[k].obj.rv
    BY <1>5 DEF OrderInv, WatchSorted
  <2>2. QED
    BY <1>3, <1>4, <2>1 DEF Told
<1>9. WatchSorted'
  <2>1. \A k \in 1 .. n : watch'[k].obj.rv <= Top
    BY <1>3 DEF OrderInv, WatchSorted
  <2>2. \A j, k \in 1 .. n : j <= k => watch'[j].obj.rv <= watch'[k].obj.rv
    <3>1. SUFFICES ASSUME NEW j \in 1 .. n, NEW k \in 1 .. n, j <= k
                   PROVE  watch[j + 1].obj.rv <= watch[k + 1].obj.rv
      BY <1>3
    <3>2. j + 1 \in 1 .. Len(watch) /\ k + 1 \in 1 .. Len(watch) /\ j + 1 <= k + 1
      BY <1>3, <3>1
    <3>3. QED
      BY <3>2 DEF OrderInv, WatchSorted
  <2>3. QED
    BY <1>3, <1>4, <2>1, <2>2 DEF WatchSorted
<1>10. ASSUME NEW type \in EventTypes, NEW o \in Deployment, Announces(type, o),
              o.rv = new.rv, o.name = new.name
       PROVE  /\ \A x \in Held' : x \in Held \/ (x.rv = new.rv /\ x.name = new.name)
              /\ QueueOrdered' /\ WorkCurrent'
  <2>1. \A x \in Held : Follows(type, o, x)
    BY <1>6, <1>10 DEF Follows
  <2>2. QED
    BY <1>1, <1>10, <2>1, AnnounceOrder
<1>11. /\ \A x \in Held' : x \in Held \/ (x.rv = new.rv /\ x.name = new.name)
       /\ QueueOrdered' /\ WorkCurrent'
  <2>1. CASE c.gone /\ Announces("Delete", c.obj)
    BY <1>2, <1>10, <2>1 DEF EventTypes
  <2>2. CASE ~c.gone /\ Announces("Add", c.obj)
    BY <1>2, <1>10, <2>2 DEF EventTypes
  <2>3. CASE /\ store[c.obj.name] \in Deployment /\ store[c.obj.name] # NoObj
             /\ UpdateFunc(store[c.obj.name], c.obj)
             /\ Misordered(c.obj.rv, store[c.obj.name].rv) => "order" \in astray'
    <3>1. PICK old \in Deployment : old = store[new.name] /\ old.rv \in Nat
                                    /\ old.name = new.name /\ Told(old.rv)
      BY <1>2, <2>3, StoreTold
    <3>2. InOrderOf(old, new)
      <4>1. old.rv <= new.rv
        BY <1>5, <3>1 DEF Told
      <4>2. ~Misordered(new.rv, old.rv)
        BY <1>2, <2>3, <3>1 DEF Numeric
      <4>3. QED
        BY <4>1, <4>2 DEF InOrderOf
    <3>3. \/ UNCHANGED queue
          \/ \E o \in Deployment : /\ Announces("Update", o)
                                   /\ o = new \/ (o = old /\ old.rv = new.rv)
      BY <1>2, <2>3, <3>1, <3>2, UpdateStep DEF OrderInv, TypeInv
    <3>4. CASE UNCHANGED queue
      <4>1. Held' = Held
        BY <1>1, <3>4 DEF Held, Cached
      <4>2. QueueOrdered' /\ WorkCurrent'
        BY <1>1, <3>4 DEF OrderInv, QueueOrdered, InOrder, WorkCurrent, Current, ShouldRetry, Cached
      <4>3. QED
        BY <4>1, <4>2
    <3>5. CASE \E o \in Deployment : /\ Announces("Update", o)
                                     /\ o = new \/ (o = old /\ old.rv = new.rv)
      BY <1>10, <3>1, <3>5 DEF EventTypes
    <3>6. QED
      BY <3>3, <3>4, <3>5
  <2>4. QED
    BY <1>1, <2>1, <2>2, <2>3
<1>12. HeldTold'
  <2>1. \A o \in Held' : Told(o.rv)' /\ o.rv <= new.rv
    BY <1>2, <1>6, <1>7, <1>8, <1>11 DEF OrderInv, HeldTold
  <2>2. ASSUME NEW m \in Names, store'[m] # NoObj
        PROVE  /\ store'[m].name = m /\ Told(store[m].rv)'
               /\ \A o \in Held' : o.name = m => o.rv <= store'[m].rv
    <3>1. CASE m = new.name
      <4>1. store'[m] = new
        BY <1>1, <1>2, <2>2, <3>1 DEF OrderInv, TypeInv, TypeOK
      <4>2. Told(store[m].rv)'
        BY <1>8, <4>1 DEF Told
      <4>3. QED
        BY <2>1, <3>1, <4>1, <4>2
    <3>2. CASE m # new.name
      <4>1. store'[m] = store[m]
        BY <1>1, <1>2, <3>2 DEF OrderInv, TypeInv, TypeOK
      <4>2. /\ store[m].name = m /\ Told(store[m].rv)
            /\ \A x \in Held : x.name = m => x.rv <= store[m].rv
        BY <2>2, <4>1, StoreTold
      <4>3. Told(store[m].rv)'
        BY <1>7, <4>1, <4>2 DEF Told
      <4>4. QED
        BY <1>11, <3>2, <4>1, <4>2, <4>3
    <3>3. QED
      BY <3>1, <3>2
  <2>3. QED
    BY <2>1, <2>2 DEF HeldTold
<1>13. QED
  BY <1>9, <1>11, <1>12

\* A worker takes events in the order in which they were queued, and a retried
\* one only if it is not older than what is cached
LEMMA GetOrder ==
    ASSUME OrderInv, Numeric', NEW w \in Workers, GetItem(w)
    PROVE  WatchSorted' /\ HeldTold' /\ QueueOrdered' /\ WorkCurrent'
<1>1. /\ work[w] = Idle /\ Len(queue) > 0 /\ queue[1] \in Item
      /\ UNCHANGED <<api, watch, store, delayed, known, slot, mesh, readOnly>>
      /\ spent'.writes = spent.writes
      /\ queue[1].requeues > 0 /\ Misjudged(queue[1].obj) => "order" \in astray'
      /\ queue' \in Seq(Item) /\ Len(queue) = Len(queue') + 1
      /\ \A k \in 1 .. Len(queue') : queue'[k] = queue[k + 1] /\ k + 1 \in 1 .. Len(queue)
      /\ \/ ~Accepted(queue[1]) /\ work' = work
         \/ /\ Accepted(queue[1])
            /\ \E t \in Busy : /\ work' = [work EXCEPT ![w] = t] /\ t.pc = "cache"
                               /\ t.item = queue[1] /\ ~t.err
  BY GetStep DEF OrderInv
<1>2. Cached' = Cached /\ Top' = Top
  BY <1>1 DEF Cached, Top
<1>3. PICK head \in Item : head = queue[1] /\ 1 \in 1 .. Len(queue) /\ head.requeues \in Nat
  <2>1. 1 \in 1 .. Len(queue)
    BY <1>1
  <2>2. QED
    BY <1>1, <2>1, ItemTypes
<1>4. \A v \in Workers : work'[v] # Idle =>
         \/ work[v] # Idle /\ work'[v] = work[v]
         \/ /\ Accepted(head) /\ work'[v].pc = "cache" /\ work'[v].item = head
            /\ ~work'[v].err
  BY <1>1, <1>3 DEF OrderInv, TypeInv, TypeOK
<1>5. \A o \in Held' : o \in Held
  <2>1. head.obj \in Held
    BY <1>3, HeldParts
  <2>2. QED
    BY <1>1, <1>2, <1>4, <2>1, HeldParts
<1>6. WatchSorted' /\ HeldTold'
  BY <1>1, <1>2, <1>5, HeldShrinks DEF OrderInv
<1>7. WorkCurrent'
  <2>1. ASSUME NEW v \in Workers, work'[v] # Idle
        PROVE  Current(work[v])'
    <3>1. CASE work[v] # Idle /\ work'[v] = work[v]
      BY <1>2, <3>1 DEF OrderInv, WorkCurrent, Current, ShouldRetry
    <3>2. CASE /\ Accepted(head) /\ work'[v].pc = "cache" /\ work'[v].item = head
               /\ ~work'[v].err
      <4>1. head.requeues > 0 /\ Cached # NoObj => Cached.rv <= head.obj.rv
        <5>1. head.requeues > 0 => ShouldRetry(head.obj) /\ ~Misjudged(head.obj)
          BY <1>1, <1>3, <3>2 DEF Accepted, Numeric
        <5>2. Cached # NoObj => Cached.rv \in Nat /\ head.obj.rv \in Nat
          BY <1>3, HeldType, HeldParts, ItemTypes DEF OrderInv
        <5>3. QED
          BY <5>1, <5>2 DEF ShouldRetry, Misjudged, Misordered
      <4>2. head.requeues = 0 /\ Cached # NoObj => Follows(head.type, head.obj, Cached)
        BY <1>3 DEF OrderInv, QueueOrdered, InOrder
      <4>3. QED
        BY <1>2, <3>2, <4>1, <4>2 DEF Current, ShouldRetry
    <3>3. QED
      BY <1>4, <2>1, <3>1, <3>2
  <2>2. QED
    BY <2>1 DEF WorkCurrent
<1>8. QueueOrdered'
  <2>1. ASSUME NEW k \in 1 .. Len(queue'), queue'[k].requeues = 0
        PROVE  InOrder(queue[k], k)'
    <3>1. PICK x : x = queue'[k] /\ x = queue[k + 1] /\ k + 1 \in 1 .. Len(queue)
      BY <1>1
    <3>2. InOrder(x, k + 1)
      BY <2>1, <3>1 DEF OrderInv, QueueOrdered
    <3>3. \A j \in 1 .. k : Follows(x.type, x.obj, queue'[j].obj)
      <4>1. SUFFICES ASSUME NEW j \in 1 .. k PROVE Follows(x.type, x.obj, queue'[j].obj)
        OBVIOUS
      <4>2. j \in 1 .. Len(queue') /\ j + 1 \in 1 .. (k + 1)
        BY <1>1
      <4>3. QED
        BY <1>1, <3>2, <4>2 DEF InOrder
    <3>4. Follows(x.type, x.obj, head.obj)
      <4>1. 1 \in 1 .. (k + 1)
        BY <3>1
      <4>2. QED
        BY <1>3, <3>2, <4>1 DEF InOrder
    <3>5. \A v \in Workers : work'[v] # Idle => Follows(x.type, x.obj, work'[v].item.obj)
      BY <1>4, <3>2, <3>4 DEF InOrder
    <3>6. Cached' # NoObj => Follows(x.type, x.obj, Cached')
      BY <1>2, <3>2 DEF InOrder
    <3>7. QED
      BY <3>1, <3>3, <3>5, <3>6 DEF InOrder
  <2>2. QED
    BY <1>1, <2>1 DEF OrderInv, QueueOrdered
<1>9. QED
  BY <1>6, <1>7, <1>8

\* What a retry may overwrite
LEMMA RetryNewer ==
    ASSUME OrderInv, NEW o \in Deployment, Cached # NoObj, ~Misjudged(o)
    PROVE  ShouldRetry(o) <=> Cached.rv <= o.rv
<1>1. Cached \in Deployment /\ Cached.rv \in Nat /\ o.rv \in Nat
  BY CachedType DEF OrderInv, TypeInv, Deployment
<1>2. QED
  BY <1>1 DEF ShouldRetry, Misjudged, Misordered

\* The worker puts into the cache only what is not older than what is there
LEMMA BusyOrder ==
    ASSUME OrderInv, InTurn', NEW w \in Workers,
           \/ CacheStep(w) \/ Begin(w) \/ WriteMesh(w) \/ FailWrite(w) \/ Evict(w) \/ SetStatus(w)
    PROVE  WatchSorted' /\ HeldTold' /\ QueueOrdered' /\ WorkCurrent' /\ CacheNotOlder
<1>1. PICK s \in Busy : s = work[w] /\ s # Idle /\ s.pc # "finish"
  BY BusyStep DEF OrderInv
<1>2. PICK t \in Busy :
        /\ work' = [work EXCEPT ![w] = t] /\ t.item = s.item /\ t.pc # "cache"
        /\ t.item.obj.ign /\ s.pc \in {"cache", "status"} =>
             t.pc \in {"status", "finish"} /\ t.err = s.err
        /\ s.pc = "cache" /\ ~t.item.obj.ign =>
             /\ t.pc = "begin" /\ t.err = s.err
             /\ Cached' = IF t.item.type = "Delete" THEN Cached ELSE t.item.obj
  BY <1>1, BusyStep DEF OrderInv
<1>3. /\ UNCHANGED <<api, watch, store, queue, delayed, readOnly>> /\ Top' = Top
      /\ \/ Cached' \in {Cached, NoObj}
         \/ s.pc = "cache" /\ ~s.item.obj.ign /\ Cached' = s.item.obj
  BY <1>1, BusyStep DEF OrderInv, Top
<1>4. PICK x \in Item : /\ x = s.item /\ x.obj \in Deployment /\ x.obj.rv \in Nat
                        /\ x.requeues \in Nat /\ x.obj.ign \in BOOLEAN
  BY <1>1, ItemTypes DEF Busy
<1>5. work'[w] = t /\ \A v \in Workers : work'[v] # Idle => v = w
  BY <1>2, Turn DEF OrderInv, TypeInv, TypeOK, Worker, Progress
<1>6. Current(s)
  BY <1>1 DEF OrderInv, WorkCurrent
<1>7. x.obj \in Held
  BY <1>1, <1>4, HeldParts
<1>8. \A o \in Held' : o \in Held
  BY <1>2, <1>3, <1>4, <1>5, <1>7, HeldParts
<1>9. WatchSorted' /\ HeldTold'
  BY <1>3, <1>8, HeldShrinks DEF OrderInv
<1>10. QueueOrdered'
  <2>1. \A k : InOrder(queue[k], k) => InOrder(queue[k], k)'
    <3>1. SUFFICES ASSUME NEW k, InOrder(queue[k], k) PROVE InOrder(queue[k], k)'
      OBVIOUS
    <3>2. PICK y : y = queue[k] /\ y = queue'[k]
      BY <1>3
    <3>3. Follows(y.type, y.obj, x.obj)
      BY <1>1, <1>4, <3>1, <3>2 DEF InOrder
    <3>4. Cached' # NoObj => Follows(y.type, y.obj, Cached')
      BY <1>3, <1>4, <3>1, <3>2, <3>3 DEF InOrder
    <3>5. \A v \in Workers : work'[v] # Idle => Follows(y.type, y.obj, work'[v].item.obj)
      BY <1>2, <1>4, <1>5, <3>3
    <3>6. QED
      BY <1>3, <3>1, <3>2, <3>4, <3>5 DEF InOrder
  <2>2. QED
    BY <1>3, <2>1 DEF OrderInv, QueueOrdered
<1>11. s.pc = "cache" /\ Cached # NoObj /\ (Cached.name = x.obj.name \/ x.type = "Delete") =>
         Cached.rv <= x.obj.rv
  <2>1. CASE x.requeues = 0
    BY <1>4, <1>6, <2>1 DEF Current, Follows
  <2>2. CASE x.requeues > 0
    BY <1>4, <1>6, <2>2 DEF Current
  <2>3. QED
    BY <1>4, <2>1, <2>2
<1>12. CacheNotOlder
  <2>1. Cached # NoObj => Cached.rv \in Nat
    BY CachedType DEF OrderInv, TypeInv, Deployment
  <2>2. QED
    BY <1>3, <1>4, <1>11, <2>1 DEF CacheNotOlder
<1>13. WorkCurrent'
  <2>1. x.obj.ign => ~t.err /\ t.pc \in {"cache", "status", "finish"}
    BY <1>1, <1>2, <1>4, <1>6 DEF Current
  <2>2. ASSUME ~x.obj.ign, Cached' # NoObj
        PROVE  Cached'.rv <= x.obj.rv
    <3>1. CASE s.pc = "cache" /\ x.type = "Delete"
      BY <1>2, <1>4, <1>11, <2>2, <3>1
    <3>2. CASE s.pc = "cache" /\ x.type # "Delete"
      BY <1>2, <1>4, <2>2, <3>2
    <3>3. CASE s.pc # "cache"
      BY <1>3, <1>4, <1>6, <2>2, <3>3 DEF Current
    <3>4. QED
      BY <3>1, <3>2, <3>3
  <2>3. Current(work[w])'
    BY <1>2, <1>4, <1>5, <2>1, <2>2 DEF Current
  <2>4. QED
    BY <1>5, <2>3 DEF WorkCurrent
<1>14. QED
  BY <1>9, <1>10, <1>12, <1>13

\* A worker that is through with its item, and the items that are retried
LEMMA FinishOrder ==
    ASSUME OrderInv, NEW w \in Workers, Finish(w)
    PROVE  WatchSorted' /\ HeldTold' /\ QueueOrdered' /\ WorkCurrent'
<1>1. /\ work[w] \in Busy /\ work[w] # Idle
      /\ UNCHANGED <<api, watch, store, queue, known, mesh, readOnly, spent>>
      /\ work' = [work EXCEPT ![w] = Idle] /\ Cached' = Cached
      /\ \/ delayed' = delayed
         \/ \E x \in Item : /\ delayed' = Append(delayed, x)
                            /\ x.obj = work[w].item.obj /\ x.requeues > 0
  BY FinishStep DEF OrderInv
<1>2. \A k \in 1 .. Len(delayed') :
         \/ k \in 1 .. Len(delayed) /\ delayed'[k] = delayed[k]
         \/ delayed'[k].obj = work[w].item.obj /\ delayed'[k].requeues > 0
  <2>1. CASE delayed' = delayed
    BY <2>1
  <2>2. CASE \E x \in Item : /\ delayed' = Append(delayed, x)
                             /\ x.obj = work[w].item.obj /\ x.requeues > 0
    <3>1. PICK x \in Item : /\ delayed' = Append(delayed, x)
                            /\ x.obj = work[w].item.obj /\ x.requeues > 0
      BY <2>2
    <3>2. delayed \in Seq(Item)
      BY DEF OrderInv, TypeInv, TypeOK
    <3>3. \A k \in 1 .. Len(delayed') :
             (k \in 1 .. Len(delayed) /\ delayed'[k] = delayed[k]) \/ delayed'[k] = x
      BY <3>1, <3>2
    <3>4. QED
      BY <3>1, <3>3
  <2>3. QED
    BY <1>1, <2>1, <2>2
<1>3. \A v \in Workers : work'[v] # Idle => work[v] # Idle /\ work'[v] = work[v]
  BY <1>1 DEF OrderInv, TypeInv, TypeOK
<1>4. \A o \in Held' : o \in Held
  BY <1>1, <1>2, <1>3, HeldParts
<1>5. Top' = Top
  BY <1>1 DEF Top
<1>6. WatchSorted' /\ HeldTold'
  BY <1>1, <1>4, <1>5, HeldShrinks DEF OrderInv
<1>7. WorkCurrent'
  BY <1>1, <1>3 DEF OrderInv, WorkCurrent, Current, ShouldRetry
<1>8. QueueOrdered'
  BY <1>1, <1>2, <1>3 DEF OrderInv, QueueOrdered, InOrder
<1>9. QED
  BY <1>6, <1>7, <1>8

LEMMA RequeueOrder ==
    ASSUME OrderInv, Requeue
    PROVE  WatchSorted' /\ HeldTold' /\ QueueOrdered' /\ WorkCurrent'
<1>1. PICK i \in 1 .. Len(delayed) :
        /\ UNCHANGED <<api, watch, store, known, slot, work, mesh, readOnly, spent>>
        /\ queue' \in Seq(Item) /\ Len(queue') = Len(queue) + 1
        /\ queue'[Len(queue) + 1] = delayed[i]
        /\ \A k \in 1 .. Len(queue) : queue'[k] = queue[k]
        /\ \A k \in 1 .. Len(delayed') : \E j \in 1 .. Len(delayed) : delayed'[k] = delayed[j]
  BY RequeueStep DEF OrderInv
<1>2. Cached' = Cached /\ Top' = Top
  BY <1>1 DEF Cached, Top
<1>3. PICK n \in Nat : n = Len(queue)
  BY DEF OrderInv, TypeInv, TypeOK
<1>4. \A k \in 1 .. Len(queue') :
         \/ k \in 1 .. n /\ queue'[k] = queue[k]
         \/ k = n + 1 /\ queue'[k] = delayed[i]
  BY <1>1, <1>3
<1>5. \A o \in Held' : o \in Held
  BY <1>1, <1>2, <1>3, <1>4, HeldParts
<1>6. WatchSorted' /\ HeldTold'
  BY <1>1, <1>2, <1>5, HeldShrinks DEF OrderInv
<1>7. WorkCurrent'
  BY <1>1, <1>2 DEF OrderInv, WorkCurrent, Current, ShouldRetry
<1>8. QueueOrdered'
  <2>1. \A k \in 1 .. Len(delayed) : delayed[k].requeues > 0
    BY DEF OrderInv, QueueOrdered
  <2>2. ASSUME NEW k \in 1 .. Len(queue'), queue'[k].requeues = 0
        PROVE  InOrder(queue[k], k)'
    <3>1. k \in 1 .. n /\ queue'[k] = queue[k]
      BY <1>4, <2>1, <2>2
    <3>2. InOrder(queue[k], k)
      BY <1>3, <2>2, <3>1 DEF OrderInv, QueueOrdered
    <3>3. \A j \in 1 .. k : queue'[j] = queue[j]
      BY <1>1, <1>3, <3>1
    <3>4. QED
      BY <1>1, <1>2, <3>1, <3>2, <3>3 DEF InOrder
  <2>3. QED
    BY <1>1, <2>1, <2>2 DEF QueueOrdered
<1>9. QED
  BY <1>6, <1>7, <1>8

\* The informer leaves the cache alone and at most appends a new event
LEMMA InformerStep ==
    ASSUME TypeInv, Notify \/ \E n \in Names : Resync(n)
    PROVE  /\ UNCHANGED <<known, slot, delayed, work>> /\ Cached' = Cached
           /\ \/ queue' = queue
              \/ Len(queue') \in Nat /\ \E k \in 1 .. Len(queue') : queue'[k].requeues = 0
<1> USE DEF TypeInv
<1>0. UNCHANGED <<known, slot, delayed, work>> /\ Cached' = Cached
  BY DEF Notify, Resync, cacheVars, Cached
<1>1. ASSUME NEW type \in EventTypes, NEW o \in Deployment, Announces(type, o)
      PROVE  Len(queue') \in Nat /\ \E k \in 1 .. Len(queue') : queue'[k].requeues = 0
  <2>1. /\ queue' \in Seq(Item) /\ Len(queue') = Len(queue) + 1
        /\ queue'[Len(queue) + 1] = [type |-> type, obj |-> o, requeues |-> 0]
    BY <1>1, AnnounceStep
  <2>2. Len(queue) + 1 \in 1 .. Len(queue') /\ queue'[Len(queue) + 1].requeues = 0
    BY <2>1 DEF TypeOK
  <2>3. QED
    BY <2>1, <2>2
<1>2. CASE Notify
  <2>1. PICK c \in Changes :
             /\ \/ c.gone /\ Announces("Delete", c.obj)
                \/ ~c.gone /\ Announces("Add", c.obj)
                \/ /\ ~c.gone /\ store[c.obj.name] \in Deployment
                   /\ store[c.obj.name] # NoObj
                   /\ UpdateFunc(store[c.obj.name], c.obj)
    BY <1>2, NotifyStep
  <2>2. c.obj \in Deployment
    BY DEF Changes
  <2>3. \/ \E type \in EventTypes, o \in Deployment : Announces(type, o)
        \/ queue' = queue
    BY <2>1, <2>2, UpdateStep DEF EventTypes
  <2>4. QED
    BY <1>0, <1>1, <2>3
<1>3. CASE \E n \in Names : Resync(n)
  <2>1. PICK n \in Names : store[n] # NoObj /\ UpdateFunc(store[n], store[n])
    BY <1>3 DEF Resync
  <2>2. store[n] \in Deployment
    BY <2>1 DEF TypeOK
  <2>3. \/ \E type \in EventTypes, o \in Deployment : Announces(type, o)
        \/ queue' = queue
    BY <2>1, <2>2, UpdateStep DEF EventTypes
  <2>4. QED
    BY <1>0, <1>1, <2>3
<1>4. QED
  BY <1>2, <1>3

LEMMA OrderStep ==
    ASSUME InTurn', Numeric', OrderInv, [Next]_vars
    PROVE  OrderInv' /\ CacheNotOlder
<1> DEFINE Ordered == WatchSorted /\ HeldTold /\ QueueOrdered /\ WorkCurrent
<1>1. TypeInv'
  BY TypeStep DEF OrderInv
<1>2. Cached' = Cached => CacheNotOlder
  BY CachedType DEF CacheNotOlder, OrderInv, TypeInv, Deployment
<1>3. ASSUME UNCHANGED <<watch, store, queue, delayed, work>>, Cached' = Cached,
             spent'.writes = spent.writes
      PROVE  Ordered'
  <2>1. Top' = Top
    BY <1>3 DEF Top
  <2>2. Held' = Held
    BY <1>3, <2>1 DEF Held
  <2>3. WatchSorted' /\ HeldTold'
    BY <1>3, <2>1, <2>2, HeldShrinks DEF OrderInv
  <2>4. QueueOrdered' /\ WorkCurrent'
    BY <1>3, <2>1 DEF OrderInv, QueueOrdered, InOrder, WorkCurrent, Current, ShouldRetry
  <2>5. QED
    BY <2>3, <2>4
<1>4. CASE UNCHANGED vars
  <2>1. Cached' = Cached
    BY <1>4 DEF vars, Cached
  <2>2. QED
    BY <1>1, <1>2, <1>3, <1>4, <2>1 DEF vars, OrderInv
<1>13. CASE ReadMode \/ MarkInProgress
  <2>1. UNCHANGED <<watch, store, queue, delayed, work, spent>> /\ Cached' = Cached
    BY <1>13, MarkStep DEF OrderInv
  <2>2. QED
    BY <1>1, <1>2, <1>3, <2>1 DEF OrderInv
<1>5. CASE Cluster
  <2>1. PICK o \in Deployment, gone \in BOOLEAN, kinds \in {{}, {"ignores"}, {"deletes"}} :
           o.rv = Version /\ Write(o, gone, kinds)
    BY <1>5, ClusterWrites DEF OrderInv, TypeInv
  <2>2. Cached' = Cached
    BY <2>1 DEF Write, cacheVars, Cached
  <2>3. QED
    BY <1>1, <1>2, <2>1, <2>2, WriteOrder DEF OrderInv
<1>6. CASE Notify \/ \E n \in Names : Resync(n)
  <2>1. Cached' = Cached
    BY <1>6, InformerStep DEF OrderInv
  <2>2. QED
    BY <1>1, <1>2, <1>6, <2>1, NotifyOrder, ResyncOrder DEF OrderInv
<1>7. ASSUME NEW w \in Workers, GetItem(w)
      PROVE  OrderInv' /\ CacheNotOlder
  <2>1. Cached' = Cached
    BY <1>7 DEF GetItem, cacheVars, Cached
  <2>2. QED
    BY <1>1, <1>2, <1>7, <2>1, GetOrder DEF OrderInv
<1>8. ASSUME NEW w \in Workers,
             \/ CacheStep(w) \/ Begin(w) \/ WriteMesh(w) \/ FailWrite(w) \/ Evict(w) \/ SetStatus(w)
      PROVE  OrderInv' /\ CacheNotOlder
  BY <1>1, <1>8, BusyOrder DEF OrderInv
<1>9. ASSUME NEW w \in Workers, Finish(w)
      PROVE  OrderInv' /\ CacheNotOlder
  <2>1. Cached' = Cached
    BY <1>9, FinishStep DEF OrderInv
  <2>2. QED
    BY <1>1, <1>2, <1>9, <2>1, FinishOrder DEF OrderInv
<1>10. CASE Requeue
  <2>1. Cached' = Cached
    BY <1>10 DEF Requeue, cacheVars, Cached
  <2>2. QED
    BY <1>1, <1>2, <1>10, <2>1, RequeueOrder DEF OrderInv
<1>11. CASE ToggleMode
  <2>1. spent'.writes = spent.writes /\ Cached' = Cached
    BY <1>11, SpendType DEF ToggleMode, OrderInv, TypeInv, cacheVars, Cached
  <2>2. QED
    BY <1>1, <1>2, <1>3, <1>11, <2>1 DEF ToggleMode, clusterVars, queueVars, cacheVars, OrderInv
<1>12. QED
  BY <1>4, <1>5, <1>6, <1>7, <1>8, <1>9, <1>10, <1>11, <1>13 DEF Next, Worker, Progress

LEMMA OrderInit ==
    ASSUME Init
    PROVE  CarryInv
<1>1. /\ spent.writes = 0 /\ queue = << >> /\ delayed = << >> /\ watch = << >> /\ slot = NoItem
      /\ \A w \in Workers : work[w] = Idle
      /\ \A n \in Names : store[n] = NoObj
  BY DEF Init
<1>2. Len(queue) = 0 /\ Len(delayed) = 0 /\ Len(watch) = 0 /\ 1 .. 0 = {}
  BY <1>1
<1>3. TypeInv
  <2>1. spent \in Budget /\ work \in [Workers -> Busy \cup {Idle}]
    BY DEF Init, Budget
  <2>2. /\ queue \in Seq(Item) /\ delayed \in Seq(Item)
        /\ watch \in Seq([gone : BOOLEAN, obj : Deployment])
    BY <1>1
  <2>3. SomethingSeen
    BY <1>1 DEF SomethingSeen, Idle
  <2>4. Sole
    BY <1>1 DEF Sole
  <2>5. QED
    BY <2>1, <2>2, <2>3, <2>4 DEF Init, TypeInv, TypeOK
<1>4. Cached = NoObj /\ ProcessStatus = "NotProcessed"
  BY <1>1 DEF Cached, ProcessStatus
<1>5. Held = {}
  BY <1>1, <1>2, <1>4 DEF Held
<1>6. WatchSorted /\ HeldTold /\ QueueOrdered /\ WorkCurrent
  BY <1>1, <1>2, <1>5 DEF WatchSorted, HeldTold, QueueOrdered, WorkCurrent
<1>7. QED
  BY <1>1, <1>3, <1>4, <1>6 DEF CarryInv, OrderInv, Carried

\* For any number of workers and however the versions compare as strings: as long
\* as workers have taken turns and no comparison went against the numbers, an
\* event of a deployment never overwrites a newer version of the deployment in
\* the cache, however events, resyncs, retries of failed events and the
\* informer's late marks interleave (shouldRetry, checkIfResourceVersionHasIncreased).
THEOREM CacheKeepsNewest == Spec => CacheNeverRegresses
<1> DEFINE Inv == TypeInv /\ (InTurn /\ Numeric => OrderInv)
           Quest == InTurn' /\ "order" \notin astray' => CacheNotOlder
<1>1. Init => Inv
  <2>1. SUFFICES ASSUME Init PROVE Inv
    OBVIOUS
  <2>2. OrderInv
    BY <2>1, OrderInit DEF CarryInv
  <2>3. QED
    BY <2>2 DEF OrderInv
<1>2. Inv /\ [Next]_vars => Inv' /\ [Quest]_vars
  <2>1. SUFFICES ASSUME Inv, [Next]_vars PROVE Inv' /\ Quest
    OBVIOUS
  <2>2. TypeInv'
    BY <2>1, TypeStep
  <2>3. InTurn' /\ Numeric' => InTurn /\ Numeric
    BY <2>1, TurnKept DEF Numeric
  <2>4. InTurn' /\ Numeric' => OrderInv' /\ CacheNotOlder
    BY <2>1, <2>3, OrderStep
  <2>5. QED
    BY <2>2, <2>4 DEF Numeric
<1>3. QED
  BY <1>1, <1>2, PTL DEF Spec, CacheNeverRegresses

-----------------------------------------------------------------------------
(* No event is the last word on a deployment in progress                    *)

LEMMA CarryStep ==
    ASSUME InTurn', Numeric', astray' = {}, CarryInv, [Next]_vars
    PROVE  CarryInv'
<1>1. OrderInv'
  BY OrderStep DEF CarryInv
<1>2. TypeInv /\ OrderInv /\ (slot # NoItem => known) /\ Carried
  BY DEF CarryInv, OrderInv
<1>3. ASSUME Cached' = Cached
      PROVE  \A x : Accepted(x)' <=> Accepted(x)
  BY <1>3 DEF Accepted, ShouldRetry
<1>4. ASSUME UNCHANGED <<queue, delayed, known, slot, work>>
      PROVE  CarryInv'
  <2>1. Cached' = Cached /\ ProcessStatus' = ProcessStatus
    BY <1>4 DEF Cached, ProcessStatus
  <2>2. Carried'
    BY <1>2, <1>4, <2>1 DEF Carried, Accepted, ShouldRetry
  <2>3. QED
    BY <1>1, <1>2, <1>4, <2>2 DEF CarryInv
<1>5. CASE UNCHANGED vars \/ ToggleMode
  BY <1>4, <1>5 DEF vars, ToggleMode, queueVars, cacheVars
<1>6. CASE Cluster
  <2>1. PICK o \in Deployment, gone \in BOOLEAN, kinds \in {{}, {"ignores"}, {"deletes"}} :
           Write(o, gone, kinds)
    BY <1>2, <1>6, ClusterWrites DEF TypeInv
  <2>2. QED
    BY <1>4, <2>1 DEF Write, queueVars, cacheVars
<1>13. CASE ReadMode \/ MarkInProgress
  <2>1. /\ UNCHANGED <<queue, delayed, known, work>> /\ Cached' = Cached
        /\ (slot' # NoItem => slot # NoItem \/ known)
        /\ slot' = slot \/ Pending(NewItem("Update", informer.obj))
    BY <1>2, <1>13, MarkStep
  <2>2. CASE slot' = slot
    BY <1>4, <2>1, <2>2
  <2>3. CASE Pending(NewItem("Update", informer.obj))
    <3>1. PICK x : x = NewItem("Update", informer.obj) /\ Pending(x)
      BY <2>3
    <3>2. x.requeues = 0
      BY <3>1 DEF NewItem
    <3>3. CASE \E i \in DOMAIN queue : queue[i] = x
      <4>1. PICK i \in 1 .. Len(queue) : queue[i] = x
        BY <1>2, <3>3 DEF TypeInv, TypeOK
      <4>2. i \in 1 .. Len(queue') /\ Accepted(queue[i])'
        BY <2>1, <3>2, <4>1 DEF Accepted
      <4>3. QED
        BY <1>1, <1>2, <2>1, <4>2 DEF CarryInv, Carried
    <3>4. CASE \E w \in Workers : work[w] # Idle /\ work[w].pc # "finish"
      BY <1>1, <1>2, <2>1, <3>4 DEF CarryInv, Carried
    <3>5. QED
      BY <3>1, <3>3, <3>4 DEF Pending
  <2>4. QED
    BY <2>1, <2>2, <2>3
<1>7. CASE Notify \/ \E n \in Names : Resync(n)
  <2>1. /\ Cached' = Cached /\ UNCHANGED <<known, slot, delayed, work>>
        /\ \/ queue' = queue
           \/ \E k \in 1 .. Len(queue') : queue'[k].requeues = 0
    BY <1>2, <1>7, InformerStep
  <2>2. CASE queue' = queue
    BY <1>4, <2>1, <2>2
  <2>3. CASE \E k \in 1 .. Len(queue') : queue'[k].requeues = 0
    <3>1. Carried'
      BY <2>3 DEF Carried, Accepted
    <3>2. QED
      BY <1>1, <1>2, <2>1, <3>1 DEF CarryInv
  <2>4. QED
    BY <2>1, <2>2, <2>3
<1>8. ASSUME NEW w \in Workers, GetItem(w)
      PROVE  CarryInv'
  <2>1. /\ Len(queue) > 0 /\ Len(queue) = Len(queue') + 1 /\ queue' \in Seq(Item)
        /\ UNCHANGED <<api, watch, store, delayed, known, slot, mesh, readOnly>>
        /\ \A k \in 1 .. Len(queue') : queue'[k] = queue[k + 1] /\ k + 1 \in 1 .. Len(queue)
        /\ \/ ~Accepted(queue[1]) /\ work' = work
           \/ \E t \in Busy : work' = [work EXCEPT ![w] = t] /\ t.pc = "cache"
    BY <1>2, <1>8, GetStep
  <2>2. Cached' = Cached /\ ProcessStatus' = ProcessStatus
    BY <2>1 DEF Cached, ProcessStatus
  <2>3. CASE ~Accepted(queue[1]) /\ work' = work
    <3>1. ASSUME NEW k \in 1 .. Len(queue), Accepted(queue[k])
          PROVE  \E j \in 1 .. Len(queue') : Accepted(queue[j])'
      <4>1. k # 1
        BY <2>3, <3>1
      <4>2. k - 1 \in 1 .. Len(queue') /\ (k - 1) + 1 = k
        BY <2>1, <4>1
      <4>3. queue'[k - 1] = queue[k]
        BY <2>1, <4>2
      <4>4. Accepted(queue[k - 1])'
        BY <2>2, <3>1, <4>3 DEF Accepted, ShouldRetry
      <4>5. QED
        BY <4>2, <4>4
    <3>2. \A k \in 1 .. Len(delayed) : Accepted(delayed[k]) => Accepted(delayed[k])'
      BY <2>1, <2>2 DEF Accepted, ShouldRetry
    <3>3. Carried'
      BY <1>2, <2>1, <2>2, <2>3, <3>1, <3>2 DEF Carried
    <3>4. QED
      BY <1>1, <1>2, <2>1, <3>3 DEF CarryInv
  <2>4. CASE \E t \in Busy : work' = [work EXCEPT ![w] = t] /\ t.pc = "cache"
    <3>1. work'[w] # Idle /\ work'[w].pc # "finish"
      BY <1>2, <2>4 DEF TypeInv, TypeOK, Idle
    <3>2. Carried'
      BY <3>1 DEF Carried
    <3>3. QED
      BY <1>1, <1>2, <2>1, <3>2 DEF CarryInv
  <2>5. QED
    BY <2>1, <2>3, <2>4
<1>9. ASSUME NEW w \in Workers,
             \/ CacheStep(w) \/ Begin(w) \/ WriteMesh(w) \/ FailWrite(w) \/ Evict(w) \/ SetStatus(w)
      PROVE  CarryInv'
  <2>1. (known => known') /\ (slot' # NoItem => slot # NoItem \/ known')
    BY <1>2, <1>9, BusyStep
  <2>2. PICK t \in Busy :
          /\ work' = [work EXCEPT ![w] = t]
          /\ t.pc = "finish" /\ ~t.err => ProcessStatus' # "ProcessingInProgress"
    BY <1>2, <1>9, BusyStep
  <2>3. work'[w] = t /\ t # Idle
    <3>1. t.pc \in {"cache", "begin", "write", "evict", "status", "finish"}
      BY DEF Busy
    <3>2. QED
      BY <1>2, <2>2, <3>1 DEF TypeInv, TypeOK, Idle
  <2>4. Carried'
    BY <2>2, <2>3 DEF Carried
  <2>5. QED
    BY <1>1, <1>2, <2>1, <2>4 DEF CarryInv
<1>10. ASSUME NEW w \in Workers, Finish(w)
       PROVE  CarryInv'
  <2>1. PICK s \in Busy : s = work[w] /\ s # Idle /\ s.pc = "finish"
    BY <1>2, <1>10, FinishStep
  <2>2. /\ UNCHANGED <<queue, known>> /\ Cached' = Cached
        /\ (slot' # NoItem => slot # NoItem \/ known)
        /\ \/ ~s.err /\ UNCHANGED <<delayed, slot>>
           \/ /\ s.err /\ UNCHANGED slot /\ ShouldRetry(s.item.obj)
              /\ \E x \in Item : /\ delayed' = Append(delayed, x)
                                 /\ x.obj = s.item.obj /\ x.requeues > 0
           \/ /\ s.err /\ UNCHANGED <<delayed, slot>> /\ ~ShouldRetry(s.item.obj)
              /\ ~Misjudged(s.item.obj)
           \/ /\ s.err /\ delayed' = delayed
              /\ (known => ProcessStatus' = "NotProcessed")
              /\ (~known => ProcessStatus' = ProcessStatus)
    BY <1>2, <1>10, <2>1, FinishStep DEF Numeric
  <2>3. s.item.obj \in Deployment /\ s.err \in BOOLEAN /\ s.item.obj.ign \in BOOLEAN
    BY ItemTypes DEF Busy
  <2>4. s.err /\ ~Misjudged(s.item.obj) => ShouldRetry(s.item.obj)
    <3>1. CASE Cached = NoObj
      BY <3>1 DEF ShouldRetry
    <3>2. CASE Cached # NoObj
      <4>1. s.err => Cached.rv <= s.item.obj.rv
        BY <1>2, <2>1, <2>3, <3>2 DEF OrderInv, WorkCurrent, Current
      <4>2. QED
        BY <1>2, <2>3, <3>2, <4>1, RetryNewer
    <3>3. QED
      BY <3>1, <3>2
  <2>5. CASE ~s.err /\ UNCHANGED <<delayed, slot>>
    <3>1. ProcessStatus' = ProcessStatus
      BY <2>5 DEF ProcessStatus
    <3>2. \A v \in Workers : ~(work[v] # Idle /\ (work[v].pc # "finish" \/ work[v].err))
      BY <1>2, <1>10, <2>1, <2>5, Turn DEF Worker, Progress
    <3>3. Carried'
      BY <1>2, <2>2, <2>5, <3>1, <3>2 DEF Carried, Accepted, ShouldRetry
    <3>4. QED
      BY <1>1, <1>2, <2>2, <3>3 DEF CarryInv
  <2>6. CASE /\ ShouldRetry(s.item.obj)
             /\ \E x \in Item : /\ delayed' = Append(delayed, x)
                                /\ x.obj = s.item.obj /\ x.requeues > 0
    <3>1. PICK x \in Item : delayed' = Append(delayed, x) /\ x.obj = s.item.obj
      BY <2>6
    <3>2. delayed \in Seq(Item)
      BY <1>2 DEF TypeInv, TypeOK
    <3>3. Len(delayed) + 1 \in 1 .. Len(delayed') /\ delayed'[Len(delayed) + 1] = x
      BY <3>1, <3>2
    <3>4. Accepted(x)'
      BY <2>2, <2>6, <3>1 DEF Accepted, ShouldRetry
    <3>5. \E k \in 1 .. Len(delayed') : Accepted(delayed[k])'
      BY <3>3, <3>4 DEF Accepted, ShouldRetry
    <3>6. Carried'
      BY <3>5 DEF Carried
    <3>7. QED
      BY <1>1, <1>2, <2>2, <3>6 DEF CarryInv
  <2>7. CASE /\ (known => ProcessStatus' = "NotProcessed")
             /\ (~known => ProcessStatus' = ProcessStatus)
    <3>1. ~known => ProcessStatus = "NotProcessed"
      BY <1>2 DEF ProcessStatus
    <3>2. ProcessStatus' # "ProcessingInProgress"
      BY <2>7, <3>1
    <3>3. QED
      BY <1>1, <1>2, <2>2, <3>2 DEF CarryInv, Carried
  <2>8. QED
    BY <2>2, <2>4, <2>5, <2>6, <2>7
<1>11. CASE Requeue
  <2>1. PICK i \in 1 .. Len(delayed) :
        /\ UNCHANGED <<api, watch, store, known, slot, work, mesh, readOnly, spent>>
        /\ queue' \in Seq(Item) /\ Len(queue') = Len(queue) + 1
        /\ queue'[Len(queue) + 1] = delayed[i]
        /\ \A k \in 1 .. Len(queue) : queue'[k] = queue[k]
        /\ \A j \in 1 .. Len(delayed) : j # i =>
             \E k \in 1 .. Len(delayed') : delayed'[k] = delayed[j]
    BY <1>2, <1>11, RequeueStep
  <2>2. Cached' = Cached /\ ProcessStatus' = ProcessStatus
    BY <2>1 DEF Cached, ProcessStatus
  <2>3. Len(queue) \in Nat
    BY <1>2 DEF TypeInv, TypeOK
  <2>4. ASSUME NEW k \in 1 .. Len(queue), Accepted(queue[k])
        PROVE  \E j \in 1 .. Len(queue') : Accepted(queue[j])'
    <3>1. k \in 1 .. Len(queue') /\ queue'[k] = queue[k]
      BY <2>1, <2>3
    <3>2. QED
      BY <2>2, <2>4, <3>1 DEF Accepted, ShouldRetry
  <2>5. ASSUME NEW k \in 1 .. Len(delayed), Accepted(delayed[k])
        PROVE  \/ \E j \in 1 .. Len(queue') : Accepted(queue[j])'
               \/ \E j \in 1 .. Len(delayed') : Accepted(delayed[j])'
    <3>1. CASE k = i
      <4>1. Len(queue) + 1 \in 1 .. Len(queue') /\ queue'[Len(queue) + 1] = delayed[k]
        BY <2>1, <2>3, <3>1
      <4>2. QED
        BY <2>2, <2>5, <4>1 DEF Accepted, ShouldRetry
    <3>2. CASE k # i
      <4>1. PICK j \in 1 .. Len(delayed') : delayed'[j] = delayed[k]
        BY <2>1, <3>2
      <4>2. Accepted(delayed[j])'
        BY <2>2, <2>5, <4>1 DEF Accepted, ShouldRetry
      <4>3. QED
        BY <4>2
    <3>3. QED
      BY <3>1, <3>2
  <2>6. Carried'
    BY <1>2, <2>1, <2>2, <2>4, <2>5 DEF Carried
  <2>7. QED
    BY <1>1, <1>2, <2>1, <2>6 DEF CarryInv
<1>12. QED
  BY <1>5, <1>6, <1>7, <1>8, <1>9, <1>10, <1>11, <1>13 DEF Next, Worker, Progress

\* For any number of workers and however the versions compare as strings: a
\* deployment that is marked ProcessingInProgress, which no resync enqueues again
\* (UpdateFuncImpl), still has an event in the queue, waiting to be retried or at a
\* worker, until workers overlap, a comparison goes against the numbers or the
\* informer sets the mark too late.  Dropping stale retries and giving up after
\* maxRetries strand no deployment.
THEOREM InProgressCarried == Spec => []InProgressIsCarried
<1> DEFINE Inv == TypeInv /\ (InTurn /\ astray = {} => CarryInv)
<1>1. Init => Inv
  <2>1. SUFFICES ASSUME Init PROVE Inv
    OBVIOUS
  <2>2. CarryInv
    BY <2>1, OrderInit
  <2>3. QED
    BY <2>2 DEF CarryInv, OrderInv
<1>2. Inv /\ [Next]_vars => Inv'
  <2>1. SUFFICES ASSUME Inv, [Next]_vars PROVE Inv'
    OBVIOUS
  <2>2. TypeInv'
    BY <2>1, TypeStep
  <2>3. ASSUME InTurn', astray' = {} PROVE CarryInv'
    <3>1. InTurn /\ astray = {} /\ Numeric'
      BY <2>1, <2>3, TurnKept DEF Numeric
    <3>2. QED
      BY <2>1, <2>3, <3>1, CarryStep
  <2>4. QED
    BY <2>2, <2>3
<1>3. Inv => InProgressIsCarried
  <2>1. SUFFICES ASSUME CarryInv, ProcessStatus = "ProcessingInProgress"
                 PROVE  queue # << >> \/ delayed # << >> \/ \E w \in Workers : work[w] # Idle
    BY DEF InProgressIsCarried
  <2>2. queue = << >> => 1 .. Len(queue) = {}
    OBVIOUS
  <2>3. delayed = << >> => 1 .. Len(delayed) = {}
    OBVIOUS
  <2>4. QED
    BY <2>1, <2>2, <2>3 DEF CarryInv, Carried
<1>4. QED
  BY <1>1, <1>2, <1>3, PTL DEF Spec
-----------------------------------------------------------------------------
(* Deletions: once every event is dealt with, nothing is left behind        *)

\* No mode switched and no deployment ignored
Calm == spent.toggles = 0 /\ spent.ignores = 0

\* The deployments the controller has heard of or is about to hear of
Heard ==
    Held \cup {watch[k].obj : k \in 1 .. Len(watch)}
      \cup {store[n] : n \in {m \in Names : store[m] # NoObj}}

Named ==
    \A n \in Names : /\ api[n] # NoObj => api[n].name = n
                     /\ store[n] # NoObj => store[n].name = n

NothingIgnored ==
    /\ readOnly = FALSE
    /\ \A n \in Names : api[n] # NoObj => ~api[n].ign
    /\ \A o \in Heard : ~o.ign

\* How far the worker has got with a deployment that is there, and with one that
\* is gone
Handles(task) ==
    /\ task.pc \notin {"status", "finish"} => ~task.err
    /\ task.item.type # "Delete" =>
         /\ task.pc # "cache" => Cached = task.item.obj
         /\ task.pc = "write" => task.seen = task.item.obj
         /\ task.pc # "evict"
         /\ task.pc \in {"status", "finish"} /\ ~task.err =>
              mesh = [name |-> task.item.obj.name, tmpl |-> task.item.obj.tmpl]
    /\ task.item.type = "Delete" /\ task.pc \in {"evict", "status", "finish"} /\ ~task.err =>
         mesh = NoObj

AllHandled == \A w \in Workers : work[w] # Idle => Handles(work[w])

\* Without deletions, whatever the controller has heard of exists
AllExist ==
    /\ \A k \in 1 .. Len(watch) : ~watch[k].gone
    /\ \A o \in Heard : api[o.name] # NoObj
    /\ \A w \in Workers : work[w].pc = "write" => api[work[w].seen.name] # NoObj
    /\ mesh # NoObj => api[mesh.name] # NoObj

\* The deletion of n is still to be announced, after the change at place k
GoneAfter(n, k) ==
    \E j \in 1 .. Len(watch) : j > k /\ watch[j].gone /\ watch[j].obj.name = n

\* The deletion of n is announced, after the event at place k, and not yet tried
DeleteAfter(n, k) ==
    \E j \in 1 .. Len(queue) : /\ j > k /\ queue[j].type = "Delete" /\ queue[j].requeues = 0
                               /\ queue[j].obj.name = n

Ends(n, k) == api[n] # NoObj \/ GoneAfter(n, 0) \/ DeleteAfter(n, k)

\* A worker is about to remove n from the mesh and the cache
Removing(n) ==
    \E w \in Workers : /\ work[w] # Idle /\ work[w].item.type = "Delete"
                       /\ work[w].item.obj.name = n
                       /\ work[w].pc \in {"cache", "begin", "write", "evict"}

\* A worker is about to configure the mesh anew
Replacing ==
    \E w \in Workers : /\ work[w] # Idle /\ work[w].item.type # "Delete"
                       /\ work[w].pc \in {"begin", "write"}

\* The informer will be told of every deletion
AllAnnounced ==
    /\ \A k \in 1 .. Len(watch) : watch[k].gone \/ api[watch[k].obj.name] # NoObj
                                  \/ GoneAfter(watch[k].obj.name, k)
    /\ \A n \in Names : store[n] # NoObj => api[n] # NoObj \/ GoneAfter(n, 0)

\* Only deletions that found nothing are tried again
OnlyDeletesRetried ==
    /\ \A k \in 1 .. Len(queue) : queue[k].requeues > 0 => queue[k].type = "Delete"
    /\ \A k \in 1 .. Len(delayed) : delayed[k].type = "Delete"
    /\ \A w \in Workers : work[w] # Idle /\ (work[w].err \/ work[w].item.requeues > 0) =>
          work[w].item.type = "Delete"

\* Every event of a deployment that is gone is followed by its deletion, and so
\* is what the cache and the mesh hold
AllEnd ==
    /\ \A k \in 1 .. Len(queue) : queue[k].type # "Delete" => Ends(queue[k].obj.name, k)
    /\ \A w \in Workers : work[w] # Idle /\ work[w].item.type # "Delete" =>
          Ends(work[w].item.obj.name, 0)
    /\ Cached # NoObj => Ends(Cached.name, 0) \/ Removing(Cached.name)
    /\ mesh # NoObj => Cached # NoObj /\ (mesh.name = Cached.name \/ Replacing)

HandleInv == TypeInv /\ Named /\ AllAnnounced /\ (Calm => NothingIgnored /\ AllHandled)

DeleteInv ==
    /\ HandleInv
    /\ spent.deletes = 0 => AllExist
    /\ Calm /\ spent.failures = 0 => OnlyDeletesRetried /\ AllEnd

LEMMA CountStep ==
    ASSUME TypeOK, NEW kinds, Spend(kinds),
           NEW f \in {"writes", "deletes", "ignores", "failures", "toggles"}
    PROVE  /\ spent'[f] = IF f \in kinds THEN spent[f] + 1 ELSE spent[f]
           /\ spent[f] \in Nat
           /\ spent'[f] = 0 => spent[f] = 0 /\ f \notin kinds
<1> DEFINE Fields == {"writes", "deletes", "ignores", "failures", "toggles", "overlaps"}
<1>1. DOMAIN spent = Fields /\ \A k \in Fields : spent[k] \in Nat
  BY DEF TypeOK, Budget
<1>2. spent' = [k \in Fields |-> IF k \in kinds THEN spent[k] + 1 ELSE spent[k]]
  BY <1>1 DEF Spend
<1>3. QED
  BY <1>1, <1>2

\* How the written deployment relates to the one that was there
Succeeds(o, gone, kinds) ==
    /\ o.rv = Version
    /\ gone <=> "deletes" \in kinds
    /\ \/ /\ api[o.name] = NoObj /\ ~gone /\ ~o.ign
          /\ o.gen = Version /\ o.tmpl = Version
       \/ /\ api[o.name] # NoObj
          /\ "ignores" \in kinds \/ o.ign = api[o.name].ign
          /\ \/ o.gen = api[o.name].gen /\ o.tmpl = api[o.name].tmpl
             \/ o.gen = Version /\ o.tmpl \in {api[o.name].tmpl, Version}

LEMMA ClusterChange ==
    ASSUME TypeOK, Named, Cluster
    PROVE  \E o \in Deployment, gone \in BOOLEAN, kinds \in {{}, {"ignores"}, {"deletes"}} :
              Write(o, gone, kinds) /\ Succeeds(o, gone, kinds)
<1>1. Version \in Nat
  BY BoundsAssumption DEF Version, TypeOK, Budget
<1>2. PICK n \in Names : Create(n) \/ Change(n) \/ Ignore(n) \/ Destroy(n)
  BY DEF Cluster
<1>3. CASE Create(n)
  <2>1. PICK o : o = [name |-> n, rv |-> Version, gen |-> Version, tmpl |-> Version, ign |-> FALSE]
    OBVIOUS
  <2>2. o \in Deployment
    BY <1>1, <2>1 DEF Deployment
  <2>3. Succeeds(o, FALSE, {})
    BY <1>3, <2>1 DEF Create, Succeeds
  <2>4. QED
    BY <1>3, <2>1, <2>2, <2>3 DEF Create
<1>4. CASE Change(n) \/ Ignore(n) \/ Destroy(n)
  <2>1. PICK d \in Deployment : d = api[n]
    BY <1>4 DEF Change, Ignore, Destroy, TypeOK
  <2>2. d # NoObj /\ d.name = n /\ api[d.name] = d
    BY <1>4, <2>1 DEF Change, Ignore, Destroy, Named
  <2>3. ASSUME NEW o \in Deployment, o.name = n, o.rv = Version,
               NEW gone \in BOOLEAN, NEW kinds \in {{}, {"ignores"}, {"deletes"}},
               gone <=> "deletes" \in kinds, "ignores" \in kinds \/ o.ign = d.ign,
               \/ o.gen = d.gen /\ o.tmpl = d.tmpl
               \/ o.gen = Version /\ o.tmpl \in {d.tmpl, Version}
        PROVE  Succeeds(o, gone, kinds)
    BY <2>1, <2>2, <2>3 DEF Succeeds
  <2>4. ASSUME NEW o, o = [d EXCEPT !.rv = Version]
        PROVE  /\ o \in Deployment /\ o.name = n /\ o.rv = Version
               /\ o.gen = d.gen /\ o.tmpl = d.tmpl /\ o.ign = d.ign
    BY <1>1, <2>2, <2>4 DEF Deployment
  <2>5. ASSUME NEW o, o = [d EXCEPT !.rv = Version, !.gen = Version]
        PROVE  /\ o \in Deployment /\ o.name = n /\ o.rv = Version
               /\ o.gen = Version /\ o.tmpl = d.tmpl /\ o.ign = d.ign
    BY <1>1, <2>2, <2>5 DEF Deployment
  <2>6. ASSUME NEW o, o = [d EXCEPT !.rv = Version, !.gen = Version, !.tmpl = Version]
        PROVE  /\ o \in Deployment /\ o.name = n /\ o.rv = Version
               /\ o.gen = Version /\ o.tmpl = Version /\ o.ign = d.ign
    BY <1>1, <2>2, <2>6 DEF Deployment
  <2>11. ASSUME NEW o, o = [d EXCEPT !.rv = Version, !.gen = Version, !.tmpl = Version, !.ign = ~@]
         PROVE  /\ o \in Deployment /\ o.name = n /\ o.rv = Version
                /\ o.gen = Version /\ o.tmpl = Version
    BY <1>1, <2>2, <2>11 DEF Deployment
  <2>12. ASSUME NEW o, o = [d EXCEPT !.rv = Version, !.ign = ~@]
         PROVE  /\ o \in Deployment /\ o.name = n /\ o.rv = Version
                /\ o.gen = d.gen /\ o.tmpl = d.tmpl
    BY <1>1, <2>2, <2>12 DEF Deployment
  <2>7. CASE Change(n)
    <3>1. PICK o : /\ Write(o, FALSE, {})
                   /\ \/ o = [d EXCEPT !.rv = Version]
                      \/ o = [d EXCEPT !.rv = Version, !.gen = Version]
                      \/ o = [d EXCEPT !.rv = Version, !.gen = Version, !.tmpl = Version]
      BY <2>1, <2>7 DEF Change
    <3>2. /\ o \in Deployment /\ o.name = n /\ o.rv = Version /\ o.ign = d.ign
          /\ \/ o.gen = d.gen /\ o.tmpl = d.tmpl
             \/ o.gen = Version /\ o.tmpl \in {d.tmpl, Version}
      BY <2>4, <2>5, <2>6, <3>1
    <3>3. Succeeds(o, FALSE, {})
      BY <2>3, <3>2
    <3>4. QED
      BY <3>1, <3>2, <3>3
  <2>8. CASE Ignore(n)
    <3>1. PICK o : /\ Write(o, FALSE, {"ignores"})
                   /\ \/ o = [d EXCEPT !.rv = Version, !.gen = Version, !.tmpl = Version, !.ign = ~@]
                      \/ o = [d EXCEPT !.rv = Version, !.ign = ~@]
      BY <2>1, <2>8 DEF Ignore
    <3>2. /\ o \in Deployment /\ o.name = n /\ o.rv = Version
          /\ \/ o.gen = d.gen /\ o.tmpl = d.tmpl
             \/ o.gen = Version /\ o.tmpl \in {d.tmpl, Version}
      BY <2>11, <2>12, <3>1
    <3>3. Succeeds(o, FALSE, {"ignores"})
      BY <2>3, <3>2
    <3>4. QED
      BY <3>1, <3>2, <3>3
  <2>9. CASE Destroy(n)
    <3>1. PICK o : Write(o, TRUE, {"deletes"}) /\ o = [d EXCEPT !.rv = Version]
      BY <2>1, <2>9 DEF Destroy
    <3>2. Succeeds(o, TRUE, {"deletes"})
      BY <2>3, <2>4, <3>1
    <3>3. QED
      BY <2>4, <3>1, <3>2
  <2>10. QED
    BY <1>4, <2>7, <2>8, <2>9
<1>5. QED
  BY <1>2, <1>3, <1>4

\* What is written to the API server
LEMMA WriteStep ==
    ASSUME TypeInv, NEW o \in Deployment, NEW gone \in BOOLEAN, NEW kinds, Write(o, gone, kinds)
    PROVE  /\ UNCHANGED <<store, queue, delayed, known, slot, work, mesh, readOnly, informer, astray>>
           /\ Cached' = Cached /\ ProcessStatus' = ProcessStatus /\ Held' = Held
           /\ \A n \in Names : api'[n] = IF n # o.name THEN api[n] ELSE IF gone THEN NoObj ELSE o
           /\ Len(watch) \in Nat /\ Len(watch') = Len(watch) + 1
           /\ watch'[Len(watch) + 1] = [gone |-> gone, obj |-> o]
           /\ \A k \in 1 .. Len(watch) : watch'[k] = watch[k]
           /\ \A k \in 1 .. Len(watch') : k \in 1 .. Len(watch) \/ k = Len(watch) + 1
<1>1. UNCHANGED <<store, queue, delayed, known, slot, work, mesh, readOnly, informer, astray>>
  BY DEF Write, queueVars, cacheVars
<1>2. Cached' = Cached /\ ProcessStatus' = ProcessStatus
  BY <1>1 DEF Cached, ProcessStatus
<1>3. Held' = Held
  BY <1>1, <1>2 DEF Held
<1>4. \A n \in Names : api'[n] = IF n # o.name THEN api[n] ELSE IF gone THEN NoObj ELSE o
  BY DEF Write, TypeInv, TypeOK
<1>5. PICK c \in Changes : c = [gone |-> gone, obj |-> o] /\ watch' = Append(watch, c)
  BY DEF Write, Changes
<1>6. watch \in Seq(Changes)
  BY DEF TypeInv, TypeOK, Changes
<1>7. /\ Len(watch) \in Nat /\ Len(watch') = Len(watch) + 1
      /\ watch'[Len(watch) + 1] = [gone |-> gone, obj |-> o]
      /\ \A k \in 1 .. Len(watch) : watch'[k] = watch[k]
  BY <1>5, <1>6
<1>8. \A k \in 1 .. Len(watch') : k \in 1 .. Len(watch) \/ k = Len(watch) + 1
  BY <1>7
<1>9. QED
  BY <1>1, <1>2, <1>3, <1>4, <1>7, <1>8

\* The deployment UpdateFunc enqueues is one of those it is told of, or the one at
\* the API server
LEMMA UpdateObjects ==
    ASSUME TypeOK, NEW old \in Deployment, NEW new \in Deployment, UpdateFunc(old, new)
    PROVE  \/ UNCHANGED <<queue, informer>>
           \/ \E o \in Deployment :
                 /\ Announces("Update", o)
                 /\ o \in {old, new} \/ (api[new.name] # NoObj /\ o = api[new.name])
<1>1. CASE UNCHANGED <<queue, informer>>
  BY <1>1
<1>2. ASSUME NEW latest \in LatestObj(old, new), Enqueue("Update", latest.obj),
             informer' = [pc |-> "mode", obj |-> latest.obj]
      PROVE  \E o \in Deployment :
                 /\ Announces("Update", o)
                 /\ o \in {old, new} \/ (api[new.name] # NoObj /\ o = api[new.name])
  <2>1. Announces("Update", latest.obj)
    BY <1>2 DEF Announces, Enqueue, NewItem
  <2>2. latest.obj \in Deployment
    BY <1>2, LatestType
  <2>3. latest.obj \in {old, new} \/ (api[new.name] # NoObj /\ latest.obj = api[new.name])
    BY <1>2 DEF LatestObj
  <2>4. QED
    BY <2>1, <2>2, <2>3
<1>3. QED
  BY <1>1, <1>2 DEF UpdateFunc

\* What the informer announces, and the change it was told of
LEMMA InformerObjects ==
    ASSUME TypeInv, Named, Notify \/ \E n \in Names : Resync(n)
    PROVE  /\ UNCHANGED <<api, delayed, known, slot, work, mesh, readOnly, spent>> /\ Cached' = Cached
           /\ \/ UNCHANGED <<watch, store>>
              \/ /\ Len(watch) > 0 /\ watch' = Tail(watch) /\ watch[1] \in Changes
                 /\ store' = [store EXCEPT ![watch[1].obj.name] =
                                IF watch[1].gone THEN NoObj ELSE watch[1].obj]
           /\ \/ queue' = queue /\ (watch' = watch \/ ~watch[1].gone)
              \/ \E type \in EventTypes, o \in Deployment :
                    /\ Announces(type, o)
                    /\ \/ \E n \in Names : /\ store[n] # NoObj /\ o = store[n] /\ type # "Delete"
                                           /\ watch' = watch \/ (n = watch[1].obj.name /\ ~watch[1].gone)
                       \/ /\ Len(watch) > 0 /\ watch' = Tail(watch) /\ o = watch[1].obj
                          /\ (type = "Delete" <=> watch[1].gone)
                       \/ /\ api[o.name] = o /\ o # NoObj /\ type # "Delete"
                          /\ watch' = watch \/ ~watch[1].gone
<1> USE DEF TypeInv
<1>1. Cached' = Cached
  BY DEF Notify, Resync, cacheVars, Cached
<1>3. \A d \in Deployment : d # NoObj
  BY DEF Deployment, NoObj
<1>4. CASE Notify
  <2>1. PICK c \in Changes :
             /\ watch # << >> /\ c = watch[1] /\ watch' = Tail(watch)
             /\ store' = [store EXCEPT ![c.obj.name] = IF c.gone THEN NoObj ELSE c.obj]
             /\ UNCHANGED <<api, delayed, known, slot, work, mesh, readOnly, spent>>
             /\ \/ c.gone /\ Announces("Delete", c.obj)
                \/ ~c.gone /\ Announces("Add", c.obj)
                \/ /\ ~c.gone /\ store[c.obj.name] \in Deployment
                   /\ store[c.obj.name] # NoObj
                   /\ UpdateFunc(store[c.obj.name], c.obj)
    BY <1>4, NotifyStep
  <2>2. c.obj \in Deployment /\ c.obj.name \in Names /\ c.gone \in BOOLEAN
    BY DEF Changes, Deployment
  <2>3. Len(watch) > 0
    BY <2>1 DEF TypeOK
  <2>4. CASE c.gone /\ Announces("Delete", c.obj)
    BY <1>1, <2>1, <2>2, <2>3, <2>4 DEF EventTypes
  <2>5. CASE ~c.gone /\ Announces("Add", c.obj)
    BY <1>1, <2>1, <2>2, <2>3, <2>5 DEF EventTypes
  <2>6. CASE /\ ~c.gone /\ store[c.obj.name] \in Deployment
             /\ store[c.obj.name] # NoObj
             /\ UpdateFunc(store[c.obj.name], c.obj)
    <3>1. CASE UNCHANGED <<queue, informer>>
      BY <1>1, <2>1, <2>2, <2>3, <2>6, <3>1
    <3>2. ASSUME NEW o \in Deployment, Announces("Update", o),
                 \/ o \in {store[c.obj.name], c.obj}
                 \/ api[c.obj.name] # NoObj /\ o = api[c.obj.name]
          PROVE  /\ Cached' = Cached
                 /\ \/ \E n \in Names : store[n] # NoObj /\ o = store[n] /\ n = c.obj.name
                    \/ o = c.obj
                    \/ api[o.name] = o /\ o # NoObj
      <4>1. Cached' = Cached
        BY <1>1
      <4>2. api[c.obj.name] # NoObj /\ o = api[c.obj.name] => api[o.name] = o
        BY <2>2 DEF Named
      <4>3. QED
        BY <1>3, <2>2, <2>6, <3>2, <4>1, <4>2
    <3>3. CASE \E o \in Deployment :
                 /\ Announces("Update", o)
                 /\ \/ o \in {store[c.obj.name], c.obj}
                    \/ api[c.obj.name] # NoObj /\ o = api[c.obj.name]
      <4>1. PICK o \in Deployment :
                 /\ Announces("Update", o)
                 /\ \/ o \in {store[c.obj.name], c.obj}
                    \/ api[c.obj.name] # NoObj /\ o = api[c.obj.name]
        BY <3>3
      <4>2. "Update" \in EventTypes /\ "Update" # "Delete"
        BY DEF EventTypes
      <4>3. QED
        BY <2>1, <2>2, <2>3, <2>6, <3>2, <4>1, <4>2
    <3>4. QED
      BY <2>2, <2>6, <3>1, <3>3, UpdateObjects
  <2>7. QED
    BY <2>1, <2>4, <2>5, <2>6
<1>5. CASE \E n \in Names : Resync(n)
  <2>1. PICK n \in Names : /\ store[n] # NoObj /\ UpdateFunc(store[n], store[n])
                           /\ UNCHANGED <<api, watch, store, delayed, known, slot, work, mesh,
                                          readOnly, spent>>
    BY <1>5 DEF Resync, clusterVars, cacheVars
  <2>2. store[n] \in Deployment /\ store[n].name = n
    BY <2>1 DEF TypeOK, Named
  <2>3. CASE UNCHANGED <<queue, informer>>
    BY <1>1, <2>1, <2>3
  <2>4. CASE \E o \in Deployment :
                 /\ Announces("Update", o)
                 /\ o \in {store[n], store[n]} \/ (api[store[n].name] # NoObj /\ o = api[store[n].name])
    <3>1. PICK o \in Deployment :
                 /\ Announces("Update", o)
                 /\ o = store[n] \/ (api[n] # NoObj /\ o = api[n])
      BY <2>2, <2>4
    <3>2. api[n] # NoObj /\ o = api[n] => api[o.name] = o
      BY DEF Named
    <3>3. "Update" \in EventTypes /\ "Update" # "Delete"
      BY DEF EventTypes
    <3>4. Cached' = Cached
      BY <1>1
    <3>5. QED
      BY <1>3, <2>1, <3>1, <3>2, <3>3, <3>4
  <2>5. QED
    BY <2>1, <2>2, <2>3, <2>4, UpdateObjects
<1>6. QED
  BY <1>4, <1>5

\* Membership of Heard, before and after a step
LEMMA HeardParts ==
    /\ \A o \in Held : o \in Heard
    /\ \A k \in 1 .. Len(watch) : watch[k].obj \in Heard
    /\ \A n \in Names : store[n] # NoObj => store[n] \in Heard
    /\ \A o \in Heard' :
         \/ o \in Held'
         \/ \E k \in 1 .. Len(watch') : o = watch'[k].obj
         \/ \E n \in Names : store'[n] # NoObj /\ o = store'[n]
<1>1. \A o \in Held : o \in Heard
  BY DEF Heard
<1>2. \A k \in 1 .. Len(watch) : watch[k].obj \in Heard
  BY DEF Heard
<1>3. \A n \in Names : store[n] # NoObj => store[n] \in Heard
  BY DEF Heard
<1>4. \A o \in Heard' :
         \/ o \in Held'
         \/ \E k \in 1 .. Len(watch') : o = watch'[k].obj
         \/ \E n \in Names : store'[n] # NoObj /\ o = store'[n]
  BY DEF Heard
<1>5. QED
  BY <1>1, <1>2, <1>3, <1>4

LEMMA HeardType ==
    ASSUME TypeInv
    PROVE  \A o \in Heard : o \in Deployment
<1>1. \A k \in 1 .. Len(watch) : watch[k].obj \in Deployment
  <2>1. watch \in Seq(Changes)
    BY DEF TypeInv, TypeOK, Changes
  <2>2. \A k \in 1 .. Len(watch) : watch[k] \in Changes
    BY <2>1
  <2>3. QED
    BY <2>2 DEF Changes
<1>2. \A n \in Names : store[n] # NoObj => store[n] \in Deployment
  BY DEF TypeInv, TypeOK
<1>3. QED
  BY <1>1, <1>2, HeldType DEF Heard

\* The worker keeps what it holds, hands it over to the cache or drops it
LEMMA HeldStep ==
    ASSUME TypeInv, NEW w \in Workers, Worker(w)
    PROVE  (\A o \in Held' : o \in Held) /\ UNCHANGED <<api, watch, store, readOnly>>
<1>1. work \in [Workers -> Busy \cup {Idle}]
  BY DEF TypeInv, TypeOK
<1>2. CASE GetItem(w)
  <2>1. /\ Len(queue) > 0 /\ Len(queue) = Len(queue') + 1
        /\ UNCHANGED <<api, watch, store, delayed, known, slot, mesh, readOnly>>
        /\ \A k \in 1 .. Len(queue') : queue'[k] = queue[k + 1] /\ k + 1 \in 1 .. Len(queue)
        /\ \/ work' = work
           \/ \E t \in Busy : work' = [work EXCEPT ![w] = t] /\ t.item = queue[1]
    BY <1>2, GetStep
  <2>2. Cached' = Cached
    BY <2>1 DEF Cached
  <2>3. queue[1].obj \in Held
    <3>1. 1 \in 1 .. Len(queue)
      BY <2>1 DEF TypeInv, TypeOK
    <3>2. QED
      BY <3>1, HeldParts
  <2>4. \A v \in Workers : work'[v] # Idle => work'[v].item.obj \in Held
    <3>1. CASE work' = work
      BY <3>1, HeldParts
    <3>2. CASE \E t \in Busy : work' = [work EXCEPT ![w] = t] /\ t.item = queue[1]
      BY <1>1, <2>3, <3>2, HeldParts
    <3>3. QED
      BY <2>1, <3>1, <3>2
  <2>5. QED
    BY <2>1, <2>2, <2>4, HeldParts
<1>3. CASE \/ CacheStep(w) \/ Begin(w) \/ WriteMesh(w) \/ FailWrite(w) \/ Evict(w) \/ SetStatus(w)
  <2>1. /\ work[w] # Idle
        /\ UNCHANGED <<api, watch, store, queue, delayed, readOnly>>
        /\ Cached' \in {Cached, NoObj} \/ Cached' = work[w].item.obj
        /\ \E t \in Busy : work' = [work EXCEPT ![w] = t] /\ t.item = work[w].item
    BY <1>3, BusyStep
  <2>2. \A v \in Workers : work'[v] # Idle => work'[v].item.obj \in Held
    BY <1>1, <2>1, HeldParts
  <2>3. QED
    BY <2>1, <2>2, HeldParts
<1>4. CASE Finish(w)
  <2>1. /\ work[w] # Idle
        /\ UNCHANGED <<api, watch, store, queue, known, mesh, readOnly, spent>>
        /\ work' = [work EXCEPT ![w] = Idle] /\ Cached' = Cached
        /\ \/ delayed' = delayed
           \/ \E x \in Item : delayed' = Append(delayed, x) /\ x.obj = work[w].item.obj
    BY <1>4, FinishStep
  <2>2. \A k \in 1 .. Len(delayed') : delayed'[k].obj \in Held
    <3>1. CASE delayed' = delayed
      BY <3>1, HeldParts
    <3>2. CASE \E x \in Item : delayed' = Append(delayed, x) /\ x.obj = work[w].item.obj
      <4>1. PICK x \in Item : delayed' = Append(delayed, x) /\ x.obj = work[w].item.obj
        BY <3>2
      <4>2. delayed \in Seq(Item)
        BY DEF TypeInv, TypeOK
      <4>3. \A k \in 1 .. Len(delayed') :
               (k \in 1 .. Len(delayed) /\ delayed'[k] = delayed[k]) \/ delayed'[k] = x
        BY <4>1, <4>2
      <4>4. QED
        BY <2>1, <4>1, <4>3, HeldParts
    <3>3. QED
      BY <2>1, <3>1, <3>2
  <2>3. \A v \in Workers : work'[v] # Idle => work'[v].item.obj \in Held
    BY <1>1, <2>1, HeldParts
  <2>4. QED
    BY <2>1, <2>2, <2>3, HeldParts
<1>5. QED
  BY <1>2, <1>3, <1>4 DEF Worker, Progress

\* Apart from what is written to the API server, nothing is heard of that was not
\* heard of before, or that exists
LEMMA HeardStep ==
    ASSUME TypeInv, Named, [Next]_vars, ~Cluster
    PROVE  /\ api' = api
           /\ \A o \in Heard' : o \in Heard \/ (o # NoObj /\ o.name \in Names /\ api[o.name] = o)
<1>1. ASSUME UNCHANGED <<api, watch, store>>, \A o \in Held' : o \in Held
      PROVE  api' = api /\ \A o \in Heard' : o \in Heard
  BY <1>1, HeardParts
<1>2. CASE UNCHANGED vars \/ ToggleMode
  <2>1. UNCHANGED <<api, watch, store, queue, delayed, known, slot, work>>
    BY <1>2 DEF vars, ToggleMode, clusterVars, queueVars, cacheVars
  <2>2. Held' = Held
    BY <2>1 DEF Held, Cached
  <2>3. QED
    BY <1>1, <2>1, <2>2
<1>7. CASE ReadMode \/ MarkInProgress
  <2>1. UNCHANGED <<api, watch, store, queue, delayed, work>> /\ Cached' = Cached
    BY <1>7, MarkStep
  <2>2. Held' = Held
    BY <2>1 DEF Held
  <2>3. QED
    BY <1>1, <2>1, <2>2
<1>3. ASSUME NEW w \in Workers, Worker(w)
      PROVE  api' = api /\ \A o \in Heard' : o \in Heard
  BY <1>1, <1>3, HeldStep
<1>4. CASE Requeue
  <2>1. PICK i \in 1 .. Len(delayed) :
          /\ UNCHANGED <<api, watch, store, known, slot, work, mesh, readOnly, spent>>
          /\ queue' \in Seq(Item) /\ Len(queue') = Len(queue) + 1
          /\ queue'[Len(queue) + 1] = delayed[i]
          /\ \A k \in 1 .. Len(queue) : queue'[k] = queue[k]
          /\ \A k \in 1 .. Len(delayed') : \E j \in 1 .. Len(delayed) : delayed'[k] = delayed[j]
    BY <1>4, RequeueStep
  <2>2. Cached' = Cached /\ Len(queue) \in Nat
    BY <2>1 DEF Cached, TypeInv, TypeOK
  <2>3. \A k \in 1 .. Len(queue') :
           (k \in 1 .. Len(queue) /\ queue'[k] = queue[k]) \/ queue'[k] = delayed[i]
    BY <2>1, <2>2
  <2>4. \A o \in Held' : o \in Held
    BY <2>1, <2>2, <2>3, HeldParts
  <2>5. QED
    BY <1>1, <2>1, <2>4
<1>5. CASE Notify \/ \E n \in Names : Resync(n)
  <2>1. /\ UNCHANGED <<api, delayed, known, slot, work, mesh, readOnly, spent>> /\ Cached' = Cached
        /\ \/ UNCHANGED <<watch, store>>
           \/ /\ Len(watch) > 0 /\ watch' = Tail(watch) /\ watch[1] \in Changes
              /\ store' = [store EXCEPT ![watch[1].obj.name] =
                             IF watch[1].gone THEN NoObj ELSE watch[1].obj]
        /\ \/ queue' = queue
           \/ \E type \in EventTypes, o \in Deployment :
                 /\ Announces(type, o)
                 /\ \/ \E n \in Names : store[n] # NoObj /\ o = store[n]
                    \/ Len(watch) > 0 /\ watch' = Tail(watch) /\ o = watch[1].obj
                    \/ api[o.name] = o /\ o # NoObj
    BY <1>5, InformerObjects
  <2>2. watch \in Seq(Changes) /\ store \in [Names -> Objects]
    BY DEF TypeInv, TypeOK, Changes, Objects
  <2>3. watch # << >> => watch[1].obj \in Heard
    BY <2>2, HeardParts
  <2>4. \A k \in 1 .. Len(watch') : watch'[k].obj \in Heard
    <3>1. CASE watch' = watch
      BY <3>1, HeardParts
    <3>2. CASE Len(watch) > 0 /\ watch' = Tail(watch)
      <4>1. \A k \in 1 .. Len(watch') : k + 1 \in 1 .. Len(watch) /\ watch'[k] = watch[k + 1]
        BY <2>2, <3>2
      <4>2. QED
        BY <4>1, HeardParts
    <3>3. QED
      BY <2>1, <3>1, <3>2
  <2>5. \A n \in Names : store'[n] # NoObj => store'[n] \in Heard
    <3>1. CASE UNCHANGED <<watch, store>>
      BY <3>1, HeardParts
    <3>2. CASE /\ Len(watch) > 0 /\ watch[1] \in Changes
               /\ store' = [store EXCEPT ![watch[1].obj.name] =
                              IF watch[1].gone THEN NoObj ELSE watch[1].obj]
      <4>1. watch # << >>
        BY <3>2
      <4>2. QED
        BY <2>2, <2>3, <3>2, <4>1, HeardParts
    <3>3. QED
      BY <2>1, <3>1, <3>2
  <2>6. \A o \in Held' : o \in Heard \/ (o # NoObj /\ o.name \in Names /\ api[o.name] = o)
    <3>1. CASE queue' = queue
      <4>1. Held' = Held
        BY <2>1, <3>1 DEF Held
      <4>2. QED
        BY <4>1, HeardParts
    <3>2. ASSUME NEW type \in EventTypes, NEW o \in Deployment, Announces(type, o),
                 \/ \E n \in Names : store[n] # NoObj /\ o = store[n]
                 \/ Len(watch) > 0 /\ watch' = Tail(watch) /\ o = watch[1].obj
                 \/ api[o.name] = o /\ o # NoObj
          PROVE  \A x \in Held' : x \in Heard \/ (x # NoObj /\ x.name \in Names /\ api[x.name] = x)
      <4>1. o \in Heard \/ (o # NoObj /\ o.name \in Names /\ api[o.name] = o)
        <5>1. o.name \in Names
          BY DEF Deployment
        <5>2. Len(watch) > 0 => watch # << >>
          OBVIOUS
        <5>3. QED
          BY <2>1, <2>3, <3>2, <5>1, <5>2, HeardParts
      <4>2. /\ queue' \in Seq(Item) /\ Len(queue') = Len(queue) + 1
            /\ queue'[Len(queue) + 1] = [type |-> type, obj |-> o, requeues |-> 0]
            /\ \A k \in 1 .. Len(queue) : queue'[k] = queue[k]
        BY <3>2, AnnounceStep DEF TypeInv
      <4>3. Len(queue) \in Nat
        BY DEF TypeInv, TypeOK
      <4>4. \A k \in 1 .. Len(queue') : (k \in 1 .. Len(queue) /\ queue'[k] = queue[k])
                                          \/ queue'[k].obj = o
        BY <4>2, <4>3
      <4>5. \A x \in Held' : x \in Held \/ x = o
        BY <2>1, <4>4, HeldParts
      <4>6. QED
        BY <4>1, <4>5, HeardParts
    <3>3. QED
      BY <2>1, <3>1, <3>2
  <2>7. QED
    BY <2>1, <2>4, <2>5, <2>6, HeardParts
<1>6. QED
  BY <1>2, <1>3, <1>4, <1>5, <1>7 DEF Next

\* Nothing that has been counted is forgotten
LEMMA CalmStep ==
    ASSUME TypeInv, [Next]_vars
    PROVE  /\ Calm' => Calm /\ readOnly' = readOnly
           /\ spent'.deletes = 0 => spent.deletes = 0
           /\ spent'.failures = 0 => spent.failures = 0 /\ \A w \in Workers : ~FailWrite(w)
<1> DEFINE Kept == /\ Calm' => Calm /\ readOnly' = readOnly
                   /\ spent'.deletes = 0 => spent.deletes = 0
                   /\ spent'.failures = 0 => spent.failures = 0
<1>1. ASSUME NEW kinds, Spend(kinds)
      PROVE  /\ spent'.toggles = 0 => spent.toggles = 0 /\ "toggles" \notin kinds
             /\ spent'.ignores = 0 => spent.ignores = 0
             /\ spent'.deletes = 0 => spent.deletes = 0
             /\ spent'.failures = 0 => spent.failures = 0 /\ "failures" \notin kinds
  BY <1>1, CountStep DEF TypeInv
<1>2. CASE UNCHANGED <<spent, readOnly>>
  <2>1. Kept
    BY <1>2 DEF Calm
  <2>2. spent.failures \in Nat
    BY DEF TypeInv, TypeOK, Budget
  <2>3. \A w \in Workers : FailWrite(w) => spent'.failures = spent.failures + 1
    BY CountStep DEF FailWrite, TypeInv
  <2>4. QED
    BY <1>2, <2>1, <2>2, <2>3
<1>3. CASE \E kinds : Spend(kinds) /\ UNCHANGED readOnly
  <2>1. Kept
    BY <1>1, <1>3 DEF Calm
  <2>2. \A w \in Workers : FailWrite(w) => spent'.failures # 0
    BY <1>1 DEF FailWrite
  <2>3. QED
    BY <2>1, <2>2
<1>4. CASE ToggleMode
  <2>1. Spend({"toggles"})
    BY <1>4 DEF ToggleMode
  <2>2. Kept
    BY <1>1, <2>1 DEF Calm
  <2>3. \A w \in Workers : FailWrite(w) => spent'.failures # 0
    BY <1>1 DEF FailWrite
  <2>4. QED
    BY <2>2, <2>3
<1>5. ASSUME NEW w \in Workers, Worker(w)
      PROVE  \/ UNCHANGED <<spent, readOnly>>
             \/ \E kinds : Spend(kinds) /\ UNCHANGED readOnly
  <2>1. CASE FailWrite(w)
    BY <2>1 DEF FailWrite
  <2>2. CASE Progress(w)
    BY <2>2 DEF Progress, GetItem, CacheStep, Begin, WriteMesh, Evict, SetStatus, Finish
  <2>3. QED
    BY <1>5, <2>1, <2>2 DEF Worker
<1>6. Notify \/ (\E n \in Names : Resync(n)) \/ ReadMode \/ MarkInProgress \/ Requeue =>
         UNCHANGED <<spent, readOnly>>
  BY DEF Notify, Resync, ReadMode, MarkInProgress, Requeue
<1>7. Cluster => \E kinds : Spend(kinds) /\ UNCHANGED readOnly
  <2>1. SUFFICES ASSUME Cluster PROVE \E kinds : Spend(kinds) /\ UNCHANGED readOnly
    OBVIOUS
  <2>2. PICK o \in Deployment, gone \in BOOLEAN, kinds \in {{}, {"ignores"}, {"deletes"}} :
           Write(o, gone, kinds)
    BY <2>1, ClusterWrites DEF TypeInv
  <2>3. QED
    BY <2>2 DEF Write
<1>8. UNCHANGED vars => UNCHANGED <<spent, readOnly>>
  BY DEF vars
<1>9. QED
  BY <1>2, <1>3, <1>4, <1>5, <1>6, <1>7, <1>8 DEF Next

-----------------------------------------------------------------------------
(* The worker, step by step, in read-write mode                             *)

\* The worker w goes on as t, with the same item
Goes(w, t) == work' = [work EXCEPT ![w] = t] /\ t.item = work[w].item

LEMMA PlaceStep ==
    ASSUME TypeInv, NEW w \in Workers, work[w] \in Busy,
           NEW pc \in {"begin", "write", "evict", "status", "finish"}, Goto(w, pc)
    PROVE  \E t \in Busy : Goes(w, t) /\ t.pc = pc /\ t.err = work[w].err /\ t.seen = work[w].seen
<1>1. work' = [work EXCEPT ![w] = [pc |-> pc, item |-> work[w].item,
                                   seen |-> work[w].seen, err |-> work[w].err]]
  BY GotoFields DEF TypeInv
<1>2. [pc |-> pc, item |-> work[w].item, seen |-> work[w].seen, err |-> work[w].err] \in Busy
  BY DEF Busy
<1>3. QED
  BY <1>1, <1>2 DEF Goes

LEMMA CacheDetail ==
    ASSUME TypeInv, NEW w \in Workers, CacheStep(w), ~work[w].item.obj.ign
    PROVE  /\ work[w] \in Busy /\ work[w] # Idle /\ work[w].pc = "cache" /\ mesh' = mesh
           /\ Cached' = IF work[w].item.type = "Delete" THEN Cached ELSE work[w].item.obj
           /\ work[w].item.type = "Delete" => ProcessStatus' = ProcessStatus
           /\ \E t \in Busy : Goes(w, t) /\ t.pc = "begin" /\ t.err = work[w].err
<1>1. work[w].pc = "cache" /\ mesh' = mesh /\ Goto(w, "begin")
      /\ IF work[w].item.type = "Delete" THEN UNCHANGED cacheVars ELSE CachePut(work[w].item.obj)
  BY DEF CacheStep
<1>2. work[w] \in Busy /\ work[w] # Idle /\ work[w].item.obj \in Deployment
  BY <1>1, BusyType, ItemTypes DEF TypeInv
<1>3. CASE work[w].item.type = "Delete"
  BY <1>1, <1>2, <1>3, PlaceStep DEF cacheVars, Cached, ProcessStatus
<1>4. CASE work[w].item.type # "Delete"
  BY <1>1, <1>2, <1>4, PlaceStep, PutStep DEF TypeInv
<1>5. QED
  BY <1>3, <1>4

LEMMA BeginDetail ==
    ASSUME TypeInv, NEW w \in Workers, Begin(w), readOnly = FALSE
    PROVE  /\ work[w] \in Busy /\ work[w] # Idle /\ work[w].pc = "begin" /\ mesh' = mesh
           /\ Cached' = Cached /\ ProcessStatus' = ProcessStatus
           /\ \E t \in Busy :
                /\ Goes(w, t)
                /\ \/ Cached = NoObj /\ t.pc = "status" /\ t.err
                   \/ Cached # NoObj /\ t.pc = "write" /\ t.seen = Cached /\ t.err = work[w].err
<1>1. PICK s : s = work[w]
  OBVIOUS
<1>2. s.pc = "begin" /\ mesh' = mesh /\ UNCHANGED <<known, slot>>
  BY <1>1 DEF Begin, cacheVars
<1>3. s \in Busy /\ s # Idle /\ Cached \in Objects
  BY <1>1, <1>2, BusyType, CachedType DEF TypeInv
<1>4. PICK t : /\ work' = [work EXCEPT ![w] = t]
               /\ \/ Cached = NoObj /\ t = [s EXCEPT !.pc = "status", !.err = TRUE]
                  \/ Cached # NoObj /\ t = [s EXCEPT !.pc = "write", !.seen = Cached]
  BY <1>1 DEF Begin
<1>5. /\ t \in Busy /\ t.item = s.item
      /\ \/ Cached = NoObj /\ t.pc = "status" /\ t.err
         \/ Cached # NoObj /\ t.pc = "write" /\ t.seen = Cached /\ t.err = s.err
  BY <1>3, <1>4 DEF Busy, Objects
<1>6. QED
  BY <1>1, <1>2, <1>3, <1>4, <1>5 DEF Goes, Cached, ProcessStatus

LEMMA WriteDetail ==
    ASSUME TypeInv, NEW w \in Workers, WriteMesh(w)
    PROVE  /\ work[w] \in Busy /\ work[w] # Idle /\ work[w].pc = "write" /\ mesh' = Desired(w)
           /\ Cached' = Cached /\ ProcessStatus' = ProcessStatus
           /\ \E t \in Busy : /\ Goes(w, t) /\ t.err = work[w].err
                              /\ t.pc = IF t.item.type = "Delete" THEN "evict" ELSE "status"
<1>1. work[w].pc = "write" /\ mesh' = Desired(w) /\ UNCHANGED <<known, slot>>
      /\ Goto(w, AfterHandler(w))
  BY DEF WriteMesh, cacheVars
<1>2. work[w] \in Busy /\ work[w] # Idle
  BY <1>1, BusyType DEF TypeInv
<1>3. AfterHandler(w) \in {"evict", "status"}
  BY DEF AfterHandler
<1>4. PICK t \in Busy : Goes(w, t) /\ t.pc = AfterHandler(w) /\ t.err = work[w].err
  BY <1>1, <1>2, <1>3, PlaceStep
<1>5. QED
  BY <1>1, <1>2, <1>4 DEF Cached, ProcessStatus, AfterHandler, Goes

LEMMA FailDetail ==
    ASSUME TypeInv, NEW w \in Workers, FailWrite(w)
    PROVE  /\ work[w] \in Busy /\ work[w] # Idle /\ work[w].pc = "write"
           /\ mesh' \in {mesh, Desired(w)}
           /\ Cached' = Cached /\ ProcessStatus' = ProcessStatus
           /\ \E t \in Busy : Goes(w, t) /\ t.err /\ t.pc = "status"
<1>1. work[w].pc = "write" /\ mesh' \in {mesh, Desired(w)} /\ UNCHANGED <<known, slot>>
  BY DEF FailWrite, cacheVars
<1>2. PICK s \in Busy : s = work[w] /\ s # Idle
  BY <1>1, BusyType DEF TypeInv
<1>3. PICK t : t = [s EXCEPT !.pc = "status", !.err = TRUE] /\ work' = [work EXCEPT ![w] = t]
  BY <1>2 DEF FailWrite, TypeInv, TypeOK
<1>4. t \in Busy /\ t.item = s.item /\ t.err /\ t.pc = "status"
  BY <1>2, <1>3 DEF Busy
<1>5. QED
  BY <1>1, <1>2, <1>3, <1>4 DEF Goes, Cached, ProcessStatus

LEMMA EvictDetail ==
    ASSUME TypeInv, NEW w \in Workers, Evict(w)
    PROVE  /\ work[w] \in Busy /\ work[w] # Idle /\ work[w].pc = "evict" /\ mesh' = mesh
           /\ Cached' = IF Cached # NoObj /\ Cached.name = work[w].item.obj.name
                        THEN NoObj ELSE Cached
           /\ Cached' = Cached => ProcessStatus' = ProcessStatus \/ Cached = NoObj
           /\ \E t \in Busy : Goes(w, t) /\ t.err = work[w].err /\ t.pc = "status"
<1>1. work[w].pc = "evict" /\ mesh' = mesh /\ CacheDelete(work[w].item.obj) /\ Goto(w, "status")
  BY DEF Evict
<1>2. work[w] \in Busy /\ work[w] # Idle
  BY <1>1, BusyType DEF TypeInv
<1>3. \E t \in Busy : Goes(w, t) /\ t.err = work[w].err /\ t.pc = "status"
  BY <1>1, <1>2, PlaceStep
<1>4. slot' = IF Cached # NoObj /\ Cached.name = work[w].item.obj.name THEN NoItem ELSE slot
  BY <1>1 DEF CacheDelete
<1>5. /\ Cached' = IF Cached # NoObj /\ Cached.name = work[w].item.obj.name
                   THEN NoObj ELSE Cached
      /\ Cached' = Cached => ProcessStatus' = ProcessStatus \/ Cached = NoObj
  BY <1>4 DEF Cached, ProcessStatus
<1>6. QED
  BY <1>1, <1>2, <1>3, <1>5

LEMMA StatusDetail ==
    ASSUME TypeInv, NEW w \in Workers, SetStatus(w), readOnly = FALSE
    PROVE  /\ work[w] \in Busy /\ work[w] # Idle /\ work[w].pc = "status" /\ mesh' = mesh
           /\ Cached' = Cached
           /\ \E t \in Busy : Goes(w, t) /\ t.err = work[w].err /\ t.pc = "finish"
<1>1. work[w].pc = "status" /\ mesh' = mesh /\ Goto(w, "finish")
  BY DEF SetStatus
<1>2. \E status \in Statuses : UpdateProcessStatus(status)
  BY DEF SetStatus, Statuses
<1>3. work[w] \in Busy /\ work[w] # Idle
  BY <1>1, BusyType DEF TypeInv
<1>4. Cached' = Cached
  BY <1>2, StatusStep DEF TypeInv
<1>5. QED
  BY <1>1, <1>3, <1>4, PlaceStep

LEMMA NamedStep ==
    ASSUME TypeInv, Named, [Next]_vars
    PROVE  Named'
<1>1. CASE UNCHANGED <<api, store>>
  BY <1>1 DEF Named
<1>2. CASE Cluster
  <2>1. PICK o \in Deployment, gone \in BOOLEAN, kinds \in {{}, {"ignores"}, {"deletes"}} :
           Write(o, gone, kinds)
    BY <1>2, ClusterWrites DEF TypeInv
  <2>2. /\ store' = store
        /\ \A n \in Names : api'[n] = IF n # o.name THEN api[n] ELSE IF gone THEN NoObj ELSE o
    BY <2>1, WriteStep
  <2>3. QED
    BY <2>2 DEF Named
<1>3. CASE Notify \/ \E n \in Names : Resync(n)
  <2>1. /\ api' = api
        /\ \/ UNCHANGED <<watch, store>>
           \/ /\ watch[1] \in Changes
              /\ store' = [store EXCEPT ![watch[1].obj.name] =
                             IF watch[1].gone THEN NoObj ELSE watch[1].obj]
    BY <1>3, InformerObjects
  <2>2. CASE /\ watch[1] \in Changes
             /\ store' = [store EXCEPT ![watch[1].obj.name] =
                            IF watch[1].gone THEN NoObj ELSE watch[1].obj]
    <3>1. store \in [Names -> Objects]
      BY DEF TypeInv, TypeOK, Objects
    <3>2. QED
      BY <2>1, <2>2, <3>1 DEF Named
  <2>3. QED
    BY <1>1, <2>1, <2>2
<1>4. ASSUME NEW w \in Workers, Worker(w)
      PROVE  UNCHANGED <<api, store>>
  BY <1>4, HeldStep
<1>5. UNCHANGED vars \/ ToggleMode \/ Requeue \/ ReadMode \/ MarkInProgress => UNCHANGED <<api, store>>
  BY DEF vars, ToggleMode, Requeue, ReadMode, MarkInProgress, clusterVars
<1>6. QED
  BY <1>1, <1>2, <1>3, <1>4, <1>5 DEF Next

\* The informer will still be told of every deletion
LEMMA AnnouncedStep ==
    ASSUME TypeInv, Named, AllAnnounced, [Next]_vars
    PROVE  AllAnnounced'
<1>1. CASE UNCHANGED <<api, watch, store>>
  BY <1>1 DEF AllAnnounced, GoneAfter
<1>2. CASE Cluster
  <2>1. PICK o \in Deployment, gone \in BOOLEAN, kinds \in {{}, {"ignores"}, {"deletes"}} :
           Write(o, gone, kinds)
    BY <1>2, ClusterWrites DEF TypeInv
  <2>2. PICK L \in Nat :
        /\ L = Len(watch) /\ Len(watch') = L + 1 /\ watch'[L + 1] = [gone |-> gone, obj |-> o]
        /\ \A k \in 1 .. L : watch'[k] = watch[k]
        /\ \A k \in 1 .. Len(watch') : k \in 1 .. L \/ k = L + 1
        /\ store' = store
        /\ \A n \in Names : api'[n] = IF n # o.name THEN api[n] ELSE IF gone THEN NoObj ELSE o
    BY <2>1, WriteStep
  <2>3. o # NoObj
    BY DEF Deployment, NoObj
  <2>4. ASSUME NEW n \in Names, NEW k \in 0 .. L, api[n] # NoObj \/ GoneAfter(n, k)
        PROVE  api'[n] # NoObj \/ GoneAfter(n, k)'
    <3>1. CASE n = o.name /\ gone
      <4>1. L + 1 \in 1 .. Len(watch') /\ L + 1 > k
        BY <2>2
      <4>2. QED
        BY <2>2, <3>1, <4>1 DEF GoneAfter
    <3>2. CASE n = o.name /\ ~gone
      BY <2>2, <2>3, <3>2
    <3>3. CASE n # o.name
      <4>1. ASSUME NEW j \in 1 .. L, j > k, watch[j].gone, watch[j].obj.name = n
            PROVE  GoneAfter(n, k)'
        <5>1. j \in 1 .. Len(watch') /\ watch'[j] = watch[j]
          BY <2>2
        <5>2. QED
          BY <4>1, <5>1 DEF GoneAfter
      <4>2. QED
        BY <2>2, <2>4, <3>3, <4>1 DEF GoneAfter
    <3>4. QED
      BY <3>1, <3>2, <3>3
  <2>5. ASSUME NEW k \in 1 .. Len(watch'), ~watch'[k].gone
        PROVE  api'[watch'[k].obj.name] # NoObj \/ GoneAfter(watch[k].obj.name, k)'
    <3>1. CASE k \in 1 .. L
      <4>1. PICK n \in Names : n = watch[k].obj.name /\ n = watch'[k].obj.name
        <5>1. watch[k].obj \in Deployment
          BY <2>2, <3>1, HeardParts, HeardType
        <5>2. QED
          BY <2>2, <3>1, <5>1 DEF Deployment
      <4>2. api[n] # NoObj \/ GoneAfter(n, k)
        BY <2>2, <2>5, <3>1, <4>1 DEF AllAnnounced
      <4>3. api'[n] # NoObj \/ GoneAfter(n, k)'
        BY <2>4, <3>1, <4>2
      <4>4. QED
        BY <4>1, <4>3 DEF GoneAfter
    <3>2. CASE k = L + 1
      BY <2>2, <2>3, <2>5, <3>2 DEF Deployment
    <3>3. QED
      BY <2>2, <3>1, <3>2
  <2>6. ASSUME NEW n \in Names, store'[n] # NoObj
        PROVE  api'[n] # NoObj \/ GoneAfter(n, 0)'
    <3>1. api[n] # NoObj \/ GoneAfter(n, 0)
      BY <2>2, <2>6 DEF AllAnnounced
    <3>2. QED
      BY <2>2, <2>4, <3>1
  <2>7. QED
    BY <2>5, <2>6 DEF AllAnnounced
<1>3. ASSUME /\ Len(watch) > 0 /\ watch' = Tail(watch) /\ watch[1] \in Changes /\ api' = api
             /\ store' = [store EXCEPT ![watch[1].obj.name] =
                            IF watch[1].gone THEN NoObj ELSE watch[1].obj]
      PROVE  AllAnnounced'
  <2>1. watch \in Seq(Changes) /\ store \in [Names -> Objects]
    BY DEF TypeInv, TypeOK, Changes, Objects
  <2>2. PICK L \in Nat : L = Len(watch) /\ L > 0
    BY <1>3, <2>1
  <2>3. /\ Len(watch') = L - 1
        /\ \A k \in 1 .. (L - 1) : watch'[k] = watch[k + 1]
    BY <1>3, <2>1, <2>2
  <2>4. ASSUME NEW n, NEW k \in 0 .. L, GoneAfter(n, k + 1)
        PROVE  GoneAfter(n, k)'
    <3>1. PICK j \in 1 .. L : j > k + 1 /\ watch[j].gone /\ watch[j].obj.name = n
      BY <2>2, <2>4 DEF GoneAfter
    <3>2. j - 1 \in 1 .. (L - 1) /\ j - 1 > k /\ watch'[j - 1] = watch[j]
      BY <2>2, <2>3, <3>1
    <3>3. QED
      BY <2>3, <3>1, <3>2 DEF GoneAfter
  <2>5. ASSUME NEW k \in 1 .. Len(watch'), ~watch'[k].gone
        PROVE  api'[watch'[k].obj.name] # NoObj \/ GoneAfter(watch[k].obj.name, k)'
    <3>1. k + 1 \in 1 .. L /\ watch'[k] = watch[k + 1] /\ k \in 0 .. L
      BY <2>2, <2>3
    <3>2. PICK n : n = watch'[k].obj.name
      OBVIOUS
    <3>3. api[n] # NoObj \/ GoneAfter(n, k + 1)
      BY <2>2, <2>5, <3>1, <3>2 DEF AllAnnounced
    <3>4. api'[n] # NoObj \/ GoneAfter(n, k)'
      BY <1>3, <2>4, <3>1, <3>3
    <3>5. QED
      BY <3>2, <3>4 DEF GoneAfter
  <2>6. ASSUME NEW n \in Names, store'[n] # NoObj
        PROVE  api'[n] # NoObj \/ GoneAfter(n, 0)'
    <3>1. CASE n = watch[1].obj.name
      <4>1. ~watch[1].gone /\ 1 \in 1 .. Len(watch)
        BY <1>3, <2>1, <2>2, <2>6, <3>1
      <4>2. api[n] # NoObj \/ GoneAfter(n, 1)
        BY <3>1, <4>1 DEF AllAnnounced
      <4>3. GoneAfter(n, 1) => GoneAfter(n, 0)'
        BY <2>2, <2>4
      <4>4. QED
        BY <1>3, <4>2, <4>3
    <3>2. CASE n # watch[1].obj.name
      <4>1. store[n] # NoObj
        BY <1>3, <2>1, <2>6, <3>2
      <4>2. api[n] # NoObj \/ GoneAfter(n, 0)
        BY <4>1 DEF AllAnnounced
      <4>3. GoneAfter(n, 0) => GoneAfter(n, 1)
        BY <2>2, <3>2 DEF GoneAfter
      <4>4. GoneAfter(n, 1) => GoneAfter(n, 0)'
        BY <2>2, <2>4
      <4>5. QED
        BY <1>3, <4>2, <4>3, <4>4
    <3>3. QED
      BY <3>1, <3>2
  <2>7. QED
    BY <2>5, <2>6 DEF AllAnnounced
<1>4. CASE Notify \/ \E n \in Names : Resync(n)
  BY <1>1, <1>3, <1>4, InformerObjects
<1>5. ASSUME NEW w \in Workers, Worker(w)
      PROVE  UNCHANGED <<api, watch, store>>
  BY <1>5, HeldStep
<1>6. UNCHANGED vars \/ ToggleMode \/ Requeue \/ ReadMode \/ MarkInProgress =>
         UNCHANGED <<api, watch, store>>
  BY DEF vars, ToggleMode, Requeue, ReadMode, MarkInProgress, clusterVars
<1>7. QED
  BY <1>1, <1>2, <1>4, <1>5, <1>6 DEF Next

LEMMA IgnoredStep ==
    ASSUME TypeInv, Named, NothingIgnored, [Next]_vars, Calm'
    PROVE  NothingIgnored'
<1>1. readOnly' = FALSE
  BY CalmStep DEF NothingIgnored
<1>2. CASE Cluster
  <2>1. PICK o \in Deployment, gone \in BOOLEAN, kinds \in {{}, {"ignores"}, {"deletes"}} :
           Write(o, gone, kinds) /\ Succeeds(o, gone, kinds)
    BY <1>2, ClusterChange DEF TypeInv
  <2>2. "ignores" \notin kinds
    BY <2>1, CountStep DEF Write, Calm, TypeInv
  <2>3. ~o.ign
    BY <2>1, <2>2 DEF Succeeds, NothingIgnored, Deployment
  <2>4. /\ Held' = Held /\ store' = store
        /\ \A n \in Names : api'[n] = IF n # o.name THEN api[n] ELSE IF gone THEN NoObj ELSE o
        /\ watch'[Len(watch) + 1] = [gone |-> gone, obj |-> o]
        /\ \A k \in 1 .. Len(watch) : watch'[k] = watch[k]
        /\ \A k \in 1 .. Len(watch') : k \in 1 .. Len(watch) \/ k = Len(watch) + 1
    BY <2>1, WriteStep
  <2>5. \A x \in Heard' : x \in Heard \/ x = o
    BY <2>4, HeardParts
  <2>6. QED
    BY <1>1, <2>3, <2>4, <2>5 DEF NothingIgnored
<1>3. CASE ~Cluster
  BY <1>1, <1>3, HeardStep DEF NothingIgnored
<1>4. QED
  BY <1>2, <1>3

\* The worker does what its item asks for
LEMMA HandledStep ==
    ASSUME InTurn', TypeInv, NothingIgnored, AllHandled, [Next]_vars
    PROVE  AllHandled'
<1>1. ASSUME UNCHANGED <<work, mesh>>, Cached' = Cached
      PROVE  AllHandled'
  BY <1>1 DEF AllHandled, Handles
<1>2. work \in [Workers -> Busy \cup {Idle}]
  BY DEF TypeInv, TypeOK
<1>3. CASE UNCHANGED vars \/ ToggleMode \/ Requeue
  <2>1. UNCHANGED <<work, mesh, slot>>
    BY <1>3 DEF vars, ToggleMode, Requeue, cacheVars
  <2>2. QED
    BY <1>1, <2>1 DEF Cached
<1>11. CASE ReadMode \/ MarkInProgress
  BY <1>1, <1>11, MarkStep
<1>4. CASE Cluster
  <2>1. PICK o \in Deployment, gone \in BOOLEAN, kinds \in {{}, {"ignores"}, {"deletes"}} :
           Write(o, gone, kinds)
    BY <1>4, ClusterWrites DEF TypeInv
  <2>2. QED
    BY <1>1, <2>1, WriteStep
<1>5. CASE Notify \/ \E n \in Names : Resync(n)
  <2>1. UNCHANGED <<work, mesh>> /\ Cached' = Cached
    BY <1>5, InformerStep DEF Notify, Resync
  <2>2. QED
    BY <1>1, <2>1
<1>6. ASSUME NEW w \in Workers, NEW t \in Busy, work' = [work EXCEPT ![w] = t], Handles(t)'
      PROVE  AllHandled'
  <2>1. work'[w] = t /\ \A v \in Workers : work'[v] # Idle => v = w
    <3>1. Sole'
      BY TypeStep DEF TypeInv
    <3>2. t # Idle /\ work'[w] = t
      BY <1>2, <1>6 DEF Busy, Idle
    <3>3. QED
      BY <3>1, <3>2 DEF Sole
  <2>2. QED
    BY <1>6, <2>1 DEF AllHandled, Handles
<1>7. ASSUME NEW w \in Workers, GetItem(w)
      PROVE  AllHandled'
  <2>1. /\ UNCHANGED <<mesh, slot>>
        /\ \/ work' = work
           \/ \E t \in Busy : work' = [work EXCEPT ![w] = t] /\ t.pc = "cache" /\ ~t.err
    BY <1>7, GetStep
  <2>2. CASE work' = work
    BY <1>1, <2>1, <2>2 DEF Cached
  <2>3. ASSUME NEW t \in Busy, t.pc = "cache", ~t.err
        PROVE  Handles(t)'
    BY <2>3 DEF Handles
  <2>4. QED
    BY <1>6, <2>1, <2>2, <2>3
<1>8. ASSUME NEW w \in Workers, Finish(w)
      PROVE  AllHandled'
  <2>1. work' = [work EXCEPT ![w] = Idle] /\ mesh' = mesh /\ Cached' = Cached
    BY <1>8, FinishStep
  <2>2. QED
    BY <1>2, <2>1 DEF AllHandled, Handles
<1>9. ASSUME NEW w \in Workers,
             \/ CacheStep(w) \/ Begin(w) \/ WriteMesh(w) \/ FailWrite(w) \/ Evict(w) \/ SetStatus(w)
      PROVE  AllHandled'
  <2>1. PICK s \in Busy : s = work[w] /\ s # Idle
    BY <1>9, BusyStep
  <2>2. Handles(s) /\ readOnly = FALSE /\ ~s.item.obj.ign
    BY <2>1, HeldParts, HeardParts DEF AllHandled, NothingIgnored
  <2>3. s.item.obj \in Deployment /\ s.item.obj # NoObj
    BY ItemTypes DEF Busy, Deployment, NoObj
  <2>4. CASE CacheStep(w)
    <3>1. PICK t \in Busy : /\ Goes(w, t) /\ t.pc = "begin" /\ t.err = s.err /\ s.pc = "cache"
                            /\ s.item.type # "Delete" => Cached' = s.item.obj
      BY <2>1, <2>2, <2>4, CacheDetail
    <3>2. Handles(t)'
      BY <2>1, <2>2, <3>1 DEF Handles, Goes
    <3>3. QED
      BY <1>6, <3>1, <3>2 DEF Goes
  <2>5. CASE Begin(w)
    <3>1. s.pc = "begin" /\ mesh' = mesh /\ Cached' = Cached
      BY <2>1, <2>2, <2>5, BeginDetail
    <3>2. PICK t \in Busy :
            /\ Goes(w, t)
            /\ \/ Cached = NoObj /\ t.pc = "status" /\ t.err
               \/ Cached # NoObj /\ t.pc = "write" /\ t.seen = Cached /\ t.err = s.err
      BY <2>1, <2>2, <2>5, BeginDetail
    <3>3. Handles(t)'
      BY <2>1, <2>2, <3>1, <3>2 DEF Handles, Goes
    <3>4. QED
      BY <1>6, <3>2, <3>3 DEF Goes
  <2>6. CASE WriteMesh(w)
    <3>1. s.pc = "write" /\ mesh' = Desired(w) /\ Cached' = Cached
      BY <2>1, <2>6, WriteDetail
    <3>2. PICK t \in Busy : /\ Goes(w, t) /\ t.err = s.err
                            /\ t.pc = IF t.item.type = "Delete" THEN "evict" ELSE "status"
      BY <2>1, <2>6, WriteDetail
    <3>5. ~t.err
      BY <2>2, <3>1, <3>2 DEF Handles
    <3>3. Handles(t)'
      <4>1. CASE s.item.type = "Delete"
        <5>1. mesh' = NoObj
          BY <2>1, <3>1, <4>1 DEF Desired
        <5>2. QED
          BY <2>1, <3>2, <3>5, <4>1, <5>1 DEF Handles, Goes
      <4>2. CASE s.item.type # "Delete"
        <5>1. s.seen = s.item.obj /\ Cached' = s.item.obj
          BY <2>2, <3>1, <4>2 DEF Handles
        <5>2. mesh' = [name |-> s.item.obj.name, tmpl |-> s.item.obj.tmpl]
          BY <2>1, <3>1, <4>2, <5>1 DEF Desired
        <5>3. t.item = s.item /\ t.pc = "status"
          BY <2>1, <3>2, <4>2 DEF Goes
        <5>4. QED
          BY <3>5, <4>2, <5>1, <5>2, <5>3 DEF Handles
      <4>3. QED
        BY <4>1, <4>2
    <3>4. QED
      BY <1>6, <3>2, <3>3 DEF Goes
  <2>7. CASE FailWrite(w)
    <3>1. PICK t \in Busy : Goes(w, t) /\ t.err /\ t.pc = "status" /\ s.pc = "write" /\ Cached' = Cached
      BY <2>1, <2>7, FailDetail
    <3>2. Handles(t)'
      BY <2>1, <2>2, <3>1 DEF Handles, Goes
    <3>3. QED
      BY <1>6, <3>1, <3>2 DEF Goes
  <2>8. CASE Evict(w)
    <3>1. PICK t \in Busy : /\ Goes(w, t) /\ t.pc = "status" /\ t.err = s.err
                            /\ s.pc = "evict" /\ mesh' = mesh
      BY <2>1, <2>8, EvictDetail
    <3>2. Handles(t)'
      BY <2>1, <2>2, <3>1 DEF Handles, Goes
    <3>3. QED
      BY <1>6, <3>1, <3>2 DEF Goes
  <2>9. CASE SetStatus(w)
    <3>1. PICK t \in Busy : /\ Goes(w, t) /\ t.pc = "finish" /\ t.err = s.err
                            /\ s.pc = "status" /\ mesh' = mesh /\ Cached' = Cached
      BY <2>1, <2>2, <2>9, StatusDetail
    <3>2. Handles(t)'
      BY <2>1, <2>2, <3>1 DEF Handles, Goes
    <3>3. QED
      BY <1>6, <3>1, <3>2 DEF Goes
  <2>10. QED
    BY <1>9, <2>4, <2>5, <2>6, <2>7, <2>8, <2>9
<1>10. QED
  BY <1>3, <1>4, <1>5, <1>7, <1>8, <1>9, <1>11 DEF Next, Worker, Progress

LEMMA HandleStep ==
    ASSUME InTurn', HandleInv, [Next]_vars
    PROVE  HandleInv'
<1>1. TypeInv' /\ Named' /\ AllAnnounced'
  BY TypeStep, NamedStep, AnnouncedStep DEF HandleInv
<1>2. Calm' => NothingIgnored' /\ AllHandled'
  BY CalmStep, IgnoredStep, HandledStep DEF HandleInv
<1>3. QED
  BY <1>1, <1>2 DEF HandleInv

\* As long as nothing is deleted, everything that was heard of is there
LEMMA ExistStep ==
    ASSUME TypeInv, Named, AllExist, [Next]_vars, spent'.deletes = 0
    PROVE  AllExist'
<1>1. \A d \in Deployment : d # NoObj
  BY DEF Deployment, NoObj
<1>2. work \in [Workers -> Busy \cup {Idle}]
  BY DEF TypeInv, TypeOK
<1>3. CASE Cluster
  <2>1. PICK o \in Deployment, gone \in BOOLEAN, kinds \in {{}, {"ignores"}, {"deletes"}} :
           Write(o, gone, kinds) /\ Succeeds(o, gone, kinds)
    BY <1>3, ClusterChange DEF TypeInv
  <2>2. "deletes" \notin kinds
    BY <2>1, CountStep DEF Write, TypeInv
  <2>3. ~gone
    BY <2>1, <2>2 DEF Succeeds
  <2>4. /\ UNCHANGED <<store, queue, delayed, known, slot, work, mesh, readOnly>> /\ Held' = Held
        /\ \A n \in Names : api'[n] = IF n # o.name THEN api[n] ELSE o
        /\ watch'[Len(watch) + 1] = [gone |-> gone, obj |-> o]
        /\ \A k \in 1 .. Len(watch) : watch'[k] = watch[k]
        /\ \A k \in 1 .. Len(watch') : k \in 1 .. Len(watch) \/ k = Len(watch) + 1
    BY <2>1, <2>3, WriteStep
  <2>5. \A x \in Heard' : x \in Heard \/ x = o
    BY <2>4, HeardParts
  <2>6. \A n \in Names : api[n] # NoObj => api'[n] # NoObj
    BY <1>1, <2>4
  <2>7. \A k \in 1 .. Len(watch') : ~watch'[k].gone
    BY <2>3, <2>4 DEF AllExist
  <2>8. \A x \in Heard' : api'[x.name] # NoObj
    <3>1. \A x \in Heard : x.name \in Names
      BY HeardType DEF Deployment
    <3>2. api'[o.name] # NoObj
      BY <1>1, <2>4 DEF Deployment
    <3>3. QED
      BY <2>5, <2>6, <3>1, <3>2 DEF AllExist
  <2>9. \A w \in Workers : work[w].pc = "write" => work[w].seen.name \in Names
    BY BusyType DEF TypeInv, SomethingSeen, Objects, Deployment
  <2>10. mesh # NoObj => mesh.name \in Names
    BY DEF TypeInv, TypeOK
  <2>11. QED
    BY <2>4, <2>6, <2>7, <2>8, <2>9, <2>10 DEF AllExist
<1>4. CASE ~Cluster
  <2>1. api' = api /\ \A x \in Heard' : api'[x.name] # NoObj
    BY <1>4, HeardStep DEF AllExist
  <2>2. ASSUME UNCHANGED <<watch, work, mesh>>
        PROVE  AllExist'
    BY <2>1, <2>2 DEF AllExist
  <2>3. CASE UNCHANGED vars \/ ToggleMode \/ Requeue \/ ReadMode \/ MarkInProgress
    BY <2>2, <2>3 DEF vars, ToggleMode, Requeue, ReadMode, MarkInProgress, clusterVars
  <2>4. CASE Notify \/ \E n \in Names : Resync(n)
    <3>1. /\ UNCHANGED <<work, mesh>>
          /\ watch' = watch \/ (Len(watch) > 0 /\ watch' = Tail(watch))
      BY <2>4, InformerObjects
    <3>2. watch \in Seq(Changes)
      BY DEF TypeInv, TypeOK, Changes
    <3>3. \A k \in 1 .. Len(watch') : ~watch'[k].gone
      <4>1. CASE watch' = watch
        BY <4>1 DEF AllExist
      <4>2. CASE Len(watch) > 0 /\ watch' = Tail(watch)
        <5>1. \A k \in 1 .. Len(watch') : k + 1 \in 1 .. Len(watch) /\ watch'[k] = watch[k + 1]
          BY <3>2, <4>2
        <5>2. QED
          BY <5>1 DEF AllExist
      <4>3. QED
        BY <3>1, <4>1, <4>2
    <3>4. QED
      BY <2>1, <3>1, <3>3 DEF AllExist
  <2>5. ASSUME NEW w \in Workers, NEW t, work' = [work EXCEPT ![w] = t], watch' = watch,
               t.pc = "write" => t.seen = Cached /\ Cached # NoObj,
               \/ mesh' \in {mesh, NoObj}
               \/ work[w].pc = "write" /\ mesh' = [name |-> work[w].seen.name, tmpl |-> work[w].seen.tmpl]
        PROVE  AllExist'
    <3>1. Cached # NoObj => api[Cached.name] # NoObj
      BY HeldParts, HeardParts DEF AllExist
    <3>2. \A v \in Workers : work'[v].pc = "write" => api[work'[v].seen.name] # NoObj
      <4>1. SUFFICES ASSUME NEW v \in Workers, work'[v].pc = "write"
                     PROVE  api[work'[v].seen.name] # NoObj
        OBVIOUS
      <4>2. CASE v = w
        <5>1. work'[v] = t
          BY <1>2, <2>5, <4>2
        <5>2. QED
          BY <2>5, <3>1, <4>1, <5>1
      <4>3. CASE v # w
        <5>1. work'[v] = work[v]
          BY <1>2, <2>5, <4>3
        <5>2. QED
          BY <4>1, <5>1 DEF AllExist
      <4>4. QED
        BY <4>2, <4>3
    <3>3. mesh' # NoObj => api[mesh'.name] # NoObj
      BY <2>5 DEF AllExist
    <3>4. QED
      BY <2>1, <2>5, <3>2, <3>3 DEF AllExist
  <2>6. ASSUME NEW w \in Workers, Worker(w)
        PROVE  AllExist'
    <3>1. CASE GetItem(w)
      <4>1. /\ UNCHANGED <<watch, mesh>>
            /\ work' = work \/ \E t \in Busy : work' = [work EXCEPT ![w] = t] /\ t.pc = "cache"
        BY <3>1, GetStep
      <4>2. QED
        BY <2>2, <2>5, <4>1
    <3>2. CASE Finish(w)
      <4>1. UNCHANGED <<watch, mesh>> /\ work' = [work EXCEPT ![w] = Idle] /\ Idle.pc # "write"
        BY <3>2, FinishStep DEF Idle
      <4>2. QED
        BY <2>5, <4>1
    <3>3. CASE WriteMesh(w) \/ FailWrite(w)
      <4>1. PICK t \in Busy : Goes(w, t) /\ t.pc # "write"
        BY <3>3, WriteDetail, FailDetail
      <4>2. work[w].pc = "write" /\ mesh' \in {mesh, Desired(w)} /\ watch' = watch
        BY <3>3 DEF WriteMesh, FailWrite, clusterVars
      <4>3. QED
        BY <2>5, <4>1, <4>2 DEF Goes, Desired
    <3>4. CASE Begin(w)
      <4>1. PICK s : s = work[w]
        OBVIOUS
      <4>2. s.pc = "begin" /\ UNCHANGED <<watch, mesh>>
        BY <3>4, <4>1 DEF Begin, clusterVars
      <4>3. s \in Busy
        BY <4>1, <4>2, BusyType DEF TypeInv
      <4>4. PICK t : /\ work' = [work EXCEPT ![w] = t]
                     /\ \/ t = [s EXCEPT !.pc = AfterHandler(w)]
                        \/ t = [s EXCEPT !.pc = "status", !.err = TRUE]
                        \/ Cached # NoObj /\ t = [s EXCEPT !.pc = "write", !.seen = Cached]
        BY <3>4, <4>1 DEF Begin
      <4>5. t.pc = "write" => t.seen = Cached /\ Cached # NoObj
        BY <4>3, <4>4 DEF Busy, AfterHandler
      <4>6. QED
        BY <2>5, <4>2, <4>4, <4>5
    <3>5. CASE CacheStep(w) \/ Evict(w) \/ SetStatus(w)
      <4>1. PICK pc \in {"begin", "status", "finish"} : Goto(w, pc) /\ UNCHANGED <<watch, mesh>>
        BY <3>5 DEF CacheStep, Evict, SetStatus, clusterVars
      <4>2. work[w] \in Busy
        BY <3>5, BusyStep
      <4>3. PICK t \in Busy : Goes(w, t) /\ t.pc = pc
        BY <4>1, <4>2, PlaceStep
      <4>4. QED
        BY <2>5, <4>1, <4>3 DEF Goes
    <3>6. QED
      BY <2>6, <3>1, <3>2, <3>3, <3>4, <3>5 DEF Worker, Progress
  <2>7. QED
    BY <1>4, <2>3, <2>4, <2>6 DEF Next
<1>5. QED
  BY <1>3, <1>4

\* A failure of the handler apart, only deletions are tried again
LEMMA RetriedStep ==
    ASSUME TypeInv, Named, NothingIgnored, AllHandled, OnlyDeletesRetried, [Next]_vars,
           \A w \in Workers : ~FailWrite(w)
    PROVE  OnlyDeletesRetried'
<1>1. work \in [Workers -> Busy \cup {Idle}] /\ queue \in Seq(Item) /\ delayed \in Seq(Item)
  BY DEF TypeInv, TypeOK
<1>2. CASE UNCHANGED <<queue, delayed, work>>
  BY <1>2 DEF OnlyDeletesRetried
<1>3. UNCHANGED vars \/ ToggleMode \/ Cluster \/ ReadMode \/ MarkInProgress =>
         UNCHANGED <<queue, delayed, work>>
  <2>1. Cluster => UNCHANGED <<queue, delayed, work>>
    BY ClusterWrites DEF TypeInv, Write, queueVars
  <2>2. QED
    BY <2>1 DEF vars, ToggleMode, ReadMode, MarkInProgress, queueVars
<1>4. CASE Notify \/ \E n \in Names : Resync(n)
  <2>1. UNCHANGED <<delayed, work>>
        /\ (queue' = queue \/ \E type \in EventTypes, o \in Deployment : Announces(type, o))
    BY <1>4, InformerObjects
  <2>2. ASSUME NEW type \in EventTypes, NEW o \in Deployment, Announces(type, o)
        PROVE  OnlyDeletesRetried'
    <3>1. /\ Len(queue') = Len(queue) + 1
          /\ queue'[Len(queue) + 1] = [type |-> type, obj |-> o, requeues |-> 0]
          /\ \A k \in 1 .. Len(queue) : queue'[k] = queue[k]
      BY <2>2, AnnounceStep DEF TypeInv
    <3>2. \A k \in 1 .. Len(queue') : (k \in 1 .. Len(queue) /\ queue'[k] = queue[k])
                                        \/ queue'[k].requeues = 0
      BY <1>1, <3>1
    <3>3. QED
      BY <2>1, <3>2 DEF OnlyDeletesRetried
  <2>3. QED
    BY <1>2, <2>1, <2>2
<1>5. ASSUME NEW w \in Workers, NEW t, work' = [work EXCEPT ![w] = t], UNCHANGED delayed,
             \A k \in 1 .. Len(queue') : queue'[k].requeues > 0 => queue'[k].type = "Delete",
             t # Idle /\ (t.err \/ t.item.requeues > 0) => t.item.type = "Delete"
      PROVE  OnlyDeletesRetried'
  <2>1. \A v \in Workers : work'[v] = t \/ work'[v] = work[v]
    BY <1>1, <1>5
  <2>2. QED
    BY <1>5, <2>1 DEF OnlyDeletesRetried
<1>6. ASSUME NEW w \in Workers, GetItem(w)
      PROVE  OnlyDeletesRetried'
  <2>1. /\ Len(queue) > 0 /\ delayed' = delayed
        /\ \A k \in 1 .. Len(queue') : queue'[k] = queue[k + 1] /\ k + 1 \in 1 .. Len(queue)
        /\ \/ work' = work
           \/ \E t \in Busy : work' = [work EXCEPT ![w] = t] /\ t.item = queue[1] /\ ~t.err
    BY <1>6, GetStep
  <2>2. \A k \in 1 .. Len(queue') : queue'[k].requeues > 0 => queue'[k].type = "Delete"
    BY <2>1 DEF OnlyDeletesRetried
  <2>3. 1 \in 1 .. Len(queue)
    BY <1>1, <2>1
  <2>4. CASE work' = work
    BY <2>1, <2>2, <2>4 DEF OnlyDeletesRetried
  <2>5. CASE \E t \in Busy : work' = [work EXCEPT ![w] = t] /\ t.item = queue[1] /\ ~t.err
    BY <1>5, <2>1, <2>2, <2>3, <2>5 DEF OnlyDeletesRetried
  <2>6. QED
    BY <2>1, <2>4, <2>5
<1>7. ASSUME NEW w \in Workers,
             CacheStep(w) \/ Begin(w) \/ WriteMesh(w) \/ Evict(w) \/ SetStatus(w)
      PROVE  OnlyDeletesRetried'
  <2>1. PICK s \in Busy : s = work[w] /\ s # Idle /\ UNCHANGED <<queue, delayed>>
    BY <1>7, BusyStep
  <2>2. Handles(s) /\ readOnly = FALSE /\ ~s.item.obj.ign
    BY <2>1, HeldParts, HeardParts DEF AllHandled, NothingIgnored
  <2>3. s.item.obj # NoObj
    BY ItemTypes DEF Busy, Deployment, NoObj
  <2>4. PICK t \in Busy : Goes(w, t) /\ (t.err => s.err \/ s.item.type = "Delete")
    <3>1. CASE Begin(w)
      <4>1. s.pc = "begin" /\ (s.item.type = "Delete" \/ Cached # NoObj)
        BY <2>1, <2>2, <2>3, <3>1, BeginDetail DEF Handles
      <4>2. QED
        BY <2>1, <2>2, <3>1, <4>1, BeginDetail
    <3>2. CASE CacheStep(w)
      BY <2>1, <2>2, <3>2, CacheDetail
    <3>3. CASE WriteMesh(w)
      BY <2>1, <3>3, WriteDetail
    <3>4. CASE Evict(w)
      BY <2>1, <3>4, EvictDetail
    <3>5. CASE SetStatus(w)
      BY <2>1, <2>2, <3>5, StatusDetail
    <3>6. QED
      BY <1>7, <3>1, <3>2, <3>3, <3>4, <3>5
  <2>5. t.item = s.item /\ (s.err \/ s.item.requeues > 0 => s.item.type = "Delete")
    BY <2>1, <2>4 DEF OnlyDeletesRetried, Goes
  <2>6. \A k \in 1 .. Len(queue') : queue'[k].requeues > 0 => queue'[k].type = "Delete"
    BY <2>1 DEF OnlyDeletesRetried
  <2>7. QED
    BY <1>5, <2>1, <2>4, <2>5, <2>6 DEF Goes
<1>8. ASSUME NEW w \in Workers, Finish(w)
      PROVE  OnlyDeletesRetried'
  <2>1. /\ work[w] # Idle /\ work' = [work EXCEPT ![w] = Idle] /\ queue' = queue
        /\ \/ delayed' = delayed
           \/ /\ work[w].err
              /\ \E x \in Item : delayed' = Append(delayed, x) /\ x.type = work[w].item.type
    BY <1>8, FinishStep
  <2>2. \A k \in 1 .. Len(delayed') : delayed'[k].type = "Delete"
    <3>1. CASE delayed' = delayed
      BY <3>1 DEF OnlyDeletesRetried
    <3>2. CASE /\ work[w].err
               /\ \E x \in Item : delayed' = Append(delayed, x) /\ x.type = work[w].item.type
      <4>1. PICK x \in Item : delayed' = Append(delayed, x) /\ x.type = work[w].item.type
        BY <3>2
      <4>2. x.type = "Delete"
        BY <2>1, <3>2, <4>1 DEF OnlyDeletesRetried
      <4>3. \A k \in 1 .. Len(delayed') :
               (k \in 1 .. Len(delayed) /\ delayed'[k] = delayed[k]) \/ delayed'[k] = x
        BY <1>1, <4>1
      <4>4. QED
        BY <4>2, <4>3 DEF OnlyDeletesRetried
    <3>3. QED
      BY <2>1, <3>1, <3>2
  <2>3. \A v \in Workers : work'[v] = Idle \/ work'[v] = work[v]
    BY <1>1, <2>1
  <2>4. QED
    BY <2>1, <2>2, <2>3 DEF OnlyDeletesRetried
<1>9. CASE Requeue
  <2>1. PICK i \in 1 .. Len(delayed) :
          /\ work' = work /\ Len(queue') = Len(queue) + 1 /\ queue'[Len(queue) + 1] = delayed[i]
          /\ \A k \in 1 .. Len(queue) : queue'[k] = queue[k]
          /\ \A k \in 1 .. Len(delayed') : \E j \in 1 .. Len(delayed) : delayed'[k] = delayed[j]
    BY <1>9, RequeueStep
  <2>2. \A k \in 1 .. Len(queue') :
           (k \in 1 .. Len(queue) /\ queue'[k] = queue[k]) \/ queue'[k] = delayed[i]
    BY <1>1, <2>1
  <2>3. QED
    BY <2>1, <2>2 DEF OnlyDeletesRetried
<1>10. QED
  BY <1>2, <1>3, <1>4, <1>6, <1>7, <1>8, <1>9 DEF Next, Worker, Progress

LEMMA EndsSame ==
    ASSUME UNCHANGED <<api, watch, queue>>
    PROVE  \A n, k : Ends(n, k)' <=> Ends(n, k)
  BY DEF Ends, GoneAfter, DeleteAfter

\* What is deleted, announced and queued goes on to the queue
LEMMA EndsKept ==
    ASSUME TypeInv, Named, Cluster \/ Notify \/ \E n \in Names : Resync(n),
           NEW m \in Names, NEW k \in 0 .. Len(queue), Ends(m, k)
    PROVE  Ends(m, k)'
<1>1. queue \in Seq(Item) /\ watch \in Seq(Changes) /\ Len(queue) \in Nat /\ Len(watch) \in Nat
  BY DEF TypeInv, TypeOK, Changes
<1>2. CASE Cluster
  <2>1. PICK o \in Deployment, gone \in BOOLEAN, kinds \in {{}, {"ignores"}, {"deletes"}} :
           Write(o, gone, kinds)
    BY <1>2, ClusterWrites DEF TypeInv
  <2>2. PICK L \in Nat :
        /\ L = Len(watch) /\ Len(watch') = L + 1 /\ watch'[L + 1] = [gone |-> gone, obj |-> o]
        /\ \A j \in 1 .. L : watch'[j] = watch[j]
        /\ queue' = queue
        /\ \A n \in Names : api'[n] = IF n # o.name THEN api[n] ELSE IF gone THEN NoObj ELSE o
    BY <2>1, WriteStep
  <2>3. o # NoObj
    BY DEF Deployment, NoObj
  <2>4. DeleteAfter(m, k) => DeleteAfter(m, k)'
    BY <2>2 DEF DeleteAfter
  <2>5. GoneAfter(m, 0) => GoneAfter(m, 0)'
    <3>1. ASSUME NEW j \in 1 .. L, j > 0, watch[j].gone, watch[j].obj.name = m
          PROVE  GoneAfter(m, 0)'
      <4>1. j \in 1 .. Len(watch') /\ watch'[j] = watch[j]
        BY <2>2
      <4>2. QED
        BY <3>1, <4>1 DEF GoneAfter
    <3>2. QED
      BY <2>2, <3>1 DEF GoneAfter
  <2>6. api[m] # NoObj => api'[m] # NoObj \/ GoneAfter(m, 0)'
    <3>1. CASE m = o.name /\ gone
      <4>1. L + 1 \in 1 .. Len(watch') /\ L + 1 > 0
        BY <2>2
      <4>2. QED
        BY <2>2, <3>1, <4>1 DEF GoneAfter
    <3>2. CASE m # o.name \/ ~gone
      BY <2>2, <2>3, <3>2
    <3>3. QED
      BY <3>1, <3>2
  <2>7. QED
    BY <2>4, <2>5, <2>6 DEF Ends
<1>3. CASE Notify \/ \E n \in Names : Resync(n)
  <2>1. /\ api' = api
        /\ \/ watch' = watch
           \/ Len(watch) > 0 /\ watch' = Tail(watch) /\ watch[1] \in Changes
        /\ \/ queue' = queue /\ (watch' = watch \/ ~watch[1].gone)
           \/ \E type \in EventTypes, o \in Deployment :
                 /\ Announces(type, o)
                 /\ \/ watch' = watch \/ ~watch[1].gone
                    \/ o = watch[1].obj /\ type = "Delete"
    BY <1>3, InformerObjects
  <2>2. ASSUME NEW type \in EventTypes, NEW o \in Deployment, Announces(type, o)
        PROVE  /\ Len(queue') = Len(queue) + 1
               /\ queue'[Len(queue) + 1] = [type |-> type, obj |-> o, requeues |-> 0]
               /\ \A j \in 1 .. Len(queue) : queue'[j] = queue[j]
    BY <2>2, AnnounceStep DEF TypeInv
  <2>3. DeleteAfter(m, k) => DeleteAfter(m, k)'
    <3>1. CASE queue' = queue
      BY <3>1 DEF DeleteAfter
    <3>2. CASE Len(queue') = Len(queue) + 1 /\ \A j \in 1 .. Len(queue) : queue'[j] = queue[j]
      <4>1. \A j \in 1 .. Len(queue) : j \in 1 .. Len(queue') /\ queue'[j] = queue[j]
        BY <1>1, <3>2
      <4>2. QED
        BY <4>1 DEF DeleteAfter
    <3>3. QED
      BY <2>1, <2>2, <3>1, <3>2
  <2>4. ASSUME NEW j \in 1 .. Len(watch), watch[j].gone, watch[j].obj.name = m
        PROVE  GoneAfter(m, 0)' \/ DeleteAfter(m, k)'
    <3>1. CASE watch' = watch
      BY <2>4, <3>1 DEF GoneAfter
    <3>2. CASE /\ Len(watch) > 0 /\ watch' = Tail(watch) /\ j # 1
      <4>1. j - 1 \in 1 .. Len(watch') /\ watch'[j - 1] = watch[j] /\ j - 1 > 0
        BY <1>1, <3>2
      <4>2. QED
        BY <2>4, <4>1 DEF GoneAfter
    <3>3. CASE watch' # watch /\ j = 1
      <4>1. PICK o \in Deployment : Announces("Delete", o) /\ o.name = m
        BY <2>1, <2>4, <3>3
      <4>2. /\ Len(queue') = Len(queue) + 1
            /\ queue'[Len(queue) + 1] = [type |-> "Delete", obj |-> o, requeues |-> 0]
        BY <2>2, <4>1 DEF EventTypes
      <4>3. Len(queue) + 1 \in 1 .. Len(queue') /\ Len(queue) + 1 > k
        BY <1>1, <4>2
      <4>4. QED
        BY <4>1, <4>2, <4>3 DEF DeleteAfter
    <3>4. QED
      BY <2>1, <3>1, <3>2, <3>3
  <2>5. QED
    BY <2>1, <2>3, <2>4 DEF Ends, GoneAfter
<1>4. QED
  BY <1>2, <1>3

\* The events of the informer are followed by the deletion they need
LEMMA EndInformed ==
    ASSUME TypeInv, Named, AllAnnounced', AllEnd, Cluster \/ Notify \/ \E n \in Names : Resync(n)
    PROVE  AllEnd'
<1>1. queue \in Seq(Item) /\ Len(queue) \in Nat
  BY DEF TypeInv, TypeOK
<1>2. UNCHANGED <<work, mesh>> /\ Cached' = Cached
  <2>1. CASE Cluster
    BY <2>1, ClusterWrites, WriteStep DEF TypeInv
  <2>2. CASE Notify \/ \E n \in Names : Resync(n)
    BY <2>2, InformerObjects
  <2>3. QED
    BY <2>1, <2>2
<1>3. /\ \A w \in Workers : work[w] # Idle => work[w].item.obj.name \in Names
      /\ Cached # NoObj => Cached.name \in Names
      /\ \A k \in 1 .. Len(queue) : queue[k].obj.name \in Names
  BY HeldParts, HeldType DEF Deployment
<1>4. /\ \A w \in Workers : work'[w] # Idle /\ work'[w].item.type # "Delete" =>
            Ends(work[w].item.obj.name, 0)'
  <2>1. SUFFICES ASSUME NEW w \in Workers, work'[w] # Idle, work'[w].item.type # "Delete"
                 PROVE  Ends(work[w].item.obj.name, 0)'
    OBVIOUS
  <2>2. PICK m \in Names : m = work[w].item.obj.name /\ m = work'[w].item.obj.name
    BY <1>2, <1>3, <2>1
  <2>3. Ends(m, 0)
    BY <1>2, <2>1, <2>2 DEF AllEnd
  <2>4. Ends(m, 0)'
    BY <1>1, <2>3, EndsKept
  <2>5. QED
    BY <2>2, <2>4 DEF Ends, GoneAfter, DeleteAfter
<1>5. Cached' # NoObj => Ends(Cached.name, 0)' \/ Removing(Cached.name)'
  <2>1. SUFFICES ASSUME Cached' # NoObj PROVE Ends(Cached.name, 0)' \/ Removing(Cached.name)'
    OBVIOUS
  <2>2. PICK m \in Names : m = Cached.name /\ m = Cached'.name
    BY <1>2, <1>3, <2>1
  <2>3. Ends(m, 0) \/ Removing(m)
    BY <1>2, <2>1, <2>2 DEF AllEnd
  <2>4. Ends(m, 0)' \/ Removing(m)'
    BY <1>1, <1>2, <2>3, EndsKept DEF Removing
  <2>5. QED
    BY <2>2, <2>4 DEF Ends, GoneAfter, DeleteAfter, Removing
<1>6. mesh' # NoObj => Cached' # NoObj /\ (mesh'.name = Cached'.name \/ Replacing')
  BY <1>2 DEF AllEnd, Replacing
<1>7. ASSUME NEW k \in 1 .. Len(queue), queue'[k] = queue[k], queue'[k].type # "Delete"
      PROVE  Ends(queue[k].obj.name, k)'
  <2>1. PICK m \in Names : m = queue[k].obj.name /\ m = queue'[k].obj.name
    BY <1>3, <1>7
  <2>2. Ends(m, k)'
    <3>1. k \in 0 .. Len(queue) /\ Ends(m, k)
      BY <1>1, <1>7, <2>1 DEF AllEnd
    <3>2. QED
      BY <3>1, EndsKept
  <2>3. QED
    BY <2>1, <2>2 DEF Ends, GoneAfter, DeleteAfter
<1>8. ASSUME NEW k \in 1 .. Len(queue'), queue'[k].type # "Delete"
      PROVE  Ends(queue[k].obj.name, k)'
  <2>1. CASE queue' = queue
    BY <1>7, <1>8, <2>1
  <2>2. CASE /\ Notify \/ \E n \in Names : Resync(n)
             /\ queue' # queue
    <3>1. PICK type \in EventTypes, o \in Deployment :
            /\ Announces(type, o)
            /\ \/ \E n \in Names : /\ store[n] # NoObj /\ o = store[n] /\ type # "Delete"
                                   /\ watch' = watch \/ (n = watch[1].obj.name /\ ~watch[1].gone)
               \/ /\ Len(watch) > 0 /\ watch' = Tail(watch) /\ o = watch[1].obj
                  /\ (type = "Delete" <=> watch[1].gone)
               \/ /\ api[o.name] = o /\ o # NoObj /\ type # "Delete"
      BY <2>2, InformerObjects
    <3>2. /\ Len(queue') = Len(queue) + 1
          /\ queue'[Len(queue) + 1] = [type |-> type, obj |-> o, requeues |-> 0]
          /\ \A j \in 1 .. Len(queue) : queue'[j] = queue[j]
      BY <3>1, AnnounceStep DEF TypeInv
    <3>3. CASE k \in 1 .. Len(queue)
      BY <1>7, <1>8, <3>2, <3>3
    <3>4. CASE k = Len(queue) + 1
      <4>1. queue'[k].obj = o /\ type # "Delete" /\ o.name \in Names
        BY <1>8, <3>2, <3>4 DEF Deployment
      <4>2. /\ api' = api /\ store \in [Names -> Objects] /\ \A d \in Deployment : d # NoObj
            /\ \/ UNCHANGED <<watch, store>>
               \/ /\ Len(watch) > 0 /\ watch' = Tail(watch) /\ watch[1] \in Changes
                  /\ store' = [store EXCEPT ![watch[1].obj.name] =
                                 IF watch[1].gone THEN NoObj ELSE watch[1].obj]
        <5>1. \A d \in Deployment : d # NoObj
          BY DEF Deployment, NoObj
        <5>2. store \in [Names -> Objects]
          BY DEF TypeInv, TypeOK, Objects
        <5>3. QED
          BY <2>2, <5>1, <5>2, InformerObjects
      <4>3. api'[o.name] # NoObj \/ store'[o.name] # NoObj
        <5>1. CASE api[o.name] = o /\ o # NoObj
          BY <4>2, <5>1
        <5>2. CASE Len(watch) > 0 /\ watch' = Tail(watch) /\ o = watch[1].obj /\ ~watch[1].gone
          <6>1. watch' # watch
            BY <5>2 DEF TypeInv, TypeOK
          <6>2. store'[o.name] = o
            BY <4>1, <4>2, <5>2, <6>1
          <6>3. QED
            BY <4>2, <6>2
        <5>3. ASSUME NEW n \in Names, store[n] # NoObj, o = store[n],
                     watch' = watch \/ (n = watch[1].obj.name /\ ~watch[1].gone)
              PROVE  store'[o.name] # NoObj
          <6>1. o.name = n
            BY <5>3 DEF Named
          <6>2. CASE store' = store
            BY <5>3, <6>1, <6>2
          <6>3. CASE /\ Len(watch) > 0 /\ watch' = Tail(watch) /\ watch[1] \in Changes
                     /\ store' = [store EXCEPT ![watch[1].obj.name] =
                                    IF watch[1].gone THEN NoObj ELSE watch[1].obj]
            <7>1. watch' # watch
              BY <6>3 DEF TypeInv, TypeOK
            <7>2. watch[1].obj \in Deployment
              BY <6>3 DEF Changes
            <7>3. store'[n] = watch[1].obj
              BY <4>2, <5>3, <6>3, <7>1
            <7>4. QED
              BY <4>2, <6>1, <7>2, <7>3
          <6>4. QED
            BY <4>2, <6>2, <6>3
        <5>4. QED
          BY <3>1, <4>1, <5>1, <5>2, <5>3
      <4>4. api'[o.name] # NoObj \/ GoneAfter(o.name, 0)'
        BY <4>1, <4>3 DEF AllAnnounced
      <4>5. QED
        BY <4>1, <4>4 DEF Ends, GoneAfter
    <3>5. QED
      BY <1>1, <1>8, <3>2, <3>3, <3>4
  <2>3. CASE Cluster
    <3>1. queue' = queue
      BY <2>3, ClusterWrites, WriteStep DEF TypeInv
    <3>2. QED
      BY <2>1, <3>1
  <2>4. QED
    BY <2>1, <2>2, <2>3
<1>9. QED
  BY <1>4, <1>5, <1>6, <1>8 DEF AllEnd

\* A worker takes an event: if it is the deletion of what is cached, the worker is
\* about to remove that
LEMMA EndTaken ==
    ASSUME TypeInv, InTurn', AllEnd, NEW w \in Workers, GetItem(w)
    PROVE  AllEnd'
<1>1. /\ work[w] = Idle /\ Len(queue) > 0 /\ queue[1] \in Item
      /\ UNCHANGED <<api, watch, store, delayed, known, slot, mesh, readOnly>>
      /\ \A u \in Workers : work[u] = Idle
      /\ Len(queue) = Len(queue') + 1 /\ queue' \in Seq(Item)
      /\ \A k \in 1 .. Len(queue') : queue'[k] = queue[k + 1] /\ k + 1 \in 1 .. Len(queue)
      /\ \/ ~Accepted(queue[1]) /\ work' = work
         \/ \E t \in Busy : /\ work' = [work EXCEPT ![w] = t] /\ t.pc = "cache"
                            /\ t.item = queue[1] /\ ~t.err
  BY GetStep
<1>2. PICK L \in Nat : L = Len(queue) /\ L > 0 /\ Len(queue') = L - 1
  BY <1>1 DEF TypeInv, TypeOK
<1>3. Cached' = Cached /\ \A v \in Workers : work[v] = Idle
  BY <1>1 DEF Cached
<1>4. work \in [Workers -> Busy \cup {Idle}]
  BY DEF TypeInv, TypeOK
<1>5. ASSUME NEW n, NEW k \in 0 .. L, Ends(n, k + 1)
      PROVE  Ends(n, k)'
  <2>1. ASSUME NEW j \in 1 .. L, j > k + 1, queue[j].type = "Delete", queue[j].requeues = 0,
               queue[j].obj.name = n
        PROVE  DeleteAfter(n, k)'
    <3>1. j - 1 \in 1 .. Len(queue') /\ j - 1 > k /\ (j - 1) + 1 = j
      BY <1>2, <2>1
    <3>2. queue'[j - 1] = queue[j]
      BY <1>1, <3>1
    <3>3. QED
      BY <2>1, <3>1, <3>2 DEF DeleteAfter
  <2>2. GoneAfter(n, 0) => GoneAfter(n, 0)'
    BY <1>1 DEF GoneAfter
  <2>3. QED
    BY <1>1, <1>2, <1>5, <2>1, <2>2 DEF Ends, DeleteAfter
<1>6. \A k \in 1 .. Len(queue') : queue'[k].type # "Delete" => Ends(queue[k].obj.name, k)'
  <2>1. SUFFICES ASSUME NEW k \in 1 .. Len(queue'), queue'[k].type # "Delete"
                 PROVE  Ends(queue[k].obj.name, k)'
    OBVIOUS
  <2>2. PICK m : m = queue'[k].obj.name
    OBVIOUS
  <2>3. k + 1 \in 1 .. Len(queue) /\ queue'[k] = queue[k + 1] /\ k \in 0 .. L
    BY <1>1, <1>2
  <2>4. Ends(m, k + 1)
    BY <2>1, <2>2, <2>3 DEF AllEnd
  <2>5. Ends(m, k)'
    BY <1>5, <2>3, <2>4
  <2>6. QED
    BY <2>2, <2>5 DEF Ends, GoneAfter, DeleteAfter
<1>7. mesh' # NoObj => Cached' # NoObj /\ (mesh'.name = Cached'.name \/ Replacing')
  BY <1>1, <1>3 DEF AllEnd, Replacing
<1>8. Cached # NoObj => Ends(Cached.name, 0)
  BY <1>3 DEF AllEnd, Removing
<1>9. PICK m : m = Cached.name /\ m = Cached'.name
  BY <1>3
<1>10. Ends(m, 0) => Ends(m, 1) \/ (/\ queue[1].type = "Delete" /\ queue[1].requeues = 0
                                    /\ queue[1].obj.name = m)
  BY <1>2 DEF Ends, DeleteAfter
<1>11. Ends(m, 1) => Ends(m, 0)'
  BY <1>2, <1>5
<1>12. CASE ~Accepted(queue[1]) /\ work' = work
  <2>1. queue[1].requeues # 0
    BY <1>12 DEF Accepted
  <2>2. Cached' # NoObj => Ends(Cached.name, 0)'
    <3>1. Cached' # NoObj => Ends(m, 0)'
      BY <1>3, <1>8, <1>9, <1>10, <1>11, <2>1
    <3>2. QED
      BY <1>9, <3>1 DEF Ends, GoneAfter, DeleteAfter
  <2>3. \A v \in Workers : work'[v] = Idle
    BY <1>3, <1>12
  <2>4. QED
    BY <1>6, <1>7, <2>2, <2>3 DEF AllEnd
<1>13. ASSUME NEW t \in Busy, work' = [work EXCEPT ![w] = t], t.pc = "cache", t.item = queue[1]
       PROVE  AllEnd'
  <2>1. work'[w] = t /\ t # Idle
    BY <1>4, <1>13 DEF Idle
  <2>2. Cached' # NoObj => Ends(Cached.name, 0)' \/ Removing(Cached.name)'
    <3>1. Cached' # NoObj => Ends(m, 0)' \/ Removing(m)'
      BY <1>3, <1>8, <1>9, <1>10, <1>11, <1>13, <2>1 DEF Removing
    <3>2. QED
      BY <1>9, <3>1 DEF Ends, GoneAfter, DeleteAfter, Removing
  <2>3. t.item.type # "Delete" => Ends(t.item.obj.name, 0)'
    <3>1. 1 \in 1 .. Len(queue) /\ 0 \in 0 .. L /\ 0 + 1 = 1
      BY <1>2
    <3>2. t.item.type # "Delete" => Ends(t.item.obj.name, 1)
      BY <1>13, <3>1 DEF AllEnd
    <3>3. QED
      BY <1>5, <3>1, <3>2
  <2>4. \A v \in Workers : work'[v] # Idle /\ work'[v].item.type # "Delete" =>
           Ends(work[v].item.obj.name, 0)'
    <3>1. SUFFICES ASSUME NEW v \in Workers, work'[v] # Idle, work'[v].item.type # "Delete"
                   PROVE  Ends(work[v].item.obj.name, 0)'
      OBVIOUS
    <3>2. work'[v] = t
      BY <1>3, <1>4, <1>13, <3>1
    <3>3. QED
      BY <2>3, <3>1, <3>2 DEF Ends, GoneAfter, DeleteAfter
  <2>5. QED
    BY <1>6, <1>7, <2>2, <2>4 DEF AllEnd
<1>14. QED
  BY <1>1, <1>12, <1>13

\* Between taking an item and finishing with it: what leaves the cache has left the
\* mesh
LEMMA EndHandled ==
    ASSUME TypeInv, InTurn', NothingIgnored, AllHandled, AllEnd, NEW w \in Workers,
           CacheStep(w) \/ Begin(w) \/ WriteMesh(w) \/ Evict(w) \/ SetStatus(w)
    PROVE  AllEnd'
<1>1. PICK s \in Busy : s = work[w] /\ s # Idle /\ UNCHANGED <<api, watch, queue>>
  BY BusyStep
<1>2. Handles(s) /\ readOnly = FALSE /\ ~s.item.obj.ign
  BY <1>1, HeldParts, HeardParts DEF AllHandled, NothingIgnored
<1>3. s.item.obj # NoObj
  BY ItemTypes DEF Busy, Deployment, NoObj
<1>4. /\ work \in [Workers -> Busy \cup {Idle}]
      /\ \A v \in Workers : work[v] # Idle \/ work'[v] # Idle => v = w
  BY Turn DEF TypeInv, TypeOK, Worker, Progress
<1>5. \A n, k : Ends(n, k)' <=> Ends(n, k)
  BY <1>1, EndsSame
<1>6. s.item.type # "Delete" => Ends(s.item.obj.name, 0)
  BY <1>1 DEF AllEnd
<1>7. Cached # NoObj => \/ Ends(Cached.name, 0)
                        \/ /\ s.item.type = "Delete" /\ s.item.obj.name = Cached.name
                           /\ s.pc \in {"cache", "begin", "write", "evict"}
  BY <1>1, <1>4 DEF AllEnd, Removing
<1>8. mesh # NoObj => /\ Cached # NoObj
                      /\ \/ mesh.name = Cached.name
                         \/ s.item.type # "Delete" /\ s.pc \in {"begin", "write"}
  BY <1>1, <1>4 DEF AllEnd, Replacing
<1>9. ASSUME NEW t \in Busy, Goes(w, t),
             Cached' # NoObj => \/ Ends(Cached'.name, 0)
                                \/ /\ t.item.type = "Delete" /\ t.item.obj.name = Cached'.name
                                   /\ t.pc \in {"cache", "begin", "write", "evict"},
             mesh' # NoObj => /\ Cached' # NoObj
                              /\ \/ mesh'.name = Cached'.name
                                 \/ t.item.type # "Delete" /\ t.pc \in {"begin", "write"}
      PROVE  AllEnd'
  <2>1. work'[w] = t /\ t.item = s.item /\ t # Idle
    <3>1. t.pc # "idle" /\ Idle.pc = "idle"
      BY DEF Busy, Idle
    <3>2. QED
      BY <1>1, <1>4, <1>9, <3>1 DEF Goes
  <2>2. Cached' # NoObj => Ends(Cached.name, 0)' \/ Removing(Cached.name)'
    <3>1. PICK m : m = Cached'.name
      OBVIOUS
    <3>2. Cached' # NoObj => Ends(m, 0)' \/ Removing(m)'
      BY <1>4, <1>5, <1>9, <2>1, <3>1 DEF Removing
    <3>3. QED
      BY <3>1, <3>2 DEF Ends, GoneAfter, DeleteAfter, Removing
  <2>3. mesh' # NoObj => Cached' # NoObj /\ (mesh'.name = Cached'.name \/ Replacing')
    BY <1>9, <2>1 DEF Replacing
  <2>4. \A v \in Workers : work'[v] # Idle /\ work'[v].item.type # "Delete" =>
           Ends(work[v].item.obj.name, 0)'
    <3>1. SUFFICES ASSUME NEW v \in Workers, work'[v] # Idle, work'[v].item.type # "Delete"
                   PROVE  Ends(work[v].item.obj.name, 0)'
      OBVIOUS
    <3>2. PICK m : m = s.item.obj.name
      OBVIOUS
    <3>3. work'[v].item = s.item /\ Ends(m, 0)'
      BY <1>4, <1>5, <1>6, <2>1, <3>1, <3>2
    <3>4. QED
      BY <3>2, <3>3 DEF Ends, GoneAfter, DeleteAfter
  <2>5. \A k \in 1 .. Len(queue') : queue'[k].type # "Delete" => Ends(queue[k].obj.name, k)'
    <3>1. SUFFICES ASSUME NEW k \in 1 .. Len(queue'), queue'[k].type # "Delete"
                   PROVE  Ends(queue[k].obj.name, k)'
      OBVIOUS
    <3>2. PICK m : m = queue[k].obj.name /\ m = queue'[k].obj.name
      BY <1>1
    <3>3. Ends(m, k)'
      BY <1>1, <1>5, <3>1, <3>2 DEF AllEnd
    <3>4. QED
      BY <3>2, <3>3 DEF Ends, GoneAfter, DeleteAfter
  <2>6. QED
    BY <2>2, <2>3, <2>4, <2>5 DEF AllEnd
<1>10. CASE CacheStep(w)
  <2>1. PICK t \in Busy : Goes(w, t) /\ t.pc = "begin"
    BY <1>1, <1>2, <1>10, CacheDetail
  <2>2. /\ mesh' = mesh /\ s.pc = "cache" /\ t.item = s.item
        /\ Cached' = IF s.item.type = "Delete" THEN Cached ELSE s.item.obj
    BY <1>1, <1>2, <1>10, <2>1, CacheDetail DEF Goes
  <2>3. QED
    BY <1>3, <1>6, <1>7, <1>8, <1>9, <2>1, <2>2
<1>11. CASE Begin(w)
  <2>1. s.pc = "begin" /\ mesh' = mesh /\ Cached' = Cached
    BY <1>1, <1>2, <1>11, BeginDetail
  <2>2. PICK t \in Busy :
          /\ Goes(w, t)
          /\ \/ Cached = NoObj /\ t.pc = "status"
             \/ Cached # NoObj /\ t.pc = "write"
    BY <1>2, <1>11, BeginDetail
  <2>3. t.item = s.item
    BY <1>1, <2>2 DEF Goes
  <2>4. QED
    BY <1>7, <1>8, <1>9, <2>1, <2>2, <2>3
<1>12. CASE WriteMesh(w)
  <2>1. s.pc = "write" /\ mesh' = Desired(w) /\ Cached' = Cached
    BY <1>1, <1>12, WriteDetail
  <2>2. PICK t \in Busy : /\ Goes(w, t)
                          /\ t.pc = IF t.item.type = "Delete" THEN "evict" ELSE "status"
    BY <1>12, WriteDetail
  <2>3. t.item = s.item
    BY <1>1, <2>2 DEF Goes
  <2>4. CASE s.item.type = "Delete"
    <3>1. mesh' = NoObj
      BY <1>1, <2>1, <2>4 DEF Desired
    <3>2. QED
      BY <1>7, <1>9, <2>1, <2>2, <2>3, <2>4, <3>1
  <2>5. CASE s.item.type # "Delete"
    <3>1. s.seen = s.item.obj /\ Cached = s.item.obj
      BY <1>2, <2>1, <2>5 DEF Handles
    <3>2. mesh' = [name |-> s.item.obj.name, tmpl |-> s.item.obj.tmpl]
      BY <1>1, <2>1, <2>5, <3>1 DEF Desired
    <3>3. mesh'.name = Cached'.name
      BY <2>1, <3>1, <3>2
    <3>4. QED
      BY <1>3, <1>7, <1>9, <2>1, <2>2, <2>5, <3>1, <3>3
  <2>6. QED
    BY <2>4, <2>5
<1>13. CASE Evict(w)
  <2>1. /\ s.pc = "evict" /\ mesh' = mesh
        /\ Cached' = IF Cached # NoObj /\ Cached.name = s.item.obj.name THEN NoObj ELSE Cached
    BY <1>1, <1>13, EvictDetail
  <2>2. PICK t \in Busy : Goes(w, t)
    BY <1>13, EvictDetail
  <2>3. s.item.type = "Delete" /\ mesh = NoObj
    BY <1>2, <2>1 DEF Handles
  <2>4. QED
    BY <1>7, <1>9, <2>1, <2>2, <2>3
<1>14. CASE SetStatus(w)
  <2>1. s.pc = "status" /\ mesh' = mesh /\ Cached' = Cached
    BY <1>1, <1>2, <1>14, StatusDetail
  <2>2. PICK t \in Busy : Goes(w, t)
    BY <1>2, <1>14, StatusDetail
  <2>3. QED
    BY <1>7, <1>8, <1>9, <2>1, <2>2
<1>15. QED
  BY <1>10, <1>11, <1>12, <1>13, <1>14

LEMMA EndStep ==
    ASSUME InTurn', HandleInv, Calm, AllEnd, OnlyDeletesRetried, [Next]_vars, AllAnnounced',
           \A w \in Workers : ~FailWrite(w)
    PROVE  AllEnd'
<1>1. TypeInv /\ Named /\ NothingIgnored /\ AllHandled
  BY DEF HandleInv
<1>2. ASSUME UNCHANGED <<api, watch, queue, mesh>>, Cached' = Cached,
             \A w \in Workers : work'[w] = work[w] \/ (work'[w] = Idle /\ work[w].pc = "finish")
      PROVE  AllEnd'
  <2>1. \A n, k : Ends(n, k)' <=> Ends(n, k)
    BY <1>2, EndsSame
  <2>2. \A k \in 1 .. Len(queue') : queue'[k].type # "Delete" => Ends(queue[k].obj.name, k)'
    <3>1. SUFFICES ASSUME NEW k \in 1 .. Len(queue'), queue'[k].type # "Delete"
                   PROVE  Ends(queue[k].obj.name, k)'
      OBVIOUS
    <3>2. PICK m : m = queue[k].obj.name /\ m = queue'[k].obj.name
      BY <1>2
    <3>3. Ends(m, k)'
      BY <1>2, <2>1, <3>1, <3>2 DEF AllEnd
    <3>4. QED
      BY <3>2, <3>3 DEF Ends, GoneAfter, DeleteAfter
  <2>3. \A w \in Workers : work'[w] # Idle /\ work'[w].item.type # "Delete" =>
           Ends(work[w].item.obj.name, 0)'
    <3>1. SUFFICES ASSUME NEW w \in Workers, work'[w] # Idle, work'[w].item.type # "Delete"
                   PROVE  Ends(work[w].item.obj.name, 0)'
      OBVIOUS
    <3>2. PICK m : m = work'[w].item.obj.name
      OBVIOUS
    <3>3. Ends(m, 0)'
      BY <1>2, <2>1, <3>1, <3>2 DEF AllEnd
    <3>4. QED
      BY <3>2, <3>3 DEF Ends, GoneAfter, DeleteAfter
  <2>4. Cached' # NoObj => Ends(Cached.name, 0)' \/ Removing(Cached.name)'
    <3>1. PICK m : m = Cached.name /\ m = Cached'.name
      BY <1>2
    <3>2. Removing(m) => Removing(m)'
      BY <1>2 DEF Removing
    <3>3. Cached' # NoObj => Ends(m, 0)' \/ Removing(m)'
      BY <1>2, <2>1, <3>1, <3>2 DEF AllEnd
    <3>4. QED
      BY <3>1, <3>3 DEF Ends, GoneAfter, DeleteAfter, Removing
  <2>5. Replacing => Replacing'
    BY <1>2 DEF Replacing
  <2>6. QED
    BY <1>2, <2>2, <2>3, <2>4, <2>5 DEF AllEnd
<1>3. CASE UNCHANGED vars \/ ToggleMode \/ ReadMode \/ MarkInProgress
  <2>1. UNCHANGED <<api, watch, queue, mesh, work>> /\ Cached' = Cached
    <3>1. CASE UNCHANGED vars \/ ToggleMode
      BY <3>1 DEF vars, ToggleMode, clusterVars, queueVars, cacheVars, Cached
    <3>2. CASE ReadMode \/ MarkInProgress
      BY <1>1, <3>2, MarkStep
    <3>3. QED
      BY <1>3, <3>1, <3>2
  <2>2. QED
    BY <1>2, <2>1
<1>4. CASE Cluster \/ Notify \/ \E n \in Names : Resync(n)
  BY <1>1, <1>4, EndInformed
<1>5. ASSUME NEW w \in Workers, Progress(w)
      PROVE  AllEnd'
  <2>1. CASE Finish(w)
    <3>1. /\ work[w].pc = "finish" /\ UNCHANGED <<api, watch, queue, mesh>> /\ Cached' = Cached
          /\ work' = [work EXCEPT ![w] = Idle]
      BY <1>1, <2>1, FinishStep
    <3>2. \A v \in Workers : work'[v] = work[v] \/ (work'[v] = Idle /\ work[v].pc = "finish")
      BY <1>1, <3>1 DEF TypeInv, TypeOK
    <3>3. QED
      BY <1>2, <3>1, <3>2
  <2>2. QED
    BY <1>1, <1>5, <2>1, EndTaken, EndHandled DEF Progress
<1>6. CASE Requeue
  <2>1. PICK i \in 1 .. Len(delayed) :
          /\ UNCHANGED <<api, watch, store, known, slot, work, mesh, readOnly, spent>>
          /\ Len(queue') = Len(queue) + 1 /\ queue'[Len(queue) + 1] = delayed[i]
          /\ \A k \in 1 .. Len(queue) : queue'[k] = queue[k]
    BY <1>1, <1>6, RequeueStep
  <2>2. PICK L \in Nat : L = Len(queue) /\ Len(queue') = L + 1
    BY <1>1, <2>1 DEF TypeInv, TypeOK
  <2>3. Cached' = Cached
    BY <2>1 DEF Cached
  <2>4. ASSUME NEW n, NEW k, Ends(n, k)
        PROVE  Ends(n, k)'
    <3>1. \A j \in 1 .. Len(queue) : j \in 1 .. Len(queue') /\ queue'[j] = queue[j]
      BY <2>1, <2>2
    <3>2. DeleteAfter(n, k) => DeleteAfter(n, k)'
      BY <3>1 DEF DeleteAfter
    <3>3. GoneAfter(n, 0) => GoneAfter(n, 0)'
      BY <2>1 DEF GoneAfter
    <3>4. QED
      BY <2>1, <2>4, <3>2, <3>3 DEF Ends
  <2>5. \A k \in 1 .. Len(queue') : queue'[k].type # "Delete" => Ends(queue[k].obj.name, k)'
    <3>1. SUFFICES ASSUME NEW k \in 1 .. Len(queue'), queue'[k].type # "Delete"
                   PROVE  Ends(queue[k].obj.name, k)'
      OBVIOUS
    <3>2. k \in 1 .. Len(queue)
      <4>1. k \in 1 .. L \/ k = L + 1
        BY <2>2
      <4>2. delayed[i].type = "Delete"
        BY DEF OnlyDeletesRetried
      <4>3. QED
        BY <2>1, <2>2, <3>1, <4>1, <4>2
    <3>3. PICK m : m = queue[k].obj.name /\ m = queue'[k].obj.name
      BY <2>1, <3>2
    <3>4. Ends(m, k)'
      BY <2>1, <2>4, <3>1, <3>2, <3>3 DEF AllEnd
    <3>5. QED
      BY <3>3, <3>4 DEF Ends, GoneAfter, DeleteAfter
  <2>6. \A w \in Workers : work'[w] # Idle /\ work'[w].item.type # "Delete" =>
           Ends(work[w].item.obj.name, 0)'
    <3>1. SUFFICES ASSUME NEW w \in Workers, work'[w] # Idle, work'[w].item.type # "Delete"
                   PROVE  Ends(work[w].item.obj.name, 0)'
      OBVIOUS
    <3>2. PICK m : m = work'[w].item.obj.name /\ m = work[w].item.obj.name
      BY <2>1
    <3>3. Ends(m, 0)'
      BY <2>1, <2>4, <3>1, <3>2 DEF AllEnd
    <3>4. QED
      BY <3>2, <3>3 DEF Ends, GoneAfter, DeleteAfter
  <2>7. Cached' # NoObj => Ends(Cached.name, 0)' \/ Removing(Cached.name)'
    <3>1. PICK m : m = Cached.name /\ m = Cached'.name
      BY <2>3
    <3>2. Cached' # NoObj => Ends(m, 0)' \/ Removing(m)'
      BY <2>1, <2>3, <2>4, <3>1 DEF AllEnd, Removing
    <3>3. QED
      BY <3>1, <3>2 DEF Ends, GoneAfter, DeleteAfter, Removing
  <2>8. mesh' # NoObj => Cached' # NoObj /\ (mesh'.name = Cached'.name \/ Replacing')
    BY <2>1, <2>3 DEF AllEnd, Replacing
  <2>9. QED
    BY <2>5, <2>6, <2>7, <2>8 DEF AllEnd
<1>7. QED
  BY <1>3, <1>4, <1>5, <1>6 DEF Next, Worker

LEMMA DeleteInvStep ==
    ASSUME InTurn', DeleteInv, [Next]_vars
    PROVE  DeleteInv'
<1>1. HandleInv /\ TypeInv /\ Named /\ HandleInv'
  BY HandleStep DEF DeleteInv, HandleInv
<1>2. AllAnnounced'
  BY <1>1 DEF HandleInv
<1>3. spent'.deletes = 0 => AllExist'
  BY <1>1, CalmStep, ExistStep DEF DeleteInv
<1>4. ASSUME Calm', spent'.failures = 0
      PROVE  OnlyDeletesRetried' /\ AllEnd'
  <2>1. Calm /\ spent.failures = 0 /\ \A w \in Workers : ~FailWrite(w)
    BY <1>1, <1>4, CalmStep
  <2>2. OnlyDeletesRetried /\ AllEnd /\ NothingIgnored /\ AllHandled
    BY <1>1, <2>1 DEF DeleteInv, HandleInv
  <2>3. QED
    BY <1>1, <1>2, <2>1, <2>2, RetriedStep, EndStep
<1>5. QED
  BY <1>1, <1>3, <1>4 DEF DeleteInv

LEMMA DeleteInit ==
    ASSUME Init
    PROVE  DeleteInv
<1>1. /\ queue = << >> /\ delayed = << >> /\ watch = << >> /\ slot = NoItem /\ mesh = NoObj
      /\ readOnly = FALSE
      /\ \A w \in Workers : work[w] = Idle
      /\ \A n \in Names : store[n] = NoObj /\ api[n] = NoObj
  BY DEF Init
<1>2. Len(queue) = 0 /\ Len(delayed) = 0 /\ Len(watch) = 0 /\ 1 .. 0 = {}
  BY <1>1
<1>3. TypeInv
  BY OrderInit DEF CarryInv, OrderInv
<1>4. Cached = NoObj
  BY <1>1 DEF Cached
<1>5. Held = {}
  BY <1>1, <1>2, <1>4 DEF Held
<1>6. Heard = {}
  BY <1>1, <1>2, <1>5 DEF Heard
<1>7. HandleInv
  BY <1>1, <1>2, <1>3, <1>6 DEF HandleInv, Named, AllAnnounced, NothingIgnored, AllHandled
<1>8. AllExist
  BY <1>1, <1>2, <1>6 DEF AllExist, Idle
<1>9. OnlyDeletesRetried /\ AllEnd
  BY <1>1, <1>2, <1>4 DEF OnlyDeletesRetried, AllEnd
<1>10. QED
  BY <1>7, <1>8, <1>9 DEF DeleteInv

\* As long as workers take turns, the mode does not change, nothing is ignored and
\* handlers do not fail (or nothing is deleted), the mesh is not left configured from
\* a deployment that is gone once every event is dealt with: whatever the events,
\* resyncs and retries that were queued when the deployment, or another one of its
\* identity, was deleted and created again (processNextItem, Deleted), for any number
\* of workers and however the versions compare.
THEOREM DeletionsAreFinal ==
    Spec => []DeletionIsFinal
<1> DEFINE Inv == TypeInv /\ (InTurn => DeleteInv)
<1>1. Init => Inv
  BY DeleteInit DEF DeleteInv, HandleInv
<1>2. Inv /\ [Next]_vars => Inv'
  BY TurnKept, TypeStep, DeleteInvStep
<1>3. Inv => DeletionIsFinal
  <2>1. SUFFICES ASSUME DeleteInv, Orderly, Quiet, mesh # NoObj PROVE api[mesh.name] # NoObj
    BY DEF DeletionIsFinal, NoResurrection, Orderly
  <2>2. CASE spent.deletes = 0
    BY <2>1, <2>2 DEF DeleteInv, AllExist
  <2>3. CASE spent.failures = 0
    <3>1. AllEnd
      BY <2>1, <2>3 DEF DeleteInv, Orderly, Calm
    <3>2. watch = << >> /\ queue = << >> /\ \A w \in Workers : work[w] = Idle
      BY <2>1 DEF Quiet
    <3>3. 1 .. Len(watch) = {} /\ 1 .. Len(queue) = {}
      BY <3>2
    <3>4. ~Replacing /\ \A n : ~Removing(n)
      BY <3>2 DEF Replacing, Removing
    <3>5. \A n : ~GoneAfter(n, 0) /\ ~DeleteAfter(n, 0)
      BY <3>3 DEF GoneAfter, DeleteAfter
    <3>6. QED
      BY <2>1, <3>1, <3>4, <3>5 DEF AllEnd, Ends
  <2>4. QED
    BY <2>1, <2>2, <2>3 DEF Orderly
<1>4. QED
  BY <1>1, <1>2, <1>3, PTL DEF Spec

-----------------------------------------------------------------------------
(* Settling: the mesh ends up with the template of the deployment           *)

\* The slot is that of one deployment
OneName == \A m, n \in Names : m = n

\* All versions of the deployment that are around
Versions == Heard \cup {api[n] : n \in {m \in Names : api[m] # NoObj}}

\* The template of a version changed when its generation did, and never changes
\* back
TemplatesOrdered ==
    /\ \A o \in Versions : o.rv <= Top /\ o.gen <= Top /\ o.tmpl <= Top
    /\ \A o, p \in Versions : o.rv <= p.rv => o.tmpl <= p.tmpl
    /\ \A o, p \in Versions : o.gen = p.gen => o.tmpl = p.tmpl
    /\ \A n \in Names : api[n] # NoObj => \A o \in Versions : o.rv <= api[n].rv

\* The deletions the controller has heard of
Deleted ==
    {o \in Held : \/ \E k \in 1 .. Len(queue) : queue[k].type = "Delete" /\ o = queue[k].obj
                  \/ \E k \in 1 .. Len(delayed) : delayed[k].type = "Delete" /\ o = delayed[k].obj
                  \/ \E w \in Workers : /\ work[w] # Idle /\ work[w].item.type = "Delete"
                                        /\ o = work[w].item.obj}

\* A deployment that is created again has a new template
DeletesOlder ==
    /\ \A o \in Deleted :
         /\ \A n \in Names : store[n] # NoObj => o.tmpl < store[n].tmpl
         /\ \A n \in Names : api[n] # NoObj => o.tmpl < api[n].tmpl
         /\ \A k \in 1 .. Len(watch) : o.tmpl < watch[k].obj.tmpl
    /\ \A j \in 1 .. Len(watch) : watch[j].gone =>
         /\ \A n \in Names : api[n] # NoObj => watch[j].obj.tmpl < api[n].tmpl
         /\ \A k \in 1 .. Len(watch) : j < k => watch[j].obj.tmpl < watch[k].obj.tmpl

\* The informer will know of the deployment what the API server knows
StoreFollows ==
    \A n \in Names : api[n] = IF Len(watch) = 0 THEN store[n]
                              ELSE IF watch[Len(watch)].gone THEN NoObj
                              ELSE watch[Len(watch)].obj

\* An event that is not dropped if versions compare as the numbers do
Due(item) == item.requeues = 0 \/ Cached = NoObj \/ Cached.rv <= item.obj.rv

\* An event with template t will be handled, or is being handled
Waiting(t) ==
    \/ \E k \in 1 .. Len(queue) : /\ queue[k].type # "Delete" /\ queue[k].obj.tmpl = t
                                  /\ Due(queue[k])
    \/ \E k \in 1 .. Len(delayed) : /\ delayed[k].type # "Delete" /\ delayed[k].obj.tmpl = t
                                    /\ Due(delayed[k])

AtWork(t) ==
    \E w \in Workers : /\ work[w] # Idle /\ work[w].item.type # "Delete"
                       /\ work[w].item.obj.tmpl = t
                       /\ work[w].pc \in {"cache", "begin", "write"} \/ work[w].err

\* The mesh has template t, unless the controller has given up and does not say
\* that it is through
Reached(n, t) ==
    /\ Cached # NoObj /\ Cached.tmpl = t
    /\ ProcessStatus # "Processed" \/ mesh = [name |-> n, tmpl |-> t]

Settling ==
    \A n \in Names : store[n] # NoObj =>
        \/ Waiting(store[n].tmpl) \/ AtWork(store[n].tmpl) \/ Reached(n, store[n].tmpl)

SettleInv ==
    /\ OrderInv /\ HandleInv /\ (slot # NoItem => known)
    /\ TemplatesOrdered /\ DeletesOlder /\ StoreFollows /\ (Calm => Settling)

\* Membership of Versions and Deleted, before and after a step
LEMMA VersionParts ==
    /\ \A o \in Heard : o \in Versions
    /\ \A n \in Names : api[n] # NoObj => api[n] \in Versions
    /\ \A o \in Versions' : o \in Heard' \/ \E n \in Names : api'[n] # NoObj /\ o = api'[n]
<1>1. \A o \in Heard : o \in Versions
  BY DEF Versions
<1>2. \A n \in Names : api[n] # NoObj => api[n] \in Versions
  BY DEF Versions
<1>3. \A o \in Versions' : o \in Heard' \/ \E n \in Names : api'[n] # NoObj /\ o = api'[n]
  BY DEF Versions
<1>4. QED
  BY <1>1, <1>2, <1>3

LEMMA DeletedParts ==
    /\ \A k \in 1 .. Len(queue) : queue[k].type = "Delete" => queue[k].obj \in Deleted
    /\ \A k \in 1 .. Len(delayed) : delayed[k].type = "Delete" => delayed[k].obj \in Deleted
    /\ \A w \in Workers : work[w] # Idle /\ work[w].item.type = "Delete" =>
          work[w].item.obj \in Deleted
    /\ \A o \in Deleted : o \in Versions
    /\ \A o \in Deleted' :
          \/ \E k \in 1 .. Len(queue') : queue'[k].type = "Delete" /\ o = queue'[k].obj
          \/ \E k \in 1 .. Len(delayed') : delayed'[k].type = "Delete" /\ o = delayed'[k].obj
          \/ \E w \in Workers : /\ work'[w] # Idle /\ work'[w].item.type = "Delete"
                                /\ o = work'[w].item.obj
<1>1. /\ \A k \in 1 .. Len(queue) : queue[k].type = "Delete" => queue[k].obj \in Deleted
      /\ \A k \in 1 .. Len(delayed) : delayed[k].type = "Delete" => delayed[k].obj \in Deleted
      /\ \A w \in Workers : work[w] # Idle /\ work[w].item.type = "Delete" =>
            work[w].item.obj \in Deleted
  BY HeldParts DEF Deleted
<1>2. \A o \in Deleted : o \in Versions
  BY HeardParts, VersionParts DEF Deleted
<1>3. \A o \in Deleted' :
          \/ \E k \in 1 .. Len(queue') : queue'[k].type = "Delete" /\ o = queue'[k].obj
          \/ \E k \in 1 .. Len(delayed') : delayed'[k].type = "Delete" /\ o = delayed'[k].obj
          \/ \E w \in Workers : /\ work'[w] # Idle /\ work'[w].item.type = "Delete"
                                /\ o = work'[w].item.obj
  BY DEF Deleted
<1>4. QED
  BY <1>1, <1>2, <1>3

LEMMA VersionType ==
    ASSUME TypeInv
    PROVE  /\ \A o \in Versions : o \in Deployment /\ o.rv \in Nat /\ o.gen \in Nat /\ o.tmpl \in Nat
           /\ Top \in Nat
<1>1. \A n \in Names : api[n] # NoObj => api[n] \in Deployment
  BY DEF TypeInv, TypeOK
<1>2. \A o \in Versions : o \in Deployment
  BY <1>1, HeardType DEF Versions
<1>3. QED
  BY <1>2, HeldType DEF Deployment

\* The deployment that is written is newer than all others, and so is its template
LEMMA WriteNewest ==
    ASSUME OneName, TypeInv, TemplatesOrdered, NEW o \in Deployment, NEW gone \in BOOLEAN,
           NEW kinds \in {{}, {"ignores"}, {"deletes"}}, Write(o, gone, kinds),
           Succeeds(o, gone, kinds)
    PROVE  /\ Top' = Top + 1 /\ o.rv = Top + 1 /\ o.gen <= Top + 1 /\ o.tmpl <= Top + 1
           /\ \A p \in Versions : p.tmpl <= o.tmpl /\ (p.gen = o.gen => p.tmpl = o.tmpl)
           /\ \A n \in Names : api[n] # NoObj => api[n].tmpl <= o.tmpl
           /\ (\A n \in Names : api[n] = NoObj) => \A p \in Versions : p.tmpl < o.tmpl
           /\ \A p \in Versions' : p \in Versions \/ p = o
           /\ \A n \in Names : api'[n] # NoObj => api'[n] = o
<1>1. Top \in Nat /\ Top' = Top + 1 /\ Version = Top + 1
  <2>1. spent'.writes = spent.writes + 1 /\ spent.writes \in Nat
    BY SpendType DEF Write, TypeInv, TypeOK, Budget
  <2>2. QED
    BY <2>1, BoundsAssumption DEF Top, Version
<1>2. o.name \in Names /\ o.rv = Top + 1 /\ o.rv \in Nat /\ o.gen \in Nat /\ o.tmpl \in Nat
  BY <1>1 DEF Deployment, Succeeds
<1>3. PICK a : a = api[o.name]
  OBVIOUS
<1>4. \A n \in Names : n = o.name /\ api[n] = a
  BY <1>2, <1>3 DEF OneName
<1>5. \A p \in Versions : /\ p.rv \in Nat /\ p.gen \in Nat /\ p.tmpl \in Nat
                          /\ p.gen <= Top /\ p.tmpl <= Top
  BY VersionType DEF TemplatesOrdered
<1>6. /\ \A p \in Versions' : p \in Versions \/ p = o
      /\ \A n \in Names : api'[n] # NoObj => api'[n] = o
  <2>1. /\ store' = store /\ Held' = Held
        /\ watch'[Len(watch) + 1] = [gone |-> gone, obj |-> o]
        /\ \A k \in 1 .. Len(watch) : watch'[k] = watch[k]
        /\ \A k \in 1 .. Len(watch') : k \in 1 .. Len(watch) \/ k = Len(watch) + 1
        /\ \A n \in Names : api'[n] = IF n # o.name THEN api[n] ELSE IF gone THEN NoObj ELSE o
    BY WriteStep
  <2>2. \A k \in 1 .. Len(watch') : watch'[k].obj = o \/ watch'[k].obj \in Heard
    BY <2>1, HeardParts
  <2>3. \A p \in Heard' : p \in Heard \/ p = o
    BY <2>1, <2>2, HeardParts
  <2>4. \A n \in Names : api'[n] # NoObj => api'[n] = o
    BY <1>4, <2>1
  <2>5. QED
    BY <2>3, <2>4, VersionParts
<1>7. CASE a = NoObj
  <2>1. o.gen = Top + 1 /\ o.tmpl = Top + 1
    BY <1>1, <1>3, <1>7 DEF Succeeds
  <2>2. /\ o.gen <= Top + 1 /\ o.tmpl <= Top + 1
        /\ \A p \in Versions : p.tmpl < o.tmpl /\ p.gen # o.gen /\ p.tmpl <= o.tmpl
    BY <1>1, <1>5, <2>1
  <2>3. QED
    BY <1>1, <1>2, <1>4, <1>7, <1>6, <2>2
<1>8. CASE a # NoObj
  <2>1. a \in Versions
    BY <1>2, <1>3, <1>8, VersionParts
  <2>2. \/ o.gen = a.gen /\ o.tmpl = a.tmpl
        \/ o.gen = Top + 1 /\ o.tmpl \in {a.tmpl, Top + 1}
    BY <1>1, <1>3, <1>8 DEF Succeeds
  <2>3. a.tmpl <= o.tmpl /\ o.gen <= Top + 1 /\ o.tmpl <= Top + 1
    BY <1>1, <1>5, <2>1, <2>2
  <2>4. \A p \in Versions : p.tmpl <= a.tmpl /\ (p.gen = a.gen => p.tmpl = a.tmpl)
    BY <1>2, <1>3, <1>8, <2>1 DEF TemplatesOrdered
  <2>5. ASSUME NEW p \in Versions
        PROVE  p.tmpl <= o.tmpl /\ (p.gen = o.gen => p.tmpl = o.tmpl)
    <3>1. p.tmpl <= o.tmpl
      BY <1>2, <1>5, <2>1, <2>3, <2>4
    <3>2. CASE o.gen = a.gen /\ o.tmpl = a.tmpl
      BY <2>4, <3>1, <3>2
    <3>3. CASE o.gen = Top + 1
      BY <1>1, <1>5, <3>1, <3>3
    <3>4. QED
      BY <2>2, <3>2, <3>3
  <2>6. QED
    BY <1>1, <1>2, <1>4, <1>8, <1>6, <2>3, <2>5
<1>9. QED
  BY <1>7, <1>8

LEMMA TemplatesStep ==
    ASSUME OneName, TypeInv, Named, TemplatesOrdered, [Next]_vars
    PROVE  TemplatesOrdered'
<1>1. CASE Cluster
  <2>1. PICK o \in Deployment, gone \in BOOLEAN, kinds \in {{}, {"ignores"}, {"deletes"}} :
           Write(o, gone, kinds) /\ Succeeds(o, gone, kinds)
    BY <1>1, ClusterChange DEF TypeInv
  <2>2. /\ Top' = Top + 1 /\ o.rv = Top + 1 /\ o.gen <= Top + 1 /\ o.tmpl <= Top + 1
        /\ \A p \in Versions : p.tmpl <= o.tmpl /\ (p.gen = o.gen => p.tmpl = o.tmpl)
        /\ \A p \in Versions' : p \in Versions \/ p = o
        /\ \A n \in Names : api'[n] # NoObj => api'[n] = o
    BY <2>1, WriteNewest
  <2>3. /\ Top \in Nat /\ o.tmpl \in Nat
        /\ \A p \in Versions : /\ p.rv \in Nat /\ p.gen \in Nat /\ p.tmpl \in Nat
                               /\ p.rv <= Top /\ p.gen <= Top /\ p.tmpl <= Top
    BY VersionType DEF TemplatesOrdered, Deployment
  <2>4. \A p \in Versions' : p.rv <= Top' /\ p.gen <= Top' /\ p.tmpl <= Top' /\ p.rv <= o.rv
    BY <2>2, <2>3
  <2>5. ASSUME NEW p \in Versions', NEW q \in Versions', p.rv <= q.rv
        PROVE  p.tmpl <= q.tmpl
    <3>1. CASE p \in Versions /\ q \in Versions
      BY <2>5, <3>1 DEF TemplatesOrdered
    <3>2. CASE q = o
      BY <2>2, <2>3, <3>2
    <3>3. CASE p = o /\ q \in Versions
      BY <2>2, <2>3, <2>5, <3>3
    <3>4. QED
      BY <2>2, <3>1, <3>2, <3>3
  <2>6. ASSUME NEW p \in Versions', NEW q \in Versions', p.gen = q.gen
        PROVE  p.tmpl = q.tmpl
    BY <2>2, <2>6 DEF TemplatesOrdered
  <2>7. QED
    BY <2>2, <2>4, <2>5, <2>6 DEF TemplatesOrdered
<1>2. CASE ~Cluster
  <2>1. api' = api /\ \A o \in Versions' : o \in Versions
    BY <1>2, HeardStep, VersionParts
  <2>2. spent'.writes = spent.writes
    <3>1. ASSUME NEW w \in Workers, Worker(w)
          PROVE  spent'.writes = spent.writes
      <4>1. Finish(w) \/ GetItem(w) => spent'.writes = spent.writes
        BY GetStep, FinishStep
      <4>2. QED
        BY <3>1, <4>1, BusyStep DEF Worker, Progress
    <3>2. ToggleMode => spent'.writes = spent.writes
      BY SpendType DEF ToggleMode, TypeInv
    <3>3. UNCHANGED vars \/ Notify \/ (\E n \in Names : Resync(n)) \/ Requeue
            \/ ReadMode \/ MarkInProgress => spent' = spent
      BY DEF vars, Notify, Resync, Requeue, ReadMode, MarkInProgress
    <3>4. QED
      BY <1>2, <3>1, <3>2, <3>3 DEF Next
  <2>3. Top' = Top
    BY <2>2 DEF Top
  <2>4. QED
    BY <2>1, <2>3 DEF TemplatesOrdered
<1>3. QED
  BY <1>1, <1>2

\* The worker and the queue know of no deletion that they did not know of before
LEMMA DeletedStep ==
    ASSUME TypeInv, [Next]_vars, ~Cluster, ~Notify, ~\E n \in Names : Resync(n)
    PROVE  (\A o \in Deleted' : o \in Deleted) /\ UNCHANGED <<api, watch, store>>
<1>1. work \in [Workers -> Busy \cup {Idle}] /\ queue \in Seq(Item) /\ delayed \in Seq(Item)
  BY DEF TypeInv, TypeOK
<1>2. CASE UNCHANGED vars \/ ToggleMode \/ ReadMode \/ MarkInProgress
  <2>1. UNCHANGED <<api, watch, store, queue, delayed, work>>
    BY <1>2 DEF vars, ToggleMode, ReadMode, MarkInProgress, clusterVars, queueVars
  <2>2. QED
    BY <2>1, DeletedParts
<1>3. ASSUME NEW w \in Workers, GetItem(w)
      PROVE  \A o \in Deleted' : o \in Deleted
  <2>1. /\ Len(queue) > 0 /\ delayed' = delayed
        /\ \A k \in 1 .. Len(queue') : queue'[k] = queue[k + 1] /\ k + 1 \in 1 .. Len(queue)
        /\ \/ work' = work
           \/ \E t \in Busy : work' = [work EXCEPT ![w] = t] /\ t.item = queue[1]
    BY <1>3, GetStep
  <2>2. 1 \in 1 .. Len(queue)
    BY <1>1, <2>1
  <2>3. \A v \in Workers : work'[v] # Idle /\ work'[v].item.type = "Delete" =>
                             work'[v].item.obj \in Deleted
    BY <1>1, <2>1, <2>2, DeletedParts
  <2>4. \A k \in 1 .. Len(queue') : queue'[k].type = "Delete" => queue'[k].obj \in Deleted
    BY <2>1, DeletedParts
  <2>5. QED
    BY <2>1, <2>3, <2>4, DeletedParts
<1>4. ASSUME NEW w \in Workers,
             \/ CacheStep(w) \/ Begin(w) \/ WriteMesh(w) \/ FailWrite(w) \/ Evict(w) \/ SetStatus(w)
      PROVE  \A o \in Deleted' : o \in Deleted
  <2>1. /\ work[w] # Idle /\ UNCHANGED <<queue, delayed>>
        /\ \E t \in Busy : work' = [work EXCEPT ![w] = t] /\ t.item = work[w].item
    BY <1>4, BusyStep
  <2>2. \A v \in Workers : work'[v] # Idle /\ work'[v].item.type = "Delete" =>
                             work'[v].item.obj \in Deleted
    BY <1>1, <2>1, DeletedParts
  <2>3. QED
    BY <2>1, <2>2, DeletedParts
<1>5. ASSUME NEW w \in Workers, Finish(w)
      PROVE  \A o \in Deleted' : o \in Deleted
  <2>1. /\ work[w] # Idle /\ work' = [work EXCEPT ![w] = Idle] /\ queue' = queue
        /\ \/ delayed' = delayed
           \/ \E x \in Item : /\ delayed' = Append(delayed, x) /\ x.obj = work[w].item.obj
                              /\ x.type = work[w].item.type
    BY <1>5, FinishStep
  <2>2. \A k \in 1 .. Len(delayed') : delayed'[k].type = "Delete" => delayed'[k].obj \in Deleted
    <3>1. CASE delayed' = delayed
      BY <3>1, DeletedParts
    <3>2. ASSUME NEW x \in Item, delayed' = Append(delayed, x), x.obj = work[w].item.obj,
                 x.type = work[w].item.type
          PROVE  \A k \in 1 .. Len(delayed') : delayed'[k].type = "Delete" => delayed'[k].obj \in Deleted
      <4>1. \A k \in 1 .. Len(delayed') :
               (k \in 1 .. Len(delayed) /\ delayed'[k] = delayed[k]) \/ delayed'[k] = x
        BY <1>1, <3>2
      <4>2. QED
        BY <2>1, <3>2, <4>1, DeletedParts
    <3>3. QED
      BY <2>1, <3>1, <3>2
  <2>3. \A v \in Workers : work'[v] # Idle => work'[v] = work[v]
    BY <1>1, <2>1
  <2>4. QED
    BY <2>1, <2>2, <2>3, DeletedParts
<1>6. CASE Requeue
  <2>1. PICK i \in 1 .. Len(delayed) :
          /\ UNCHANGED <<api, watch, store, known, slot, work, mesh, readOnly, spent>>
          /\ Len(queue') = Len(queue) + 1 /\ queue'[Len(queue) + 1] = delayed[i]
          /\ \A k \in 1 .. Len(queue) : queue'[k] = queue[k]
          /\ \A k \in 1 .. Len(delayed') : \E j \in 1 .. Len(delayed) : delayed'[k] = delayed[j]
    BY <1>6, RequeueStep
  <2>2. \A k \in 1 .. Len(queue') :
           (k \in 1 .. Len(queue) /\ queue'[k] = queue[k]) \/ queue'[k] = delayed[i]
    BY <1>1, <2>1
  <2>3. QED
    BY <2>1, <2>2, DeletedParts
<1>7. ASSUME NEW w \in Workers, Worker(w)
      PROVE  (\A o \in Deleted' : o \in Deleted) /\ UNCHANGED <<api, watch, store>>
  BY <1>3, <1>4, <1>5, <1>7, HeldStep DEF Worker, Progress
<1>8. QED
  BY <1>2, <1>6, <1>7 DEF Next

\* A deployment that is created again has a template that is newer than the one it
\* was deleted with
LEMMA DeletesOlderStep ==
    ASSUME OneName, TypeInv, Named, TemplatesOrdered, DeletesOlder, [Next]_vars
    PROVE  DeletesOlder'
<1>1. CASE Cluster
  <2>1. PICK o \in Deployment, gone \in BOOLEAN, kinds \in {{}, {"ignores"}, {"deletes"}} :
           Write(o, gone, kinds) /\ Succeeds(o, gone, kinds)
    BY <1>1, ClusterChange DEF TypeInv
  <2>2. /\ \A n \in Names : api[n] # NoObj => api[n].tmpl <= o.tmpl
        /\ (\A n \in Names : api[n] = NoObj) => \A p \in Versions : p.tmpl < o.tmpl
        /\ \A n \in Names : api'[n] # NoObj => api'[n] = o
    BY <2>1, WriteNewest
  <2>3. PICK L \in Nat :
        /\ L = Len(watch) /\ watch'[L + 1] = [gone |-> gone, obj |-> o]
        /\ \A k \in 1 .. L : watch'[k] = watch[k]
        /\ \A k \in 1 .. Len(watch') : k \in 1 .. L \/ k = L + 1
        /\ UNCHANGED <<store, queue, delayed, work>>
        /\ \A n \in Names : api'[n] = IF n # o.name THEN api[n] ELSE IF gone THEN NoObj ELSE o
    BY <2>1, WriteStep
  <2>4. \A p \in Deleted' : p \in Deleted
    BY <2>3, DeletedParts
  <2>5. /\ \A n \in Names : api[n] # NoObj => api[n].tmpl \in Nat
        /\ \A p \in Versions : p.tmpl \in Nat
        /\ o.tmpl \in Nat /\ o.name \in Names
    BY VersionType, VersionParts DEF Deployment
  <2>6. ASSUME NEW p \in Versions, \A n \in Names : api[n] # NoObj => p.tmpl < api[n].tmpl
        PROVE  p.tmpl < o.tmpl
    BY <2>2, <2>5, <2>6
  <2>7. ASSUME NEW p \in Deleted'
        PROVE  /\ \A n \in Names : store'[n] # NoObj => p.tmpl < store'[n].tmpl
               /\ \A n \in Names : api'[n] # NoObj => p.tmpl < api'[n].tmpl
               /\ \A k \in 1 .. Len(watch') : p.tmpl < watch'[k].obj.tmpl
    <3>1. p \in Deleted /\ p \in Versions
      BY <2>4, DeletedParts
    <3>2. p.tmpl < o.tmpl
      BY <2>6, <3>1 DEF DeletesOlder
    <3>3. QED
      BY <2>2, <2>3, <3>1, <3>2 DEF DeletesOlder
  <2>8. ASSUME NEW j \in 1 .. Len(watch'), watch'[j].gone
        PROVE  /\ \A n \in Names : api'[n] # NoObj => watch'[j].obj.tmpl < api'[n].tmpl
               /\ \A k \in 1 .. Len(watch') : j < k => watch'[j].obj.tmpl < watch'[k].obj.tmpl
    <3>1. CASE j \in 1 .. L
      <4>1. watch'[j] = watch[j] /\ watch[j].obj \in Versions
        BY <2>3, <3>1, HeardParts, VersionParts
      <4>2. watch[j].obj.tmpl < o.tmpl
        BY <2>3, <2>6, <2>8, <3>1, <4>1 DEF DeletesOlder
      <4>3. \A k \in 1 .. L : j < k => watch[j].obj.tmpl < watch[k].obj.tmpl
        BY <2>3, <2>8, <3>1, <4>1 DEF DeletesOlder
      <4>4. QED
        BY <2>2, <2>3, <4>1, <4>2, <4>3
    <3>2. CASE j = L + 1
      <4>1. \A n \in Names : api'[n] = NoObj
        BY <2>3, <2>5, <2>8, <3>2 DEF OneName
      <4>2. \A k \in 1 .. Len(watch') : ~(j < k)
        BY <2>3, <3>2
      <4>3. QED
        BY <4>1, <4>2
    <3>3. QED
      BY <2>3, <3>1, <3>2
  <2>9. QED
    BY <2>7, <2>8 DEF DeletesOlder
<1>2. CASE Notify \/ \E n \in Names : Resync(n)
  <2>1. /\ UNCHANGED <<api, delayed, known, slot, work, mesh, readOnly, spent>>
        /\ \/ UNCHANGED <<watch, store>>
           \/ /\ Len(watch) > 0 /\ watch' = Tail(watch) /\ watch[1] \in Changes
              /\ store' = [store EXCEPT ![watch[1].obj.name] =
                             IF watch[1].gone THEN NoObj ELSE watch[1].obj]
        /\ \/ queue' = queue
           \/ \E type \in EventTypes, o \in Deployment :
                 /\ Announces(type, o)
                 /\ type = "Delete" =>
                      /\ Len(watch) > 0 /\ watch' = Tail(watch) /\ o = watch[1].obj
                      /\ watch[1].gone
    BY <1>2, InformerObjects
  <2>2. watch \in Seq(Changes) /\ store \in [Names -> Objects] /\ Len(queue) \in Nat
    BY DEF TypeInv, TypeOK, Changes, Objects
  <2>3. ASSUME NEW p \in Deleted'
        PROVE  \/ p \in Deleted
               \/ Len(watch) > 0 /\ watch' = Tail(watch) /\ watch[1].gone /\ p = watch[1].obj
    <3>1. CASE queue' = queue
      BY <2>1, <3>1, DeletedParts
    <3>2. ASSUME NEW type \in EventTypes, NEW o \in Deployment, Announces(type, o),
                 type = "Delete" => /\ Len(watch) > 0 /\ watch' = Tail(watch) /\ o = watch[1].obj
                                    /\ watch[1].gone
          PROVE  \/ p \in Deleted
                 \/ Len(watch) > 0 /\ watch' = Tail(watch) /\ watch[1].gone /\ p = watch[1].obj
      <4>1. /\ Len(queue') = Len(queue) + 1
            /\ queue'[Len(queue) + 1] = [type |-> type, obj |-> o, requeues |-> 0]
            /\ \A k \in 1 .. Len(queue) : queue'[k] = queue[k]
        BY <3>2, AnnounceStep DEF TypeInv
      <4>2. \A k \in 1 .. Len(queue') : \/ k \in 1 .. Len(queue) /\ queue'[k] = queue[k]
                                        \/ queue'[k].obj = o /\ queue'[k].type = type
        BY <2>2, <4>1
      <4>3. QED
        BY <2>1, <3>2, <4>2, DeletedParts
    <3>3. QED
      BY <2>1, <3>1, <3>2
  <2>4. CASE UNCHANGED <<watch, store>>
    <3>1. ~(Len(watch) > 0 /\ watch' = Tail(watch))
      BY <2>2, <2>4
    <3>2. QED
      BY <2>1, <2>3, <2>4, <3>1 DEF DeletesOlder
  <2>5. CASE /\ Len(watch) > 0 /\ watch' = Tail(watch) /\ watch[1] \in Changes
             /\ store' = [store EXCEPT ![watch[1].obj.name] =
                            IF watch[1].gone THEN NoObj ELSE watch[1].obj]
    <3>1. PICK c \in Changes : c = watch[1]
      BY <2>5
    <3>2. /\ 1 \in 1 .. Len(watch)
          /\ \A k \in 1 .. Len(watch') : /\ k + 1 \in 1 .. Len(watch) /\ watch'[k] = watch[k + 1]
                                         /\ 1 < k + 1
      BY <2>2, <2>5
    <3>3. \A n \in Names : store'[n] = IF c.gone THEN NoObj ELSE c.obj
      <4>1. c.obj.name \in Names
        BY DEF Changes, Deployment
      <4>2. QED
        BY <2>2, <2>5, <3>1, <4>1 DEF OneName
    <3>4. ASSUME NEW p \in Deleted'
          PROVE  /\ \A n \in Names : store'[n] # NoObj => p.tmpl < store'[n].tmpl
                 /\ \A n \in Names : api'[n] # NoObj => p.tmpl < api'[n].tmpl
                 /\ \A k \in 1 .. Len(watch') : p.tmpl < watch'[k].obj.tmpl
      <4>1. CASE p \in Deleted
        BY <2>1, <3>1, <3>2, <3>3, <4>1 DEF DeletesOlder
      <4>2. CASE c.gone /\ p = c.obj
        BY <2>1, <3>1, <3>2, <3>3, <4>2 DEF DeletesOlder
      <4>3. QED
        BY <2>3, <3>1, <4>1, <4>2
    <3>5. ASSUME NEW j \in 1 .. Len(watch'), watch'[j].gone
          PROVE  /\ \A n \in Names : api'[n] # NoObj => watch'[j].obj.tmpl < api'[n].tmpl
                 /\ \A k \in 1 .. Len(watch') : j < k => watch'[j].obj.tmpl < watch'[k].obj.tmpl
      <4>1. \A k \in 1 .. Len(watch') : j < k => j + 1 < k + 1
        OBVIOUS
      <4>2. QED
        BY <2>1, <3>2, <3>5, <4>1 DEF DeletesOlder
    <3>6. QED
      BY <3>4, <3>5 DEF DeletesOlder
  <2>6. QED
    BY <2>1, <2>4, <2>5
<1>3. CASE ~Cluster /\ ~Notify /\ ~\E n \in Names : Resync(n)
  <2>1. (\A o \in Deleted' : o \in Deleted) /\ UNCHANGED <<api, watch, store>>
    BY <1>3, DeletedStep
  <2>2. QED
    BY <2>1 DEF DeletesOlder
<1>4. QED
  BY <1>1, <1>2, <1>3

LEMMA StoreFollowsStep ==
    ASSUME OneName, TypeInv, StoreFollows, [Next]_vars
    PROVE  StoreFollows'
<1>1. watch \in Seq(Changes) /\ store \in [Names -> Objects] /\ Len(watch) \in Nat
  BY DEF TypeInv, TypeOK, Changes, Objects
<1>2. CASE UNCHANGED <<api, watch, store>>
  BY <1>2 DEF StoreFollows
<1>3. CASE Cluster
  <2>1. PICK o \in Deployment, gone \in BOOLEAN, kinds \in {{}, {"ignores"}, {"deletes"}} :
           Write(o, gone, kinds)
    BY <1>3, ClusterWrites DEF TypeInv
  <2>2. /\ Len(watch') = Len(watch) + 1 /\ watch'[Len(watch')] = [gone |-> gone, obj |-> o]
        /\ \A n \in Names : api'[n] = IF n # o.name THEN api[n] ELSE IF gone THEN NoObj ELSE o
    BY <2>1, WriteStep
  <2>3. Len(watch') # 0 /\ \A n \in Names : n = o.name
    BY <1>1, <2>2 DEF OneName, Deployment
  <2>4. QED
    BY <2>2, <2>3 DEF StoreFollows
<1>4. CASE Notify
  <2>1. PICK c \in Changes :
          /\ watch # << >> /\ c = watch[1] /\ watch' = Tail(watch) /\ api' = api
          /\ store' = [store EXCEPT ![c.obj.name] = IF c.gone THEN NoObj ELSE c.obj]
    BY <1>4, NotifyStep DEF TypeInv
  <2>2. PICK L \in Nat : L = Len(watch) /\ L # 0 /\ Len(watch') = L - 1
    BY <1>1, <2>1
  <2>3. \A n \in Names : store'[n] = IF c.gone THEN NoObj ELSE c.obj
    <3>1. c.obj.name \in Names
      BY DEF Changes, Deployment
    <3>2. QED
      BY <1>1, <2>1, <3>1 DEF OneName
  <2>4. CASE L = 1
    BY <2>1, <2>2, <2>3, <2>4 DEF StoreFollows
  <2>5. CASE L # 1
    <3>1. L - 1 # 0 /\ watch'[L - 1] = watch[L]
      BY <1>1, <2>1, <2>2, <2>5
    <3>2. QED
      BY <2>1, <2>2, <3>1 DEF StoreFollows
  <2>6. QED
    BY <2>4, <2>5
<1>5. ASSUME NEW w \in Workers, Worker(w)
      PROVE  UNCHANGED <<api, watch, store>>
  BY <1>5, HeldStep
<1>6. UNCHANGED vars \/ ToggleMode \/ Requeue \/ (\E n \in Names : Resync(n)) \/ ReadMode
        \/ MarkInProgress => UNCHANGED <<api, watch, store>>
  BY DEF vars, ToggleMode, Requeue, Resync, ReadMode, MarkInProgress, clusterVars
<1>7. QED
  BY <1>2, <1>3, <1>4, <1>5, <1>6 DEF Next

\* When the cache has the template of the deployment, so has every later event that
\* is held, and it is not a deletion
LEMMA Newest ==
    ASSUME OneName, OrderInv, TemplatesOrdered, DeletesOlder, NEW n \in Names, store[n] # NoObj,
           Cached # NoObj, Cached.tmpl = store[n].tmpl, NEW x \in Held, Cached.rv <= x.rv
    PROVE  x.tmpl = store[n].tmpl /\ x \notin Deleted
<1>1. Cached \in Versions /\ x \in Versions /\ store[n] \in Versions
  BY HeldParts, HeardParts, VersionParts
<1>2. x.tmpl \in Nat /\ store[n].tmpl \in Nat /\ x \in Deployment
  BY <1>1, VersionType DEF OrderInv
<1>3. x.rv <= store[n].rv
  BY <1>2, StoreTold DEF OneName, Deployment
<1>4. x.tmpl = store[n].tmpl
  BY <1>1, <1>2, <1>3 DEF TemplatesOrdered
<1>5. QED
  BY <1>2, <1>4 DEF DeletesOlder

\* What is held is not newer than what the informer knows, nor is its template
LEMMA HeldOlder ==
    ASSUME OneName, OrderInv, TemplatesOrdered, NEW n \in Names, store[n] # NoObj, NEW x \in Held
    PROVE  x.tmpl <= store[n].tmpl /\ x.tmpl \in Nat /\ store[n].tmpl \in Nat
<1>1. x \in Versions /\ store[n] \in Versions
  BY HeldParts, HeardParts, VersionParts
<1>2. x.tmpl \in Nat /\ store[n].tmpl \in Nat /\ x \in Deployment
  BY <1>1, VersionType DEF OrderInv
<1>3. x.rv <= store[n].rv
  BY <1>2, StoreTold DEF OneName, Deployment
<1>4. QED
  BY <1>1, <1>2, <1>3 DEF TemplatesOrdered

\* UpdateFunc skips an update only when the template is the same
LEMMA UpdateSkips ==
    ASSUME TypeOK, NEW old \in Deployment, NEW new \in Deployment, InOrderOf(old, new),
           UpdateFunc(old, new)
    PROVE  \/ /\ queue' = queue
              /\ old.gen = new.gen \/ old.tmpl = new.tmpl \/ old.rv = new.rv
           \/ \E o \in Deployment :
                 Announces("Update", o) /\ (o = new \/ (o = old /\ old.rv = new.rv))
<1>1. CASE ProcessStatus = "Processed" /\ NothingToProcess(old, new)
  <2>1. queue' = queue
    BY <1>1 DEF UpdateFunc
  <2>2. QED
    BY <1>1, <2>1 DEF NothingToProcess
<1>2. CASE ~(ProcessStatus = "Processed" /\ NothingToProcess(old, new))
  <2>1. PICK latest \in LatestObj(old, new) :
          IF ProcessStatus = "NotProcessed" \/ latest.changed
          THEN /\ Enqueue("Update", latest.obj)
               /\ informer' = [pc |-> "mode", obj |-> latest.obj]
          ELSE UNCHANGED <<queue, informer>>
    BY <1>2 DEF UpdateFunc
  <2>2. /\ latest.obj \in Deployment
        /\ latest.obj = new \/ (latest.obj = old /\ old.rv = new.rv)
    BY LatestType
  <2>3. latest.changed \/ old.rv = new.rv
    <3>1. old.rv \in Nat /\ new.rv \in Nat
      BY DEF Deployment
    <3>2. old.rv # new.rv => ~VersionLess(new.rv, old.rv)
      BY <3>1 DEF InOrderOf, Misordered
    <3>3. QED
      BY <3>2 DEF LatestObj
  <2>4. CASE ProcessStatus = "NotProcessed" \/ latest.changed
    <3>1. Announces("Update", latest.obj)
      BY <2>1, <2>4 DEF Announces, Enqueue, NewItem
    <3>2. QED
      BY <2>2, <3>1
  <2>5. CASE ~(ProcessStatus = "NotProcessed" \/ latest.changed)
    BY <2>1, <2>3, <2>5
  <2>6. QED
    BY <2>4, <2>5
<1>3. QED
  BY <1>1, <1>2

\* The informer announces the template it learns of, or has the same one already
LEMMA InformerSettles ==
    ASSUME OneName, Numeric', OrderInv, Named, TemplatesOrdered,
           Notify \/ \E m \in Names : Resync(m), NEW n \in Names, store'[n] # NoObj
    PROVE  \/ Waiting(store[n].tmpl)'
           \/ /\ UNCHANGED <<queue, delayed, known, slot, work, mesh>>
              /\ store[n] # NoObj /\ store'[n].tmpl = store[n].tmpl
<1>1. /\ TypeInv /\ TypeOK /\ store \in [Names -> Objects] /\ queue \in Seq(Item)
      /\ watch \in Seq(Changes)
  BY DEF OrderInv, TypeInv, TypeOK, Objects, Changes
<1>2. ASSUME NEW type \in EventTypes, NEW o \in Deployment, Announces(type, o), type # "Delete",
             o.tmpl = store'[n].tmpl
      PROVE  Waiting(store[n].tmpl)'
  <2>1. /\ queue' \in Seq(Item) /\ Len(queue') = Len(queue) + 1
        /\ queue'[Len(queue) + 1] = [type |-> type, obj |-> o, requeues |-> 0]
    BY <1>1, <1>2, AnnounceStep
  <2>2. PICK k \in 1 .. Len(queue') :
          /\ queue'[k].type # "Delete" /\ queue'[k].obj.tmpl = store'[n].tmpl
          /\ queue'[k].requeues = 0
    BY <1>1, <1>2, <2>1
  <2>3. QED
    BY <2>2 DEF Waiting, Due
<1>3. ASSUME NEW old \in Deployment, NEW new \in Deployment, UpdateFunc(old, new),
             InOrderOf(old, new), old \in Versions, new \in Versions, store[n] = old, store'[n] = new,
             UNCHANGED <<delayed, known, slot, work, mesh>>
      PROVE  \/ Waiting(store[n].tmpl)'
             \/ /\ UNCHANGED <<queue, delayed, known, slot, work, mesh>>
                /\ store[n] # NoObj /\ store'[n].tmpl = store[n].tmpl
  <2>1. old.rv = new.rv => old.tmpl = new.tmpl
    <3>1. old.rv \in Nat /\ new.rv \in Nat /\ old.tmpl \in Nat /\ new.tmpl \in Nat
      BY DEF Deployment
    <3>2. old.rv = new.rv => old.tmpl <= new.tmpl /\ new.tmpl <= old.tmpl
      BY <1>3, <3>1 DEF TemplatesOrdered
    <3>3. QED
      BY <3>1, <3>2
  <2>2. old.gen = new.gen => old.tmpl = new.tmpl
    BY <1>3 DEF TemplatesOrdered
  <2>3. old # NoObj
    BY DEF Deployment, NoObj
  <2>4. CASE /\ queue' = queue
             /\ old.gen = new.gen \/ old.tmpl = new.tmpl \/ old.rv = new.rv
    BY <1>3, <2>1, <2>2, <2>3, <2>4
  <2>5. ASSUME NEW o \in Deployment, Announces("Update", o),
               o = new \/ (o = old /\ old.rv = new.rv)
        PROVE  Waiting(store[n].tmpl)'
    <3>1. o.tmpl = store'[n].tmpl /\ "Update" \in EventTypes
      BY <1>3, <2>1, <2>5 DEF EventTypes
    <3>2. QED
      BY <1>2, <2>5, <3>1
  <2>6. QED
    BY <1>1, <1>3, <2>4, <2>5, UpdateSkips
<1>4. CASE Notify
  <2>1. PICK c \in Changes :
          /\ watch # << >> /\ c = watch[1]
          /\ store' = [store EXCEPT ![c.obj.name] = IF c.gone THEN NoObj ELSE c.obj]
          /\ UNCHANGED <<api, delayed, known, slot, work, mesh, readOnly, spent>>
          /\ \/ c.gone /\ Announces("Delete", c.obj)
             \/ ~c.gone /\ Announces("Add", c.obj)
             \/ /\ ~c.gone /\ store[c.obj.name] \in Deployment
                /\ store[c.obj.name] # NoObj
                /\ UpdateFunc(store[c.obj.name], c.obj)
                /\ Misordered(c.obj.rv, store[c.obj.name].rv) => "order" \in astray'
    BY <1>1, <1>4, NotifyStep
  <2>2. c.obj \in Deployment /\ c.obj.name \in Names
    BY DEF Changes, Deployment
  <2>3. n = c.obj.name /\ ~c.gone /\ store'[n] = c.obj
    BY <1>1, <2>1, <2>2 DEF OneName
  <2>4. 1 \in 1 .. Len(watch)
    BY <1>1, <2>1
  <2>5. CASE Announces("Add", c.obj)
    <3>1. "Add" \in EventTypes
      BY DEF EventTypes
    <3>2. QED
      BY <1>2, <2>2, <2>3, <2>5, <3>1
  <2>6. CASE /\ store[n] \in Deployment /\ store[n] # NoObj /\ UpdateFunc(store[n], c.obj)
             /\ Misordered(c.obj.rv, store[n].rv) => "order" \in astray'
    <3>1. store[n].rv <= c.obj.rv
      BY <2>1, <2>4, <2>6, StoreTold DEF Told
    <3>4. InOrderOf(store[n], c.obj)
      BY <2>6, <3>1 DEF InOrderOf, Numeric
    <3>2. store[n] \in Versions /\ c.obj \in Versions
      BY <2>1, <2>4, <2>6, HeardParts, VersionParts
    <3>3. QED
      BY <1>3, <2>1, <2>2, <2>3, <2>6, <3>2, <3>4
  <2>7. QED
    BY <2>1, <2>3, <2>5, <2>6
<1>5. CASE \E m \in Names : Resync(m)
  <2>1. Resync(n)
    BY <1>5 DEF OneName
  <2>2. /\ store[n] # NoObj /\ UpdateFunc(store[n], store[n]) /\ store' = store
        /\ UNCHANGED <<delayed, known, slot, work, mesh>>
    BY <2>1 DEF Resync, cacheVars
  <2>3. store[n] \in Deployment /\ InOrderOf(store[n], store[n])
    BY <2>2, StoreTold DEF InOrderOf
  <2>4. store[n] \in Versions
    BY <2>2, HeardParts, VersionParts
  <2>5. QED
    BY <1>3, <2>2, <2>3, <2>4
<1>6. QED
  BY <1>4, <1>5

\* An event stays in the queue, or waits, and is as acceptable as before
LEMMA WaitingKept ==
    ASSUME TypeInv, queue' = queue, delayed' = delayed \/ \E x \in Item : delayed' = Append(delayed, x),
           NEW t, Waiting(t),
           \A y \in Item : y.obj \in Held /\ y.obj.tmpl = t /\ Due(y) => Due(y)'
    PROVE  Waiting(t)'
<1>1. delayed \in Seq(Item) /\ queue \in Seq(Item)
  BY DEF TypeInv, TypeOK
<1>2. \A k \in 1 .. Len(delayed) : k \in 1 .. Len(delayed') /\ delayed'[k] = delayed[k]
  BY <1>1
<1>3. ASSUME NEW k \in 1 .. Len(queue), queue[k].type # "Delete", queue[k].obj.tmpl = t,
             Due(queue[k])
      PROVE  Waiting(t)'
  <2>1. PICK y \in Item : y = queue[k] /\ y = queue'[k] /\ y.obj \in Held
    BY <1>1, HeldParts
  <2>2. Due(y)'
    BY <1>3, <2>1
  <2>3. k \in 1 .. Len(queue') /\ queue'[k].type # "Delete" /\ queue'[k].obj.tmpl = t
    BY <1>3
  <2>4. QED
    BY <2>1, <2>2, <2>3 DEF Waiting, Due
<1>4. ASSUME NEW k \in 1 .. Len(delayed), delayed[k].type # "Delete", delayed[k].obj.tmpl = t,
             Due(delayed[k])
      PROVE  Waiting(t)'
  <2>1. PICK y \in Item : y = delayed[k] /\ y = delayed'[k] /\ y.obj \in Held
    BY <1>1, <1>2, HeldParts
  <2>2. Due(y)'
    BY <1>4, <2>1
  <2>3. k \in 1 .. Len(delayed') /\ delayed'[k].type # "Delete" /\ delayed'[k].obj.tmpl = t
    BY <1>2, <1>4
  <2>4. QED
    BY <2>1, <2>2, <2>3 DEF Waiting, Due
<1>5. QED
  BY <1>3, <1>4 DEF Waiting

\* A worker that handles an event with template t has configured the mesh with it,
\* or is about to, or has failed
LEMMA HandledSettles ==
    ASSUME OneName, AllHandled', NEW n \in Names, NEW t, NEW w \in Workers, NEW s \in Busy,
           work'[w] = s, s.item.type # "Delete", s.item.obj.tmpl = t
    PROVE  AtWork(t)' \/ Reached(n, t)'
<1>1. /\ s.pc \in {"cache", "begin", "write", "evict", "status", "finish"} /\ s # Idle
      /\ s.item \in Item
  BY DEF Busy, Idle
<1>2. s.item.obj \in Deployment /\ s.item.obj.name = n
  BY <1>1, ItemTypes DEF OneName
<1>3. s.item.obj # NoObj
  BY <1>2 DEF Deployment, NoObj
<1>4. CASE s.pc \in {"cache", "begin", "write"} \/ s.err
  BY <1>1, <1>4 DEF AtWork
<1>5. CASE ~(s.pc \in {"cache", "begin", "write"} \/ s.err)
  <2>1. Handles(s)'
    BY <1>1 DEF AllHandled, Handles
  <2>2. Cached' = s.item.obj /\ mesh' = [name |-> n, tmpl |-> t]
    BY <1>1, <1>2, <1>5, <2>1 DEF Handles
  <2>3. QED
    BY <1>3, <2>2 DEF Reached
<1>6. QED
  BY <1>4, <1>5

\* The worker is past the cache: if the mesh has been reached, with this very event
LEMMA PastCache ==
    ASSUME OneName, OrderInv, NothingIgnored, AllHandled, TemplatesOrdered, DeletesOlder,
           NEW n \in Names, store[n] # NoObj, Cached # NoObj, Cached.tmpl = store[n].tmpl,
           NEW w \in Workers, work[w] \in Busy, work[w].pc # "cache"
    PROVE  work[w].item.type # "Delete" /\ work[w].item.obj.tmpl = store[n].tmpl
<1>1. PICK s \in Busy : s = work[w]
  OBVIOUS
<1>2. s # Idle
  BY DEF Busy, Idle
<1>3. s.item.obj \in Held /\ ~s.item.obj.ign
  BY <1>1, <1>2, HeldParts, HeardParts DEF NothingIgnored
<1>4. Cached.rv <= s.item.obj.rv
  BY <1>1, <1>2, <1>3 DEF OrderInv, WorkCurrent, Current
<1>5. s.item.obj.tmpl = store[n].tmpl /\ s.item.obj \notin Deleted
  BY <1>3, <1>4, Newest
<1>6. QED
  BY <1>1, <1>2, <1>5, DeletedParts

\* Between taking an item and finishing with it
LEMMA BusySettles ==
    ASSUME InTurn', OneName, OrderInv, NothingIgnored, AllHandled, AllHandled',
           TemplatesOrdered, DeletesOlder, Settling, NEW w \in Workers,
           \/ CacheStep(w) \/ Begin(w) \/ WriteMesh(w) \/ FailWrite(w) \/ Evict(w) \/ SetStatus(w)
    PROVE  Settling'
<1>1. TypeInv /\ work \in [Workers -> Busy \cup {Idle}]
  BY DEF OrderInv, TypeInv, TypeOK
<1>2. PICK s \in Busy : s = work[w] /\ s # Idle
  BY <1>1, BusyStep
<1>3. /\ UNCHANGED <<api, watch, store, queue, delayed, readOnly>>
      /\ \/ Cached' \in {Cached, NoObj}
         \/ s.pc = "cache" /\ ~s.item.obj.ign /\ Cached' = s.item.obj
  BY <1>1, <1>2, BusyStep
<1>4. PICK u \in Busy : work' = [work EXCEPT ![w] = u] /\ u.item = s.item
  BY <1>1, <1>2, BusyStep
<1>5. work'[w] = u /\ \A v \in Workers : work[v] # Idle => v = w
  BY <1>1, <1>4, Turn DEF Worker, Progress
<1>6. /\ s.item \in Item /\ s.item.obj \in Held /\ s.item.obj \in Deployment
      /\ ~s.item.obj.ign /\ s.item.obj # NoObj
  <2>1. s.item \in Item /\ s.item.obj \in Deployment
    BY ItemTypes DEF Busy
  <2>2. s.item.obj \in Held
    BY <1>2, HeldParts
  <2>3. s.item.obj # NoObj
    BY <2>1 DEF Deployment, NoObj
  <2>4. QED
    BY <2>1, <2>2, <2>3, HeardParts DEF NothingIgnored
<1>7. SUFFICES ASSUME NEW n \in Names, store'[n] # NoObj
               PROVE  Waiting(store[n].tmpl)' \/ AtWork(store[n].tmpl)' \/ Reached(n, store[n].tmpl)'
  BY DEF Settling
<1>8. PICK t : t = store[n].tmpl /\ t = store'[n].tmpl /\ store[n] # NoObj
  BY <1>3, <1>7
<1>9. SUFFICES Waiting(t)' \/ AtWork(t)' \/ Reached(n, t)'
  BY <1>8 DEF Waiting, AtWork, Reached
<1>10. CASE s.item.type # "Delete" /\ s.item.obj.tmpl = t
  BY <1>4, <1>5, <1>10, HandledSettles
<1>11. CASE ~(s.item.type # "Delete" /\ s.item.obj.tmpl = t)
  <2>1. ~AtWork(t)
    BY <1>2, <1>5, <1>11 DEF AtWork
  <2>2. CASE Waiting(t)
    <3>1. ASSUME NEW y \in Item, y.obj \in Held, y.obj.tmpl = t, Due(y)
          PROVE  Due(y)'
      <4>1. CASE Cached' \in {Cached, NoObj}
        BY <3>1, <4>1 DEF Due
      <4>2. CASE Cached' = s.item.obj /\ s.item.type # "Delete"
        <5>1. /\ y.obj \in Versions /\ s.item.obj \in Versions
              /\ y.obj.rv \in Nat /\ s.item.obj.rv \in Nat
          BY <1>1, <1>6, <3>1, HeldType, HeardParts, VersionParts
        <5>2. s.item.obj.tmpl <= t /\ s.item.obj.tmpl \in Nat /\ t \in Nat
          BY <1>6, <1>8, HeldOlder
        <5>3. s.item.obj.tmpl < t
          BY <1>11, <4>2, <5>2
        <5>4. ~(y.obj.rv < s.item.obj.rv)
          BY <3>1, <5>1, <5>2, <5>3 DEF TemplatesOrdered
        <5>5. Cached'.rv <= y.obj.rv
          BY <4>2, <5>1, <5>4
        <5>6. QED
          BY <5>5 DEF Due
      <4>3. CASE s.pc = "cache" /\ s.item.type = "Delete"
        <5>1. CacheStep(w)
          BY <1>2, <4>3 DEF CacheStep, Begin, WriteMesh, FailWrite, Evict, SetStatus
        <5>2. Cached' = Cached
          BY <1>1, <1>2, <1>6, <4>3, <5>1, CacheDetail
        <5>3. QED
          BY <4>1, <5>2
      <4>4. QED
        BY <1>3, <4>1, <4>2, <4>3
    <3>2. QED
      BY <1>1, <1>3, <2>2, <3>1, WaitingKept
  <2>3. CASE Reached(n, t)
    <3>1. Cached # NoObj /\ Cached.tmpl = t
      BY <2>3 DEF Reached
    <3>2. s.pc = "cache"
      BY <1>2, <1>8, <1>11, <3>1, PastCache
    <3>3. s.item.type = "Delete"
      <4>1. SUFFICES ASSUME s.item.type # "Delete"
                     PROVE  Cached.rv <= s.item.obj.rv
        BY <1>6, <1>8, <1>11, <3>1, Newest
      <4>2. Current(s)
        BY <1>2 DEF OrderInv, WorkCurrent
      <4>3. CASE s.item.requeues > 0
        BY <3>1, <3>2, <4>2, <4>3 DEF Current
      <4>4. CASE s.item.requeues = 0
        <5>1. Cached.name \in Names /\ s.item.obj.name \in Names
          BY <1>1, <1>6, <3>1, CachedType DEF Deployment, TypeInv
        <5>2. QED
          BY <3>1, <3>2, <4>2, <4>4, <5>1 DEF Current, Follows, OneName
      <4>5. QED
        BY <1>6, <4>3, <4>4, ItemTypes
    <3>4. CacheStep(w)
      BY <1>2, <3>2 DEF CacheStep, Begin, WriteMesh, FailWrite, Evict, SetStatus
    <3>5. Cached' = Cached /\ ProcessStatus' = ProcessStatus /\ mesh' = mesh
      BY <1>1, <1>2, <1>6, <3>3, <3>4, CacheDetail
    <3>6. QED
      BY <2>3, <3>5 DEF Reached
  <2>4. QED
    BY <1>8, <2>1, <2>2, <2>3 DEF Settling
<1>12. QED
  BY <1>10, <1>11

\* A worker takes an event: it drops none that would be handled
LEMMA GetSettles ==
    ASSUME InTurn', Numeric', OrderInv, TypeInv, Settling, NEW w \in Workers, GetItem(w)
    PROVE  Settling'
<1>1. /\ work[w] = Idle /\ Len(queue) > 0 /\ Len(queue) = Len(queue') + 1 /\ queue' \in Seq(Item)
      /\ UNCHANGED <<api, watch, store, delayed, known, slot, mesh, readOnly>>
      /\ \A v \in Workers : work[v] = Idle
      /\ queue[1].requeues > 0 /\ Misjudged(queue[1].obj) => "order" \in astray'
      /\ \A k \in 1 .. Len(queue') : queue'[k] = queue[k + 1] /\ k + 1 \in 1 .. Len(queue)
      /\ \/ ~Accepted(queue[1]) /\ work' = work
         \/ \E u \in Busy : /\ work' = [work EXCEPT ![w] = u] /\ u.pc = "cache"
                            /\ u.item = queue[1]
  BY GetStep
<1>2. /\ Cached' = Cached /\ ProcessStatus' = ProcessStatus
      /\ work \in [Workers -> Busy \cup {Idle}]
  BY <1>1 DEF Cached, ProcessStatus, TypeInv, TypeOK
<1>3. SUFFICES ASSUME NEW n \in Names, store'[n] # NoObj
               PROVE  Waiting(store[n].tmpl)' \/ AtWork(store[n].tmpl)' \/ Reached(n, store[n].tmpl)'
  BY DEF Settling
<1>4. PICK t : t = store[n].tmpl /\ t = store'[n].tmpl /\ store[n] # NoObj
  BY <1>1, <1>3
<1>5. SUFFICES Waiting(t)' \/ AtWork(t)' \/ Reached(n, t)'
  BY <1>4 DEF Waiting, AtWork, Reached
<1>6. CASE Reached(n, t)
  BY <1>1, <1>2, <1>6 DEF Reached
<1>7. ASSUME NEW k \in 1 .. Len(queue), queue[k].type # "Delete", queue[k].obj.tmpl = t,
             Due(queue[k])
      PROVE  Waiting(t)' \/ AtWork(t)'
  <2>1. CASE k = 1
    <3>0. Accepted(queue[1])
      <4>1. queue[1] \in Item /\ queue[1].obj \in Deployment /\ queue[1].requeues \in Nat
        BY GetStep, ItemTypes
      <4>2. CASE queue[1].requeues = 0
        BY <4>2 DEF Accepted
      <4>3. CASE queue[1].requeues > 0 /\ Cached # NoObj
        BY <1>1, <1>7, <2>1, <4>1, <4>3, RetryNewer DEF Accepted, Due, Numeric
      <4>4. CASE Cached = NoObj
        BY <4>4 DEF Accepted, ShouldRetry
      <4>5. QED
        BY <4>1, <4>2, <4>3, <4>4
    <3>1. PICK u \in Busy : work' = [work EXCEPT ![w] = u] /\ u.pc = "cache" /\ u.item = queue[1]
      BY <1>1, <3>0
    <3>2. work'[w] = u /\ u # Idle
      BY <1>2, <3>1 DEF Idle
    <3>3. QED
      BY <1>7, <2>1, <3>1, <3>2 DEF AtWork
  <2>2. CASE k # 1
    <3>1. k - 1 \in 1 .. Len(queue') /\ (k - 1) + 1 = k
      BY <1>1, <2>2
    <3>2. queue'[k - 1] = queue[k]
      BY <1>1, <3>1
    <3>3. Due(queue[k - 1])'
      BY <1>2, <1>7, <3>2 DEF Due
    <3>4. QED
      BY <1>7, <3>1, <3>2, <3>3 DEF Waiting
  <2>3. QED
    BY <2>1, <2>2
<1>8. ASSUME NEW k \in 1 .. Len(delayed), delayed[k].type # "Delete", delayed[k].obj.tmpl = t,
             Due(delayed[k])
      PROVE  Waiting(t)'
  <2>1. Due(delayed[k])'
    BY <1>1, <1>2, <1>8 DEF Due
  <2>2. QED
    BY <1>1, <1>8, <2>1 DEF Waiting
<1>9. ~AtWork(t)
  BY <1>1 DEF AtWork
<1>10. QED
  BY <1>4, <1>6, <1>7, <1>8, <1>9 DEF Settling, Waiting

\* The worker is through with an item: if it failed, the item is retried, or the
\* status tells that it was given up
LEMMA FinishSettles ==
    ASSUME InTurn', OneName, Numeric', OrderInv, slot # NoItem => known, NothingIgnored, AllHandled,
           TemplatesOrdered, DeletesOlder, Settling, NEW w \in Workers, Finish(w)
    PROVE  Settling'
<1>1. TypeInv /\ delayed \in Seq(Item)
  BY DEF OrderInv, TypeInv, TypeOK
<1>2. PICK s \in Busy : s = work[w] /\ s # Idle /\ s.pc = "finish"
  BY <1>1, FinishStep
<1>3. /\ UNCHANGED <<queue, known, store, mesh>> /\ Cached' = Cached
      /\ \/ ~s.err /\ UNCHANGED <<delayed, slot>>
         \/ /\ s.err /\ UNCHANGED slot
            /\ \E x \in Item : /\ delayed' = Append(delayed, x)
                               /\ x.obj = s.item.obj /\ x.requeues > 0
                               /\ x.type = s.item.type
         \/ /\ s.err /\ UNCHANGED <<delayed, slot>> /\ ~ShouldRetry(s.item.obj)
            /\ ~Misjudged(s.item.obj)
         \/ /\ s.err /\ delayed' = delayed
            /\ (known => ProcessStatus' = "NotProcessed")
            /\ (~known => ProcessStatus' = ProcessStatus)
  BY <1>1, <1>2, FinishStep DEF Numeric
<1>4. s.item \in Item /\ s.item.obj \in Deployment /\ s.err \in BOOLEAN /\ s.item.obj.ign \in BOOLEAN
  BY ItemTypes DEF Busy
<1>5. s.err => \/ Cached = NoObj
               \/ /\ Cached # NoObj /\ Cached.rv <= s.item.obj.rv
                  /\ ~Misjudged(s.item.obj) => ShouldRetry(s.item.obj)
  <2>1. s.err /\ Cached # NoObj => Cached.rv <= s.item.obj.rv
    BY <1>1, <1>2, <1>4 DEF OrderInv, WorkCurrent, Current
  <2>2. QED
    BY <1>4, <2>1, RetryNewer
<1>6. \A v \in Workers : work[v] # Idle => v = w
  BY <1>1, Turn DEF Worker, Progress
<1>7. SUFFICES ASSUME NEW n \in Names, store'[n] # NoObj
               PROVE  Waiting(store[n].tmpl)' \/ AtWork(store[n].tmpl)' \/ Reached(n, store[n].tmpl)'
  BY DEF Settling
<1>8. PICK t : t = store[n].tmpl /\ t = store'[n].tmpl /\ store[n] # NoObj
  BY <1>3, <1>7
<1>9. SUFFICES Waiting(t)' \/ AtWork(t)' \/ Reached(n, t)'
  BY <1>8 DEF Waiting, AtWork, Reached
<1>10. CASE Waiting(t)
  <2>1. \A y \in Item : Due(y) => Due(y)'
    BY <1>3 DEF Due
  <2>2. delayed' = delayed \/ \E x \in Item : delayed' = Append(delayed, x)
    BY <1>3
  <2>3. QED
    BY <1>1, <1>3, <1>10, <2>1, <2>2, WaitingKept
<1>11. CASE s.err /\ s.item.type # "Delete" /\ s.item.obj.tmpl = t
  <2>1. CASE \E x \in Item : /\ delayed' = Append(delayed, x)
                             /\ x.obj = s.item.obj /\ x.requeues > 0 /\ x.type = s.item.type
    <3>1. PICK x \in Item : /\ delayed' = Append(delayed, x)
                            /\ x.obj = s.item.obj /\ x.type = s.item.type
      BY <2>1
    <3>2. Len(delayed) + 1 \in 1 .. Len(delayed') /\ delayed'[Len(delayed) + 1] = x
      BY <1>1, <3>1
    <3>3. Due(x)'
      BY <1>3, <1>5, <1>11, <3>1 DEF Due
    <3>4. QED
      BY <1>11, <3>1, <3>2, <3>3 DEF Waiting, Due
  <2>2. CASE /\ (known => ProcessStatus' = "NotProcessed")
             /\ (~known => ProcessStatus' = ProcessStatus)
    <3>1. Cached = s.item.obj
      BY <1>2, <1>11 DEF AllHandled, Handles
    <3>2. Cached # NoObj
      BY <1>4, <3>1 DEF Deployment, NoObj
    <3>3. known
      BY <1>1, <3>2 DEF Cached
    <3>4. QED
      BY <1>3, <1>11, <2>2, <3>1, <3>2, <3>3 DEF Reached
  <2>3. QED
    BY <1>3, <1>5, <1>11, <2>1, <2>2 DEF ShouldRetry
<1>12. CASE Reached(n, t) /\ ~(s.err /\ s.item.type # "Delete" /\ s.item.obj.tmpl = t)
  <2>1. Cached # NoObj /\ Cached.tmpl = t
    BY <1>12 DEF Reached
  <2>2. s.item.type # "Delete" /\ s.item.obj.tmpl = t
    BY <1>1, <1>2, <1>8, <2>1, PastCache
  <2>3. ~s.err /\ slot' = slot
    BY <1>3, <1>12, <2>2
  <2>4. ProcessStatus' = ProcessStatus
    BY <2>3 DEF ProcessStatus
  <2>5. QED
    BY <1>3, <1>12, <2>4 DEF Reached
<1>13. AtWork(t) => s.err /\ s.item.type # "Delete" /\ s.item.obj.tmpl = t
  BY <1>2, <1>6 DEF AtWork
<1>14. QED
  BY <1>8, <1>10, <1>11, <1>12, <1>13 DEF Settling

LEMMA RequeueSettles ==
    ASSUME TypeInv, Settling, Requeue
    PROVE  Settling'
<1>1. PICK i \in 1 .. Len(delayed) :
      /\ UNCHANGED <<api, watch, store, known, slot, work, mesh, readOnly, spent>>
      /\ queue' \in Seq(Item) /\ Len(queue') = Len(queue) + 1
      /\ queue'[Len(queue) + 1] = delayed[i]
      /\ \A k \in 1 .. Len(queue) : queue'[k] = queue[k]
      /\ \A j \in 1 .. Len(delayed) : j # i =>
           \E k \in 1 .. Len(delayed') : delayed'[k] = delayed[j]
  BY RequeueStep
<1>2. Cached' = Cached /\ ProcessStatus' = ProcessStatus /\ Len(queue) \in Nat
  BY <1>1 DEF Cached, ProcessStatus, TypeInv, TypeOK
<1>3. ASSUME NEW t, NEW k \in 1 .. Len(queue), queue[k].type # "Delete", queue[k].obj.tmpl = t,
             Due(queue[k])
      PROVE  Waiting(t)'
  <2>1. k \in 1 .. Len(queue') /\ queue'[k] = queue[k]
    BY <1>1, <1>2
  <2>2. Due(queue[k])'
    BY <1>2, <1>3, <2>1 DEF Due
  <2>3. QED
    BY <1>3, <2>1, <2>2 DEF Waiting
<1>4. ASSUME NEW t, NEW k \in 1 .. Len(delayed), delayed[k].type # "Delete", delayed[k].obj.tmpl = t,
             Due(delayed[k])
      PROVE  Waiting(t)'
  <2>1. CASE k = i
    <3>1. PICK j \in 1 .. Len(queue') : queue'[j] = delayed[k]
      BY <1>1, <1>2, <2>1
    <3>2. Due(queue[j])'
      BY <1>2, <1>4, <3>1 DEF Due
    <3>3. QED
      BY <1>4, <3>1, <3>2 DEF Waiting
  <2>2. CASE k # i
    <3>1. PICK j \in 1 .. Len(delayed') : delayed'[j] = delayed[k]
      BY <1>1, <2>2
    <3>2. Due(delayed[j])'
      BY <1>2, <1>4, <3>1 DEF Due
    <3>3. QED
      BY <1>4, <3>1, <3>2 DEF Waiting
  <2>3. QED
    BY <2>1, <2>2
<1>5. ASSUME NEW t, Waiting(t)
      PROVE  Waiting(t)'
  BY <1>3, <1>4, <1>5 DEF Waiting
<1>6. \A t : AtWork(t) => AtWork(t)'
  BY <1>1 DEF AtWork
<1>7. \A n \in Names : \A t : Reached(n, t) => Reached(n, t)'
  BY <1>1, <1>2 DEF Reached
<1>8. SUFFICES ASSUME NEW n \in Names, store'[n] # NoObj
               PROVE  Waiting(store[n].tmpl)' \/ AtWork(store[n].tmpl)' \/ Reached(n, store[n].tmpl)'
  BY DEF Settling
<1>9. PICK t : t = store[n].tmpl /\ t = store'[n].tmpl /\ store[n] # NoObj
  BY <1>1, <1>8
<1>10. Waiting(t)' \/ AtWork(t)' \/ Reached(n, t)'
  BY <1>5, <1>6, <1>7, <1>9 DEF Settling
<1>11. QED
  BY <1>9, <1>10 DEF Waiting, AtWork, Reached

LEMMA SettlingStep ==
    ASSUME InTurn', OneName, Numeric', OrderInv, slot # NoItem => known, Named, NothingIgnored, AllHandled, AllHandled',
           TemplatesOrdered, DeletesOlder, Settling, [Next]_vars
    PROVE  Settling'
<1>1. TypeInv
  BY DEF OrderInv
<1>2. ASSUME UNCHANGED <<queue, delayed, work, mesh>>, Cached' = Cached,
             ProcessStatus' = "Processed" => ProcessStatus = "Processed", NEW n \in Names, store[n] # NoObj, NEW t, t = store[n].tmpl
      PROVE  Waiting(t)' \/ AtWork(t)' \/ Reached(n, t)'
  <2>2. Waiting(t) => Waiting(t)'
    BY <1>2 DEF Waiting, Due
  <2>3. AtWork(t) => AtWork(t)'
    BY <1>2 DEF AtWork
  <2>4. Reached(n, t) => Reached(n, t)'
    BY <1>2 DEF Reached
  <2>5. QED
    BY <1>2, <2>2, <2>3, <2>4 DEF Settling
<1>3. ASSUME UNCHANGED <<store, queue, delayed, work, mesh>>, Cached' = Cached,
             ProcessStatus' = "Processed" => ProcessStatus = "Processed"
      PROVE  Settling'
  <2>1. SUFFICES ASSUME NEW n \in Names, store'[n] # NoObj
                 PROVE  Waiting(store[n].tmpl)' \/ AtWork(store[n].tmpl)' \/ Reached(n, store[n].tmpl)'
    BY DEF Settling
  <2>2. PICK t : t = store[n].tmpl /\ t = store'[n].tmpl /\ store[n] # NoObj
    BY <1>3, <2>1
  <2>3. Waiting(t)' \/ AtWork(t)' \/ Reached(n, t)'
    BY <1>2, <1>3, <2>2
  <2>4. QED
    BY <2>2, <2>3 DEF Waiting, AtWork, Reached
<1>4. CASE UNCHANGED vars \/ ToggleMode
  BY <1>3, <1>4 DEF vars, ToggleMode, queueVars, cacheVars, Cached, ProcessStatus
<1>10. CASE ReadMode \/ MarkInProgress
  <2>1. ProcessStatus' # ProcessStatus => ProcessStatus' = "ProcessingInProgress"
    BY <1>1, <1>10, MarkStep
  <2>2. UNCHANGED <<store, queue, delayed, work, mesh>> /\ Cached' = Cached
    BY <1>1, <1>10, MarkStep
  <2>3. QED
    BY <1>3, <2>1, <2>2
<1>5. CASE Cluster
  <2>1. PICK o \in Deployment, gone \in BOOLEAN, kinds \in {{}, {"ignores"}, {"deletes"}} :
           Write(o, gone, kinds)
    BY <1>1, <1>5, ClusterWrites DEF TypeInv
  <2>2. QED
    BY <1>3, <2>1 DEF Write, queueVars, cacheVars, Cached, ProcessStatus
<1>6. CASE Notify \/ \E n \in Names : Resync(n)
  <2>1. SUFFICES ASSUME NEW n \in Names, store'[n] # NoObj
                 PROVE  Waiting(store[n].tmpl)' \/ AtWork(store[n].tmpl)' \/ Reached(n, store[n].tmpl)'
    BY DEF Settling
  <2>2. CASE /\ UNCHANGED <<queue, delayed, known, slot, work, mesh>>
             /\ store[n] # NoObj /\ store'[n].tmpl = store[n].tmpl
    <3>1. PICK t : t = store[n].tmpl /\ t = store'[n].tmpl
      BY <2>2
    <3>2. Waiting(t)' \/ AtWork(t)' \/ Reached(n, t)'
      BY <1>2, <2>2, <3>1 DEF Cached, ProcessStatus
    <3>3. QED
      BY <3>1, <3>2 DEF Waiting, AtWork, Reached
  <2>3. QED
    BY <1>1, <1>6, <2>1, <2>2, InformerSettles
<1>7. ASSUME NEW w \in Workers, Worker(w)
      PROVE  Settling'
  BY <1>1, <1>7, GetSettles, BusySettles, FinishSettles DEF Worker, Progress
<1>8. CASE Requeue
  BY <1>1, <1>8, RequeueSettles
<1>9. QED
  BY <1>4, <1>5, <1>6, <1>7, <1>8, <1>10 DEF Next

LEMMA SlotKnownStep ==
    ASSUME TypeInv, slot # NoItem => known, [Next]_vars
    PROVE  slot' # NoItem => known'
<1>1. CASE UNCHANGED <<known, slot>>
  BY <1>1
<1>2. UNCHANGED vars \/ Requeue \/ ToggleMode => UNCHANGED <<known, slot>>
  BY DEF vars, Requeue, ToggleMode, cacheVars
<1>3. Cluster => UNCHANGED <<known, slot>>
  BY ClusterWrites DEF TypeInv, Write, cacheVars
<1>4. Notify \/ (\E n \in Names : Resync(n)) => UNCHANGED <<known, slot>>
  BY InformerStep
<1>5. CASE ReadMode \/ MarkInProgress
  BY <1>5, MarkStep
<1>6. ASSUME NEW w \in Workers, Worker(w)
      PROVE  slot' # NoItem => known'
  <2>1. CASE GetItem(w)
    BY <2>1, GetStep
  <2>2. CASE Finish(w)
    BY <2>2, FinishStep
  <2>3. CASE \/ CacheStep(w) \/ Begin(w) \/ WriteMesh(w) \/ FailWrite(w) \/ Evict(w)
             \/ SetStatus(w)
    BY <2>3, BusyStep
  <2>4. QED
    BY <1>6, <2>1, <2>2, <2>3 DEF Worker, Progress
<1>7. QED
  BY <1>1, <1>2, <1>3, <1>4, <1>5, <1>6 DEF Next

LEMMA SettleInvStep ==
    ASSUME InTurn', OneName, Numeric', SettleInv, [Next]_vars
    PROVE  SettleInv'
<1>1. /\ OrderInv /\ HandleInv /\ (slot # NoItem => known) /\ TypeInv /\ Named /\ TemplatesOrdered /\ DeletesOlder
      /\ StoreFollows
  BY DEF SettleInv, HandleInv
<1>2. OrderInv' /\ HandleInv' /\ (slot' # NoItem => known')
  BY <1>1, OrderStep, HandleStep, SlotKnownStep
<1>3. TemplatesOrdered' /\ DeletesOlder' /\ StoreFollows'
  BY <1>1, TemplatesStep, DeletesOlderStep, StoreFollowsStep
<1>4. ASSUME Calm'
      PROVE  Settling'
  <2>1. Calm
    BY <1>1, <1>4, CalmStep
  <2>2. NothingIgnored /\ AllHandled /\ Settling /\ AllHandled'
    BY <1>1, <1>2, <1>4, <2>1 DEF SettleInv, HandleInv
  <2>3. QED
    BY <1>1, <2>2, SettlingStep
<1>5. QED
  BY <1>2, <1>3, <1>4 DEF SettleInv

LEMMA SettleInit ==
    ASSUME Init
    PROVE  SettleInv
<1>1. /\ queue = << >> /\ delayed = << >> /\ watch = << >> /\ slot = NoItem
      /\ \A w \in Workers : work[w] = Idle
      /\ \A n \in Names : store[n] = NoObj /\ api[n] = NoObj
  BY DEF Init
<1>2. Len(queue) = 0 /\ Len(delayed) = 0 /\ Len(watch) = 0 /\ 1 .. 0 = {}
  BY <1>1
<1>3. OrderInv /\ HandleInv /\ (slot # NoItem => known)
  BY OrderInit, DeleteInit DEF CarryInv, DeleteInv
<1>4. Cached = NoObj
  BY <1>1 DEF Cached
<1>5. Held = {}
  BY <1>1, <1>2, <1>4 DEF Held
<1>6. Heard = {}
  BY <1>1, <1>2, <1>5 DEF Heard
<1>7. Versions = {} /\ Deleted = {}
  BY <1>1, <1>5, <1>6 DEF Versions, Deleted
<1>8. TemplatesOrdered /\ DeletesOlder
  BY <1>1, <1>2, <1>7 DEF TemplatesOrdered, DeletesOlder
<1>9. StoreFollows /\ Settling
  BY <1>1, <1>2 DEF StoreFollows, Settling
<1>10. QED
  BY <1>3, <1>8, <1>9 DEF SettleInv

\* With one deployment in the slot, as long as workers take turns, the mode does not
\* change, nothing is ignored, handlers do not fail (or nothing is deleted) and no
\* comparison of versions went against the numbers: once every event is dealt with and
\* the status says Processed, the mesh has the template of the deployment, or nothing
\* if the deployment is gone.  So neither skipping updates that change no template
\* (UpdateFuncImpl), nor dropping stale retries (shouldRetry), nor giving up, nor the
\* informer setting the status late loses the last change of a deployment.
THEOREM ProcessedIsSettled ==
    ASSUME OneName
    PROVE  Spec => []SettledAgrees
<1> DEFINE Inv == TypeInv /\ (InTurn /\ Numeric => SettleInv)
<1>1. Init => Inv
  BY SettleInit DEF SettleInv, HandleInv
<1>2. Inv /\ [Next]_vars => Inv'
  <2>1. SUFFICES ASSUME Inv, [Next]_vars PROVE Inv'
    OBVIOUS
  <2>2. TypeInv'
    BY <2>1, TypeStep
  <2>3. InTurn' /\ Numeric' => InTurn /\ Numeric
    BY <2>1, TurnKept DEF Numeric
  <2>4. InTurn' /\ Numeric' => SettleInv'
    BY <2>1, <2>3, SettleInvStep
  <2>5. QED
    BY <2>2, <2>4
<1>3. Inv /\ DeletionIsFinal => SettledAgrees
  <2>1. SUFFICES ASSUME SettleInv, DeletionIsFinal, Orderly, Quiet, ProcessStatus = "Processed"
                 PROVE  MeshAgrees
    BY DEF SettledAgrees, Orderly, Numeric
  <2>2. NothingIgnored /\ Settling /\ StoreFollows /\ TypeOK
    BY <2>1 DEF SettleInv, Orderly, Calm, HandleInv, TypeInv
  <2>3. \A n \in Names : api[n] # NoObj => n \in Live
    BY <2>2 DEF Live, NothingIgnored
  <2>4. CASE Live = {}
    <3>1. mesh # NoObj => mesh.name \in Names /\ api[mesh.name] # NoObj
      BY <2>1, <2>2 DEF DeletionIsFinal, NoResurrection, TypeOK
    <3>2. QED
      BY <2>3, <2>4, <3>1 DEF MeshAgrees
  <2>5. ASSUME NEW n \in Live
        PROVE  MeshAgrees
    <3>1. /\ watch = << >> /\ queue = << >> /\ delayed = << >>
          /\ \A w \in Workers : work[w] = Idle
      BY <2>1 DEF Quiet
    <3>2. Len(watch) = 0 /\ 1 .. Len(queue) = {} /\ 1 .. Len(delayed) = {}
      BY <3>1
    <3>3. n \in Names /\ api[n] # NoObj /\ store[n] = api[n]
      BY <2>2, <2>5, <3>2 DEF Live, StoreFollows
    <3>4. ~Waiting(store[n].tmpl) /\ ~AtWork(store[n].tmpl)
      BY <3>1, <3>2 DEF Waiting, AtWork
    <3>5. mesh = [name |-> n, tmpl |-> api[n].tmpl]
      BY <2>1, <2>2, <3>3, <3>4 DEF Settling, Reached
    <3>6. QED
      BY <2>5, <3>5 DEF MeshAgrees
  <2>6. QED
    BY <2>4, <2>5
<1>4. Spec => []DeletionIsFinal
  BY DeletionsAreFinal
<1>5. QED
  BY <1>1, <1>2, <1>3, <1>4, PTL DEF Spec
=============================================================================
