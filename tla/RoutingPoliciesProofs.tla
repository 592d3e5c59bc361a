------------------------ MODULE RoutingPoliciesProofs ------------------------
(***************************************************************************)
(* Proofs about RoutingPolicies, for any policies, clients, clusters and   *)
(* versions, any number of retries and any number of changes, failures,    *)
(* changes of the mode and restarts.                                       *)
(***************************************************************************)
EXTENDS RoutingPolicies, FiniteSetTheorems, SequenceTheorems, TLAPS

(***************************************************************************)
(* FiltersAreKnown is about the end of a deletion, which clears the cache  *)
(* of a policy without looking at the clusters again.  That no filter is   *)
(* lost then follows from what is true on the way there.                   *)
(***************************************************************************)

\* Filters are only written where a deletion looks for them
InEnabled ==
    /\ \A key \in ours : key.at \in Enabled
    /\ \A w \in Workers : tasks[w].pc = "write" =>
         /\ tasks[w].todo \subseteq Enabled \X Clients
         /\ tasks[w].left # {} => tasks[w].pair \in Enabled \X Clients
         /\ tasks[w].now # Absent => tasks[w].now.at \in Enabled

TypeInv == TypeOK /\ InEnabled

\* One worker at a time, unless noted
Alone ==
    \A u, w \in Workers : tasks[u] # Idle /\ tasks[w] # Idle => u = w

\* A filter is in the cache before it is written
Prepared ==
    \A w \in Workers : tasks[w].pc = "write" /\ tasks[w].now # Absent =>
                          tasks[w].now \in filterCache[tasks[w].now.name]

\* A deletion that has not failed so far has yet to come to the filters that
\* are left
ToCome(w) ==
    \A f \in filters : f.key \in ours /\ f.key.name = tasks[w].item.obj.name =>
                          f.key.at \in tasks[w].todo \/ f.key \in tasks[w].batch

Deletions == \A w \in Workers : tasks[w].pc = "delete" /\ ~tasks[w].err => ToCome(w)

Known == \A f \in filters : f.key \in ours => f.key \in filterCache[f.key.name]

KnownInv == TypeInv /\ ("raced" \notin lost => Alone /\ Prepared /\ Deletions /\ Known)

-----------------------------------------------------------------------------
(* Type correctness                                                        *)

Tasks == WriteTask \cup DeleteTask \cup {Idle}

LEMMA TypeInit == Init => TypeInv
<1> SUFFICES ASSUME Init
             PROVE  TypeInv
  OBVIOUS
<1>1. budget \in Budget /\ homes \in [Clients -> SUBSET Clusters]
  BY RoutingAssumption DEF Init
<1>2. TypeOK
  <2>1. tasks \in [Workers -> WriteTask \cup DeleteTask \cup {Idle}]
    BY DEF Init
  <2>2. filters \subseteq Filter /\ ours \subseteq Key /\ \A f, g \in filters : f.key = g.key => f = g
    BY DEF Init
  <2>3. rpQ \in Seq(Item) /\ depQ \in Seq(Ask)
    BY DEF Init
  <2>4. QED
    BY <1>1, <2>1, <2>2, <2>3 DEF Init, TypeOK
<1>3. InEnabled
  BY DEF Init, InEnabled, Idle
<1>4. QED
  BY <1>2, <1>3 DEF TypeInv

LEMMA SpendType ==
    ASSUME TypeOK,
           NEW f \in {"changes", "asks", "moves", "failures", "overlaps", "toggles", "restarts"},
           Spend(f)
    PROVE  budget' \in Budget
<1> DEFINE Fields == {"changes", "asks", "moves", "failures", "overlaps", "toggles", "restarts"}
<1>1. DOMAIN budget = Fields /\ \A g \in Fields : budget[g] \in Nat
  BY DEF TypeOK, Budget
<1>2. budget[f] > 0 /\ budget' = [budget EXCEPT ![f] = @ - 1]
  BY DEF Spend
<1>3. budget = [g \in Fields |-> budget[g]]
  BY DEF TypeOK, Budget
<1>4. budget' = [g \in Fields |-> IF g = f THEN budget[f] - 1 ELSE budget[g]]
  BY <1>2, <1>3
<1>5. QED
  BY <1>1, <1>2, <1>4 DEF Budget

LEMMA WriteType ==
    ASSUME TypeOK, NEW w \in Workers, tasks[w].pc = "write"
    PROVE  /\ tasks[w] \in WriteTask /\ tasks[w].obj \in Policy /\ tasks[w].more \subseteq Policy
           /\ tasks[w].ask \in Ask \cup {Absent} /\ tasks[w].todo \subseteq Clusters \X Clients
           /\ tasks[w].left \subseteq Versions /\ tasks[w].now \in Key \cup {Absent}
           /\ tasks[w].seen \in Filter \cup {Absent} /\ tasks[w].err \in BOOLEAN
<1>1. tasks[w] \in WriteTask
  BY DEF TypeOK, Idle, DeleteTask, WriteTask
<1>2. QED
  BY <1>1 DEF WriteTask

LEMMA DeleteType ==
    ASSUME TypeOK, NEW w \in Workers, tasks[w].pc = "delete"
    PROVE  /\ tasks[w] \in DeleteTask /\ tasks[w].item \in Item /\ tasks[w].todo \subseteq Clusters
           /\ tasks[w].batch \subseteq Key /\ tasks[w].err \in BOOLEAN
           /\ tasks[w].item.obj \in Policy /\ tasks[w].item.obj.name \in Names
<1>1. tasks[w] \in DeleteTask
  BY DEF TypeOK, Idle, DeleteTask, WriteTask
<1>2. QED
  BY <1>1 DEF DeleteTask, Item, Policy

LEMMA DeletingType ==
    ASSUME NEW item \in Item
    PROVE  /\ Deleting(item) \in DeleteTask /\ Deleting(item).pc = "delete"
           /\ Deleting(item).item = item /\ Deleting(item).todo = Enabled
  BY RoutingAssumption DEF Deleting, DeleteTask

\* The task of one worker becomes t
LEMMA TaskStep ==
    ASSUME TypeInv, NEW w \in Workers, NEW t \in Tasks,
           t.pc = "write" => /\ t.todo \subseteq Enabled \X Clients
                             /\ t.left # {} => t.pair \in Enabled \X Clients
                             /\ t.now # Absent => t.now.at \in Enabled,
           tasks' = [tasks EXCEPT ![w] = t], \A key \in ours' : key.at \in Enabled
    PROVE  tasks' \in [Workers -> Tasks] /\ InEnabled'
<1>1. tasks' \in [Workers -> Tasks] /\ \A u \in Workers : tasks'[u] = IF u = w THEN t ELSE tasks[u]
  BY DEF TypeInv, TypeOK, Tasks
<1>2. QED
  BY <1>1 DEF TypeInv, InEnabled

LEMMA RestartType ==
    ASSUME TypeInv, Restart
    PROVE  rpQ' \in Seq(Item) /\ depQ' \in Seq(Ask)
<1> DEFINE alive == {n \in Names : live[n] # Absent}
<1>1. IsFiniteSet(alive) /\ IsFiniteSet(wanted)
  BY RoutingAssumption, FS_Subset DEF TypeInv, TypeOK
<1>2. Cardinality(alive) \in Nat /\ Cardinality(wanted) \in Nat
  BY <1>1, FS_CardinalityType
<1>3. PICK s \in [1 .. Cardinality(alive) -> alive], t \in [1 .. Cardinality(wanted) -> wanted] :
         /\ rpQ' = [i \in DOMAIN s |-> [type |-> "Add", obj |-> live[s[i]], tries |-> 0]]
         /\ depQ' = [i \in DOMAIN t |-> [type |-> "Add", client |-> t[i], tries |-> 0]]
  BY DEF Restart
<1>4. /\ \A i \in 1 .. Cardinality(alive) : [type |-> "Add", obj |-> live[s[i]], tries |-> 0] \in Item
      /\ \A i \in 1 .. Cardinality(wanted) : [type |-> "Add", client |-> t[i], tries |-> 0] \in Ask
  BY <1>3 DEF TypeInv, TypeOK, Item, Ask
<1>5. /\ rpQ' \in [1 .. Cardinality(alive) -> Item]
      /\ depQ' \in [1 .. Cardinality(wanted) -> Ask]
  BY <1>3, <1>4
<1>6. QED
  <2>1. /\ rpQ' \in UNION {[1 .. n -> Item] : n \in Nat}
        /\ depQ' \in UNION {[1 .. n -> Ask] : n \in Nat}
    BY <1>2, <1>5
  <2>2. QED
    BY <2>1, SeqDef

LEMMA TakePolicyType ==
    ASSUME TypeInv, TakePolicy
    PROVE  TypeInv'
<1> DEFINE item == Head(rpQ)
<1>1. /\ rpQ # << >> /\ rpQ' = Tail(rpQ) /\ Starting("policy")
      /\ IF item.type = "Delete" THEN StartDelete(item) ELSE AddOrUpdate(item)
      /\ UNCHANGED <<live, wanted, homes, clock, filters, readOnly, warm, depQ, filterCache,
                     identityDependency, identityCluster, sourceToDestinations, ours>>
  BY DEF TakePolicy, world
<1>2. item \in Item /\ rpQ' \in Seq(Item) /\ item.obj \in Policy /\ item.obj.name \in Names
  <2>1. item \in Item /\ rpQ' \in Seq(Item)
    BY <1>1 DEF TypeInv, TypeOK
  <2>2. QED
    BY <2>1 DEF Item, Policy
<1>3. budget' \in Budget
  BY <1>1, SpendType DEF Starting, TypeInv, TypeOK
<1>4. rpCache' \in [Names -> Policy \cup {Absent}]
  BY <1>1, <1>2 DEF StartDelete, AddOrUpdate, PutPolicy, TypeInv, TypeOK
<1>5. lost' \subseteq Reasons
  BY <1>1 DEF StartDelete, AddOrUpdate, UpdatedAsDeleted, Racing, Note, Reasons, TypeInv, TypeOK
<1>6. \/ UNCHANGED tasks
      \/ tasks' = [tasks EXCEPT !["policy"] = Deleting(item)]
      \/ tasks' = [tasks EXCEPT !["policy"] = Writing(item.obj, {}, Absent, identityDependency)]
  BY <1>1 DEF StartDelete, AddOrUpdate, UpdatedAsDeleted
<1>7. tasks' \in [Workers -> Tasks] /\ InEnabled'
  <2>1. CASE UNCHANGED tasks
    BY <1>1, <2>1 DEF TypeInv, TypeOK, Tasks, InEnabled
  <2>2. CASE tasks' = [tasks EXCEPT !["policy"] = Deleting(item)]
    BY <1>1, <1>2, <2>2, DeletingType, TaskStep DEF Workers, Tasks, TypeInv, InEnabled
  <2>3. CASE tasks' = [tasks EXCEPT !["policy"] = Writing(item.obj, {}, Absent, identityDependency)]
    <3>1. identityDependency \in SUBSET Clients /\ {} \in SUBSET Policy
          /\ Absent \in Ask \cup {Absent}
      BY DEF TypeInv, TypeOK
    <3> DEFINE t == Writing(item.obj, {}, Absent, identityDependency)
    <3>2. /\ t \in WriteTask /\ t.pc = "write" /\ t.todo \subseteq Enabled \X Clients
          /\ t.left = {} /\ t.now = Absent
      BY <1>2, <3>1, RoutingAssumption DEF Writing, WriteTask
    <3> HIDE DEF t
    <3>3. tasks' = [tasks EXCEPT !["policy"] = t]
      BY <2>3 DEF t
    <3>4. QED
      BY <3>3, <1>1, <2>3, <3>2, TaskStep DEF Workers, Tasks, TypeInv, InEnabled
  <2>4. QED
    BY <1>6, <2>1, <2>2, <2>3
<1>8. QED
  BY <1>1, <1>2, <1>3, <1>4, <1>5, <1>7 DEF TypeInv, TypeOK, Tasks

LEMMA TakeDependencyType ==
    ASSUME TypeInv, TakeDependency
    PROVE  TypeInv'
<1> DEFINE ask == Head(depQ)
           policies == GetForIdentity
<1>1. /\ depQ # << >> /\ depQ' = Tail(depQ) /\ Starting("dependency")
      /\ identityDependency' = identityDependency \cup {ask.client}
      /\ \/ sourceToDestinations' = sourceToDestinations \cup {ask.client}
         \/ UNCHANGED sourceToDestinations
      /\ \/ UNCHANGED tasks
         \/ \E p \in policies :
              tasks' = [tasks EXCEPT !["dependency"] =
                          Writing(p, policies \ {p}, ask, {ask.client})]
      /\ UNCHANGED <<live, wanted, homes, clock, filters, readOnly, warm, rpQ, rpCache, filterCache,
                     identityCluster, ours>>
  BY DEF TakeDependency, world
<1>2. ask \in Ask /\ depQ' \in Seq(Ask) /\ ask.client \in Clients
  <2>1. ask \in Ask /\ depQ' \in Seq(Ask)
    BY <1>1 DEF TypeInv, TypeOK
  <2>2. QED
    BY <2>1 DEF Ask
<1>3. budget' \in Budget
  BY <1>1, SpendType DEF Starting, TypeInv, TypeOK
<1>4. lost' \subseteq Reasons
  BY DEF TakeDependency, Racing, Note, Reasons, TypeInv, TypeOK
<1>5. policies \subseteq Policy
  BY DEF GetForIdentity, TypeInv, TypeOK
<1>6. tasks' \in [Workers -> Tasks] /\ InEnabled'
  <2>1. CASE UNCHANGED tasks
    BY <1>1, <2>1 DEF TypeInv, TypeOK, Tasks, InEnabled
  <2>2. ASSUME NEW p \in policies,
               tasks' = [tasks EXCEPT !["dependency"] = Writing(p, policies \ {p}, ask, {ask.client})]
        PROVE  tasks' \in [Workers -> Tasks] /\ InEnabled'
    <3>1. /\ p \in Policy /\ policies \ {p} \in SUBSET Policy /\ {ask.client} \in SUBSET Clients
          /\ ask \in Ask \cup {Absent}
      BY <1>2, <1>5
    <3> DEFINE t == Writing(p, policies \ {p}, ask, {ask.client})
    <3>2. /\ t \in WriteTask /\ t.pc = "write" /\ t.todo \subseteq Enabled \X Clients
          /\ t.left = {} /\ t.now = Absent
      BY <1>2, <3>1, RoutingAssumption DEF Writing, WriteTask
    <3> HIDE DEF t
    <3>3. tasks' = [tasks EXCEPT !["dependency"] = t]
      BY <2>2 DEF t
    <3>4. QED
      BY <3>3, <1>1, <2>2, <3>2, TaskStep DEF Workers, Tasks, TypeInv, InEnabled
  <2>3. QED
    BY <1>1, <2>1, <2>2
<1>7. QED
  BY <1>1, <1>2, <1>3, <1>4, <1>6 DEF TypeInv, TypeOK, Tasks

\* What an event of a Dependency that fails early does
LEMMA DependencyFailsFacts ==
    ASSUME TypeInv, DependencyFails, NEW ask, ask = Head(depQ)
    PROVE  /\ depQ # << >> /\ tasks["dependency"] = Idle
           /\ ask \in Ask /\ ask.client \in Clients
           /\ \/ depQ' = Tail(depQ)
              \/ \E again \in Ask : again.client = ask.client /\ depQ' = Append(Tail(depQ), again)
           /\ identityDependency' = identityDependency \cup {ask.client}
           /\ UNCHANGED <<live, wanted, homes, clock, filters, readOnly, warm, rpQ, rpCache,
                          filterCache, identityCluster, sourceToDestinations, tasks, ours>>
           /\ Spend("failures")
           /\ lost' = lost \cup Note("failed", GetForIdentity # {} /\ ~ (Due(ask.client) \subseteq filters))
<1>1. /\ depQ # << >> /\ tasks["dependency"] = Idle /\ Spend("failures")
      /\ depQ' = IF ask.tries < MaxRetries
                 THEN Append(Tail(depQ), [ask EXCEPT !.tries = @ + 1]) ELSE Tail(depQ)
      /\ identityDependency' = identityDependency \cup {ask.client}
      /\ UNCHANGED <<live, wanted, homes, clock, filters, readOnly, warm, rpQ, rpCache,
                     filterCache, identityCluster, sourceToDestinations, tasks, ours>>
      /\ lost' = lost \cup Note("failed", GetForIdentity # {} /\ ~ (Due(ask.client) \subseteq filters))
  BY DEF DependencyFails, world
<1>2. ask \in Ask
  BY <1>1 DEF TypeInv, TypeOK
<1>3. /\ ask.client \in Clients /\ [ask EXCEPT !.tries = @ + 1] \in Ask
      /\ [ask EXCEPT !.tries = @ + 1].client = ask.client
  BY <1>2 DEF Ask
<1>4. QED
  BY <1>1, <1>2, <1>3

LEMMA DependencyFailsType ==
    ASSUME TypeInv, DependencyFails
    PROVE  TypeInv'
<1>0. PICK ask : ask = Head(depQ)
  OBVIOUS
<1>1. /\ depQ # << >> /\ ask \in Ask /\ ask.client \in Clients /\ Spend("failures")
      /\ \/ depQ' = Tail(depQ)
         \/ \E again \in Ask : again.client = ask.client /\ depQ' = Append(Tail(depQ), again)
      /\ identityDependency' = identityDependency \cup {ask.client}
      /\ UNCHANGED <<live, wanted, homes, clock, filters, readOnly, warm, rpQ, rpCache,
                     filterCache, identityCluster, sourceToDestinations, tasks, ours>>
      /\ lost' \in {lost, lost \cup {"failed"}}
  BY <1>0, DependencyFailsFacts DEF Note
<1>2. depQ \in Seq(Ask) /\ Tail(depQ) \in Seq(Ask)
  BY <1>1 DEF TypeInv, TypeOK
<1>3. depQ' \in Seq(Ask)
  BY <1>1, <1>2
<1>4. budget' \in Budget
  BY <1>1, SpendType DEF TypeInv, TypeOK
<1>5. QED
  BY <1>1, <1>3, <1>4 DEF TypeInv, TypeOK, InEnabled, Reasons

\* What a step of a worker that writes filters leaves alone
Aside == <<live, wanted, homes, clock, readOnly, warm, rpQ, depQ, rpCache, identityDependency,
           identityCluster>>

LEMMA AsideType ==
    ASSUME TypeInv, UNCHANGED Aside, filters' \subseteq Filter, ours' \subseteq Key,
           \A f, g \in filters' : f.key = g.key => f = g,
           filterCache' \in [Names -> SUBSET Key], sourceToDestinations' \subseteq Clients,
           tasks' \in [Workers -> Tasks], InEnabled', lost' \subseteq Reasons, budget' \in Budget
    PROVE  TypeInv'
  BY DEF TypeInv, TypeOK, Aside, Tasks

LEMMA KeyType ==
    ASSUME NEW obj \in Policy, NEW pair \in Enabled \X Clients, NEW v \in Versions
    PROVE  /\ KeyOf(obj, pair, v) \in Key /\ KeyOf(obj, pair, v).at \in Enabled
           /\ KeyOf(obj, pair, v).name = obj.name /\ obj.name \in Names
           /\ KeyOf(obj, pair, v) # Absent
  BY RoutingAssumption DEF KeyOf, Key, Policy

LEMMA WritesType ==
    ASSUME TypeInv, NEW w \in Workers,
           NextDependent(w) \/ Prepare(w) \/ Write(w) \/ WriteFails(w) \/ EndWrite(w)
    PROVE  TypeInv'
<1>1. tasks[w].pc = "write"
  BY DEF NextDependent, Prepare, Write, WriteFails, EndWrite
<1>2. /\ tasks[w] \in WriteTask /\ tasks[w].obj \in Policy /\ tasks[w].more \subseteq Policy
      /\ tasks[w].ask \in Ask \cup {Absent} /\ tasks[w].todo \subseteq Enabled \X Clients
      /\ tasks[w].left \subseteq Versions /\ tasks[w].now \in Key \cup {Absent}
      /\ tasks[w].seen \in Filter \cup {Absent} /\ tasks[w].err \in BOOLEAN
      /\ tasks[w].left # {} => tasks[w].pair \in Enabled \X Clients
      /\ tasks[w].now # Absent => tasks[w].now.at \in Enabled
  BY <1>1, WriteType DEF TypeInv, InEnabled
<1>3. /\ filters \subseteq Filter /\ ours \subseteq Key /\ lost \subseteq Reasons /\ budget \in Budget
      /\ \A f, g \in filters : f.key = g.key => f = g
      /\ filterCache \in [Names -> SUBSET Key] /\ sourceToDestinations \subseteq Clients
      /\ \A key \in ours : key.at \in Enabled
      /\ tasks \in [Workers -> Tasks]
  BY DEF TypeInv, TypeOK, InEnabled, Tasks
<1>4. CASE NextDependent(w)
  <2>1. /\ UNCHANGED Aside
        /\ UNCHANGED <<filters, filterCache, sourceToDestinations, ours, lost, budget>>
    BY <1>4 DEF NextDependent, Aside, world, caches
  <2>2. PICK p \in tasks[w].todo :
           tasks' = [tasks EXCEPT ![w].todo = @ \ {p}, ![w].pair = p,
                     ![w].left = IF p[1] \in identityCluster[p[2]] THEN Versions ELSE {}]
    BY <1>4 DEF NextDependent
  <2> DEFINE t == [tasks[w] EXCEPT !.todo = @ \ {p}, !.pair = p,
                     !.left = IF p[1] \in identityCluster[p[2]] THEN Versions ELSE {}]
  <2>3. tasks' = [tasks EXCEPT ![w] = t]
    BY <1>3, <2>2
  <2>4. p \in Enabled \X Clients /\ p \in Clusters \X Clients
    BY <1>2, <2>2, RoutingAssumption
  <2>5. /\ t \in WriteTask /\ t.todo \subseteq Enabled \X Clients
        /\ t.pair \in Enabled \X Clients /\ t.now = tasks[w].now
    BY <1>2, <2>4 DEF WriteTask
  <2> HIDE DEF t
  <2>6. tasks' \in [Workers -> Tasks] /\ InEnabled'
    BY <1>2, <1>3, <2>1, <2>3, <2>5, TaskStep DEF Tasks
  <2>7. QED
    BY <1>3, <2>1, <2>6, AsideType
<1>5. CASE Prepare(w)
  <2>1. /\ UNCHANGED Aside
        /\ UNCHANGED <<filters, sourceToDestinations, ours, lost, budget>>
    BY <1>5 DEF Prepare, Aside, world, caches
  <2>2. PICK v \in tasks[w].left :
           /\ PutFilter(KeyOf(tasks[w].obj, tasks[w].pair, v))
           /\ \E seen \in filters \cup {Absent} :
                tasks' = [tasks EXCEPT ![w].left = @ \ {v},
                            ![w].now = KeyOf(tasks[w].obj, tasks[w].pair, v), ![w].seen = seen]
    BY <1>5 DEF Prepare
  <2>3. PICK seen \in filters \cup {Absent} :
           tasks' = [tasks EXCEPT ![w].left = @ \ {v},
                       ![w].now = KeyOf(tasks[w].obj, tasks[w].pair, v), ![w].seen = seen]
    BY <2>2
  <2> DEFINE key == KeyOf(tasks[w].obj, tasks[w].pair, v)
             t == [tasks[w] EXCEPT !.left = @ \ {v}, !.now = key, !.seen = seen]
  <2>4. key \in Key /\ key.at \in Enabled /\ key.name \in Names
    BY <1>2, <2>2, KeyType
  <2>5. tasks' = [tasks EXCEPT ![w] = t]
    BY <1>3, <2>3
  <2> HIDE DEF key
  <2>6. /\ t \in WriteTask /\ t.todo \subseteq Enabled \X Clients
        /\ t.pair \in Enabled \X Clients /\ t.now = key
    BY <1>2, <1>3, <2>2, <2>3, <2>4 DEF WriteTask
  <2> HIDE DEF t
  <2>7. tasks' \in [Workers -> Tasks] /\ InEnabled'
    BY <1>2, <1>3, <2>1, <2>4, <2>5, <2>6, TaskStep DEF Tasks
  <2>8. filterCache' \in [Names -> SUBSET Key]
    BY <1>3, <2>2, <2>4 DEF PutFilter, key
  <2>9. QED
    BY <1>3, <2>1, <2>7, <2>8, AsideType
<1>6. CASE Write(w) \/ WriteFails(w)
  <2>1. /\ UNCHANGED Aside /\ UNCHANGED <<sourceToDestinations, filterCache>>
        /\ lost' \subseteq Reasons /\ tasks[w].now # Absent
    BY <1>3, <1>6 DEF Write, WriteFails, Aside, world, caches, Reasons
  <2>2. budget' \in Budget
    BY <1>3, <1>6, SpendType DEF Write, WriteFails, TypeInv
  <2>3. PICK err \in BOOLEAN :
           tasks' = [tasks EXCEPT ![w].now = Absent, ![w].seen = Absent, ![w].err = @ \/ err]
    BY <1>6 DEF Write, WriteFails, Written
  <2> DEFINE t == [tasks[w] EXCEPT !.now = Absent, !.seen = Absent, !.err = @ \/ err]
  <2>4. tasks' = [tasks EXCEPT ![w] = t]
    BY <1>3, <2>3
  <2>5. /\ t \in WriteTask /\ t.todo \subseteq Enabled \X Clients
        /\ t.left = tasks[w].left /\ t.pair = tasks[w].pair /\ t.now = Absent
    BY <1>2, <2>3 DEF WriteTask
  <2>6. /\ ours' \subseteq Key /\ \A key \in ours' : key.at \in Enabled
        /\ filters' \subseteq Filter /\ \A f, g \in filters' : f.key = g.key => f = g
    <3>1. CASE UNCHANGED <<filters, ours>>
      BY <1>3, <3>1
    <3>2. CASE /\ filters' = (filters \ {f \in filters : f.key = tasks[w].now})
                               \cup {FilterOf(tasks[w].obj, tasks[w].now)}
               /\ ours' = ours \cup {tasks[w].now}
      <4>1. FilterOf(tasks[w].obj, tasks[w].now) \in Filter
        BY <1>2, <2>1 DEF FilterOf, Filter, Policy
      <4>2. FilterOf(tasks[w].obj, tasks[w].now).key = tasks[w].now
        BY DEF FilterOf
      <4>3. QED
        BY <1>2, <1>3, <2>1, <3>2, <4>1, <4>2
    <3>3. QED
      BY <1>6, <3>1, <3>2 DEF Write, WriteFails
  <2> HIDE DEF t
  <2>7. tasks' \in [Workers -> Tasks] /\ InEnabled'
    BY <1>2, <2>4, <2>5, <2>6, TaskStep DEF Tasks
  <2>8. QED
    BY <1>3, <2>1, <2>2, <2>6, <2>7, AsideType
<1>7. CASE EndWrite(w)
  <2>1. /\ UNCHANGED Aside /\ UNCHANGED <<filters, filterCache, ours, lost, budget>>
    BY <1>7 DEF EndWrite, Aside, world
  <2>2. sourceToDestinations' \subseteq Clients
    BY <1>2, <1>3, <1>7 DEF EndWrite, Ask
  <2>3. tasks' \in [Workers -> Tasks] /\ InEnabled'
    <3>1. CASE tasks' = [tasks EXCEPT ![w] = Idle]
      BY <1>3, <2>1, <3>1, TaskStep DEF Tasks, Idle
    <3>2. ASSUME NEW p \in tasks[w].more, tasks[w].ask # Absent,
                 tasks' = [tasks EXCEPT ![w] = Writing(p, tasks[w].more \ {p}, tasks[w].ask,
                                                      {tasks[w].ask.client})]
          PROVE  tasks' \in [Workers -> Tasks] /\ InEnabled'
      <4> DEFINE t == Writing(p, tasks[w].more \ {p}, tasks[w].ask, {tasks[w].ask.client})
      <4>1. tasks[w].ask \in Ask /\ tasks[w].ask.client \in Clients /\ p \in Policy
        BY <1>2, <3>2 DEF Ask
      <4>2. /\ t \in WriteTask /\ t.pc = "write" /\ t.todo \subseteq Enabled \X Clients
            /\ t.left = {} /\ t.now = Absent
        BY <1>2, <4>1, RoutingAssumption DEF Writing, WriteTask
      <4>3. tasks' = [tasks EXCEPT ![w] = t]
        BY <3>2
      <4> HIDE DEF t
      <4>4. QED
        BY <1>3, <2>1, <4>2, <4>3, TaskStep DEF Tasks
    <3>3. QED
      BY <1>7, <3>1, <3>2 DEF EndWrite
  <2>4. QED
    BY <1>3, <2>1, <2>2, <2>3, AsideType
<1>8. QED
  BY <1>4, <1>5, <1>6, <1>7

LEMMA DeletesType ==
    ASSUME TypeInv, NEW w \in Workers,
           DeleteCluster(w) \/ DeleteFilter(w) \/ DeleteFails(w) \/ EndDelete(w)
    PROVE  TypeInv'
<1>1. tasks[w].pc = "delete"
  BY DEF DeleteCluster, DeleteFilter, DeleteFails, EndDelete
<1>2. /\ tasks[w] \in DeleteTask /\ tasks[w].item \in Item /\ tasks[w].todo \subseteq Clusters
      /\ tasks[w].batch \subseteq Key /\ tasks[w].err \in BOOLEAN
      /\ tasks[w].item.obj.name \in Names
  BY <1>1, DeleteType DEF TypeInv
<1>3. /\ filters \subseteq Filter /\ ours \subseteq Key /\ lost \subseteq Reasons /\ budget \in Budget
      /\ \A f, g \in filters : f.key = g.key => f = g
      /\ filterCache \in [Names -> SUBSET Key] /\ sourceToDestinations \subseteq Clients
      /\ rpCache \in [Names -> Policy \cup {Absent}] /\ rpQ \in Seq(Item)
      /\ \A key \in ours : key.at \in Enabled
      /\ tasks \in [Workers -> Tasks]
  BY DEF TypeInv, TypeOK, InEnabled, Tasks
<1>4. CASE DeleteCluster(w)
  <2>1. /\ UNCHANGED Aside
        /\ UNCHANGED <<filters, filterCache, sourceToDestinations, ours, lost, budget>>
    BY <1>4 DEF DeleteCluster, Aside, world, caches
  <2>2. PICK k \in tasks[w].todo :
           tasks' = [tasks EXCEPT ![w].todo = @ \ {k},
                       ![w].batch = FiltersIn(tasks[w].item.obj.name, k)]
    BY <1>4 DEF DeleteCluster
  <2> DEFINE t == [tasks[w] EXCEPT !.todo = @ \ {k}, !.batch = FiltersIn(tasks[w].item.obj.name, k)]
  <2>3. tasks' = [tasks EXCEPT ![w] = t]
    BY <1>3, <2>2
  <2>4. FiltersIn(tasks[w].item.obj.name, k) \subseteq Key
    BY <1>2, <1>3 DEF FiltersIn
  <2>5. t \in DeleteTask /\ t.pc = "delete"
    BY <1>2, <2>4 DEF DeleteTask
  <2> HIDE DEF t
  <2>6. tasks' \in [Workers -> Tasks] /\ InEnabled'
    BY <1>3, <2>1, <2>3, <2>5, TaskStep DEF Tasks
  <2>7. QED
    BY <1>3, <2>1, <2>6, AsideType
<1>5. CASE DeleteFilter(w) \/ DeleteFails(w)
  <2>1. /\ UNCHANGED Aside
        /\ UNCHANGED <<filterCache, sourceToDestinations, ours, lost>>
        /\ filters' \subseteq filters
    BY <1>5 DEF DeleteFilter, DeleteFails, Aside, world, caches
  <2>2. budget' \in Budget
    BY <1>3, <1>5, SpendType DEF DeleteFilter, DeleteFails, TypeInv
  <2>3. PICK key \in tasks[w].batch, err \in BOOLEAN :
           tasks' = [tasks EXCEPT ![w].batch = @ \ {key}, ![w].err = err]
    BY <1>2, <1>5 DEF DeleteFilter, DeleteFails
  <2> DEFINE t == [tasks[w] EXCEPT !.batch = @ \ {key}, !.err = err]
  <2>4. tasks' = [tasks EXCEPT ![w] = t]
    BY <1>3, <2>3
  <2>5. t \in DeleteTask /\ t.pc = "delete"
    BY <1>2, <2>3 DEF DeleteTask
  <2> HIDE DEF t
  <2>6. tasks' \in [Workers -> Tasks] /\ InEnabled'
    BY <1>3, <2>1, <2>4, <2>5, TaskStep DEF Tasks
  <2>7. QED
    BY <1>3, <2>1, <2>2, <2>6, AsideType
<1>6. CASE EndDelete(w)
  <2>1. /\ UNCHANGED <<live, wanted, homes, clock, filters, readOnly, warm, depQ, identityDependency,
                       identityCluster, sourceToDestinations, ours, budget>>
        /\ tasks' = [tasks EXCEPT ![w] = Idle]
    BY <1>6 DEF EndDelete, Ended, world
  <2>2. tasks' \in [Workers -> Tasks] /\ InEnabled'
    BY <1>3, <2>1, TaskStep DEF Tasks, Idle
  <2>3. rpQ' \in Seq(Item)
    <3>1. [tasks[w].item EXCEPT !.tries = @ + 1] \in Item
      BY <1>2 DEF Item
    <3>2. rpQ' = rpQ \/ rpQ' = Append(rpQ, [tasks[w].item EXCEPT !.tries = @ + 1])
      BY <1>6 DEF EndDelete, Ended
    <3>3. QED
      BY <1>3, <3>1, <3>2
  <2>4. rpCache' \in [Names -> Policy \cup {Absent}] /\ filterCache' \in [Names -> SUBSET Key]
    BY <1>2, <1>3, <1>6 DEF EndDelete, DeletePolicy, DeleteFilters
  <2>5. lost' \subseteq Reasons
    BY <1>3, <1>6 DEF EndDelete, Ended, Note, Reasons
  <2>6. QED
    BY <2>1, <2>2, <2>3, <2>4, <2>5 DEF TypeInv, TypeOK, Tasks
<1>7. QED
  BY <1>4, <1>5, <1>6

LEMMA EnvironmentType ==
    ASSUME TypeInv, Environment
    PROVE  TypeInv'
<1>1. ASSUME NEW n \in Names, Apply(n)
      PROVE  TypeInv'
  <2>1. budget' \in Budget /\ clock' \in Nat
    BY <1>1, SpendType DEF Apply, TypeInv, TypeOK
  <2>2. PICK new \in Policy, type \in {"Add", "Update"} :
           live' = [live EXCEPT ![n] = new] /\ Emit(type, new)
    BY <1>1, <2>1 DEF Apply, Policy
  <2>3. rpQ' \in Seq(Item) /\ live' \in [Names -> Policy \cup {Absent}]
    BY <2>2 DEF Emit, TypeInv, TypeOK, Item
  <2>4. QED
    BY <1>1, <2>1, <2>3 DEF Apply, TypeInv, TypeOK, InEnabled, caches
<1>2. ASSUME NEW n \in Names, Remove(n)
      PROVE  TypeInv'
  <2>1. budget' \in Budget
    BY <1>2, SpendType DEF Remove, TypeInv
  <2>2. live[n] \in Policy /\ Emit("Delete", live[n]) /\ live' = [live EXCEPT ![n] = Absent]
    BY <1>2 DEF Remove, TypeInv, TypeOK
  <2>3. rpQ' \in Seq(Item) /\ live' \in [Names -> Policy \cup {Absent}]
    BY <2>2 DEF Emit, TypeInv, TypeOK, Item
  <2>4. QED
    BY <1>2, <2>1, <2>3 DEF Remove, TypeInv, TypeOK, InEnabled, caches
<1>3. ASSUME NEW c \in Clients, Depend(c)
      PROVE  TypeInv'
  <2>1. budget' \in Budget
    BY <1>3, SpendType DEF Depend, TypeInv
  <2>2. depQ' \in Seq(Ask) /\ wanted' \subseteq Clients
    BY <1>3 DEF Depend, TypeInv, TypeOK, Ask
  <2>3. QED
    BY <1>3, <2>1, <2>2 DEF Depend, TypeInv, TypeOK, InEnabled, caches
<1>4. ASSUME NEW c \in Clients, NEW k \in Clusters, Deploy(c, k)
      PROVE  TypeInv'
  <2>1. budget' \in Budget
    BY <1>4, SpendType DEF Deploy, TypeInv
  <2>2. QED
    BY <1>4, <2>1 DEF Deploy, TypeInv, TypeOK, InEnabled, caches
<1>5. ASSUME NEW c \in Clients, NEW k \in Clusters, Discover(c, k)
      PROVE  TypeInv'
  <2>1. lost' \subseteq Reasons
    BY <1>5 DEF Discover, Note, Reasons, TypeInv, TypeOK
  <2>2. QED
    BY <1>5, <2>1 DEF Discover, TypeInv, TypeOK, InEnabled, world
<1>6. CASE WarmedUp
  BY <1>6 DEF WarmedUp, TypeInv, TypeOK, InEnabled, world, caches
<1>7. CASE ToggleMode
  <2>1. budget' \in Budget
    BY <1>7, SpendType DEF ToggleMode, TypeInv
  <2>2. QED
    BY <1>7, <2>1 DEF ToggleMode, TypeInv, TypeOK, InEnabled, world, caches
<1>8. CASE Restart
  <2>1. budget' \in Budget
    BY <1>8, SpendType DEF Restart, TypeInv
  <2>2. rpQ' \in Seq(Item) /\ depQ' \in Seq(Ask)
    BY <1>8, RestartType
  <2>3. /\ warm' = TRUE /\ tasks' = [w \in Workers |-> Idle] /\ ours' = {}
        /\ rpCache' = [n \in Names |-> Absent] /\ filterCache' = [n \in Names |-> {}]
        /\ identityDependency' = {} /\ identityCluster' = [c \in Clients |-> {}]
        /\ sourceToDestinations' = {} /\ UNCHANGED <<live, wanted, homes, clock, filters, readOnly>>
    BY <1>8 DEF Restart, world
  <2>4. lost' \subseteq Reasons
    BY <1>8 DEF Restart, Note, Reasons, TypeInv, TypeOK
  <2>5. InEnabled'
    BY <2>3 DEF InEnabled, Idle
  <2>6. tasks' \in [Workers -> Tasks]
    BY <2>3 DEF Tasks
  <2>7. QED
    BY <2>1, <2>2, <2>3, <2>4, <2>5, <2>6 DEF TypeInv, TypeOK, Tasks
<1>9. QED
  BY <1>1, <1>2, <1>3, <1>4, <1>5, <1>6, <1>7, <1>8 DEF Environment

LEMMA TypeStep == TypeInv /\ [Next]_vars => TypeInv'
<1> SUFFICES ASSUME TypeInv, [Next]_vars
             PROVE  TypeInv'
  OBVIOUS
<1>1. ASSUME NEW w \in Workers, Step(w)
      PROVE  TypeInv'
  BY <1>1, TakePolicyType, TakeDependencyType, DependencyFailsType, WritesType, DeletesType DEF Step
<1>2. CASE UNCHANGED vars
  BY <1>2 DEF vars, world, caches, TypeInv, TypeOK, InEnabled
<1>3. QED
  BY <1>1, <1>2, EnvironmentType DEF Next

\* The caches, the queues, the tasks of the two workers and the filters keep
\* their types; in particular there is never more than one filter with a name
\* in a cluster, and filters are written in clusters in which policies are
\* processed only.
THEOREM RoutingTypeCorrect == Spec => []TypeInv
  BY TypeInit, TypeStep, PTL DEF Spec

-----------------------------------------------------------------------------
(* The filters of a policy are known                                       *)

LEMMA LostGrows == [Next]_vars => lost \subseteq lost'
  BY DEF Next, Step, Environment, TakePolicy, StartDelete, AddOrUpdate, UpdatedAsDeleted,
         TakeDependency, DependencyFails, NextDependent, Prepare, Write, WriteFails, EndWrite, DeleteCluster,
         DeleteFilter, DeleteFails, EndDelete, Ended, Apply, Remove, Depend, Deploy, Discover,
         WarmedUp, ToggleMode, Restart, vars

\* Nobody else has a task, and that of w becomes t
LEMMA Solo ==
    ASSUME TypeInv, NEW w \in Workers, \A u \in Workers \ {w} : tasks[u] = Idle,
           NEW t, tasks' = [tasks EXCEPT ![w] = t],
           t.pc = "write" /\ t.now # Absent => t.now \in filterCache'[t.now.name],
           t.pc = "delete" /\ ~t.err =>
              \A f \in filters' : f.key \in ours' /\ f.key.name = t.item.obj.name =>
                                     f.key.at \in t.todo \/ f.key \in t.batch
    PROVE  Alone' /\ Prepared' /\ Deletions'
<1>1. \A u \in Workers : tasks'[u] = IF u = w THEN t ELSE Idle
  BY DEF TypeInv, TypeOK
<1>2. Alone' /\ Prepared'
  BY <1>1 DEF Alone, Prepared, Idle
<1>3. Deletions'
  BY <1>1 DEF Deletions, ToCome, Idle
<1>4. QED
  BY <1>2, <1>3

\* Nothing happens to the filters and the caches, and nobody starts a task
LEMMA Still ==
    ASSUME Alone, Prepared, Deletions, Known, UNCHANGED <<tasks, filters, filterCache, ours>>
    PROVE  Alone' /\ Prepared' /\ Deletions' /\ Known'
  BY DEF Alone, Prepared, Deletions, ToCome, Known

LEMMA TakesKnown ==
    ASSUME TypeInv, Alone, Prepared, Deletions, Known, TakePolicy \/ TakeDependency \/ DependencyFails,
           "raced" \notin lost'
    PROVE  Alone' /\ Prepared' /\ Deletions' /\ Known'
<1>1. UNCHANGED <<filters, filterCache, ours>>
  BY DEF TakePolicy, TakeDependency, DependencyFails
<1>2. Known'
  BY <1>1 DEF Known
<1>3. CASE UNCHANGED tasks
  BY <1>1, <1>3, Still
<1>4. CASE TakePolicy /\ tasks' # tasks
  <2> DEFINE item == Head(rpQ)
  <2>1. item \in Item
    BY <1>4 DEF TakePolicy, TypeInv, TypeOK
  <2>2. \A u \in Workers \ {"policy"} : tasks[u] = Idle
    <3>1. Racing("policy") \subseteq lost'
      BY <1>4 DEF TakePolicy, StartDelete, AddOrUpdate, UpdatedAsDeleted
    <3>2. QED
      BY <3>1 DEF Racing, Note
  <2>3. \/ tasks' = [tasks EXCEPT !["policy"] = Deleting(item)]
        \/ tasks' = [tasks EXCEPT !["policy"] = Writing(item.obj, {}, Absent, identityDependency)]
    BY <1>4 DEF TakePolicy, StartDelete, AddOrUpdate, UpdatedAsDeleted
  <2>4. CASE tasks' = [tasks EXCEPT !["policy"] = Deleting(item)]
    <3> DEFINE t == Deleting(item)
    <3>1. t.pc = "delete" /\ t.todo = Enabled
      BY DEF Deleting
    <3>2. \A f \in filters' : f.key \in ours' => f.key.at \in t.todo
      BY <1>1, <3>1 DEF TypeInv, InEnabled
    <3> HIDE DEF t
    <3>3. tasks' = [tasks EXCEPT !["policy"] = t]
      BY <2>4 DEF t
    <3>4. QED
      BY <1>2, <2>2, <3>1, <3>2, <3>3, Solo DEF Workers
  <2>5. CASE tasks' = [tasks EXCEPT !["policy"] = Writing(item.obj, {}, Absent, identityDependency)]
    <3> DEFINE t == Writing(item.obj, {}, Absent, identityDependency)
    <3>1. t.pc = "write" /\ t.now = Absent
      BY DEF Writing
    <3> HIDE DEF t
    <3>2. tasks' = [tasks EXCEPT !["policy"] = t]
      BY <2>5 DEF t
    <3>3. QED
      BY <1>2, <2>2, <3>1, <3>2, Solo DEF Workers
  <2>6. QED
    BY <2>3, <2>4, <2>5
<1>5. CASE TakeDependency /\ tasks' # tasks
  <2>1. \A u \in Workers \ {"dependency"} : tasks[u] = Idle
    <3>1. Racing("dependency") \subseteq lost'
      BY <1>5 DEF TakeDependency
    <3>2. QED
      BY <3>1 DEF Racing, Note
  <2>2. PICK p, ask, dependents, more :
           tasks' = [tasks EXCEPT !["dependency"] = Writing(p, more, ask, dependents)]
    BY <1>5 DEF TakeDependency
  <2> DEFINE t == Writing(p, more, ask, dependents)
  <2>3. t.pc = "write" /\ t.now = Absent
    BY DEF Writing
  <2> HIDE DEF t
  <2>4. tasks' = [tasks EXCEPT !["dependency"] = t]
    BY <2>2 DEF t
  <2>5. QED
    BY <1>2, <2>1, <2>3, <2>4, Solo DEF Workers
<1>6. CASE DependencyFails
  BY <1>3, <1>6 DEF DependencyFails
<1>7. QED
  BY <1>3, <1>4, <1>5, <1>6

LEMMA WritesKnown ==
    ASSUME TypeInv, Alone, Prepared, Deletions, Known, NEW w \in Workers,
           NextDependent(w) \/ Prepare(w) \/ Write(w) \/ WriteFails(w) \/ EndWrite(w)
    PROVE  Alone' /\ Prepared' /\ Deletions' /\ Known'
<1>1. tasks[w].pc = "write"
  BY DEF NextDependent, Prepare, Write, WriteFails, EndWrite
<1>2. \A u \in Workers \ {w} : tasks[u] = Idle
  BY <1>1 DEF Alone, Idle
<1>3. /\ tasks[w] \in WriteTask /\ tasks[w].obj \in Policy /\ tasks[w].left \subseteq Versions
      /\ tasks[w].left # {} => tasks[w].pair \in Enabled \X Clients
      /\ tasks[w].now # Absent => tasks[w].now \in Key
      /\ tasks \in [Workers -> Tasks] /\ filterCache \in [Names -> SUBSET Key]
      /\ filters \subseteq Filter
  BY <1>1, WriteType DEF TypeInv, TypeOK, InEnabled, Tasks
<1>4. CASE NextDependent(w)
  <2>1. tasks[w].now = Absent /\ UNCHANGED <<filters, filterCache, ours>>
    BY <1>4 DEF NextDependent, caches
  <2>2. PICK p \in tasks[w].todo :
           tasks' = [tasks EXCEPT ![w].todo = @ \ {p}, ![w].pair = p,
                     ![w].left = IF p[1] \in identityCluster[p[2]] THEN Versions ELSE {}]
    BY <1>4 DEF NextDependent
  <2> DEFINE t == [tasks[w] EXCEPT !.todo = @ \ {p}, !.pair = p,
                     !.left = IF p[1] \in identityCluster[p[2]] THEN Versions ELSE {}]
  <2>3. tasks' = [tasks EXCEPT ![w] = t]
    BY <1>3, <2>2
  <2>4. t.pc = "write" /\ t.now = Absent
    BY <1>1, <1>3, <2>1 DEF WriteTask
  <2> HIDE DEF t
  <2>5. Known'
    BY <2>1 DEF Known
  <2>6. QED
    BY <1>2, <2>3, <2>4, <2>5, Solo
<1>5. CASE Prepare(w)
  <2>1. UNCHANGED <<filters, ours>>
    BY <1>5 DEF Prepare
  <2>2. PICK v \in tasks[w].left :
           /\ PutFilter(KeyOf(tasks[w].obj, tasks[w].pair, v))
           /\ \E seen \in filters \cup {Absent} :
                tasks' = [tasks EXCEPT ![w].left = @ \ {v},
                            ![w].now = KeyOf(tasks[w].obj, tasks[w].pair, v), ![w].seen = seen]
    BY <1>5 DEF Prepare
  <2>3. PICK seen \in filters \cup {Absent} :
           tasks' = [tasks EXCEPT ![w].left = @ \ {v},
                       ![w].now = KeyOf(tasks[w].obj, tasks[w].pair, v), ![w].seen = seen]
    BY <2>2
  <2> DEFINE key == KeyOf(tasks[w].obj, tasks[w].pair, v)
             t == [tasks[w] EXCEPT !.left = @ \ {v}, !.now = key, !.seen = seen]
  <2>4. key \in Key /\ key.name \in Names
    BY <1>3, <2>2, KeyType
  <2>5. tasks' = [tasks EXCEPT ![w] = t]
    BY <1>3, <2>3
  <2>6. filterCache' = [filterCache EXCEPT ![key.name] = @ \cup {key}]
    BY <2>2 DEF PutFilter
  <2> HIDE DEF key
  <2>7. t.pc = "write" /\ t.now = key
    BY <1>1, <1>3 DEF WriteTask
  <2> HIDE DEF t
  <2>8. /\ key \in filterCache'[key.name]
        /\ \A n \in Names : filterCache[n] \subseteq filterCache'[n]
    BY <1>3, <2>4, <2>6
  <2>9. Known'
    <3>1. \A f \in filters : f.key.name \in Names
      BY <1>3 DEF Filter, Key
    <3>2. QED
      BY <2>1, <2>8, <3>1 DEF Known
  <2>10. QED
    BY <1>2, <2>5, <2>7, <2>8, <2>9, Solo
<1>6. CASE Write(w) \/ WriteFails(w)
  <2>1. UNCHANGED filterCache /\ tasks[w].now # Absent
    BY <1>6 DEF Write, WriteFails, caches
  <2>2. PICK err \in BOOLEAN :
           tasks' = [tasks EXCEPT ![w].now = Absent, ![w].seen = Absent, ![w].err = @ \/ err]
    BY <1>6 DEF Write, WriteFails, Written
  <2> DEFINE t == [tasks[w] EXCEPT !.now = Absent, !.seen = Absent, !.err = @ \/ err]
  <2>3. tasks' = [tasks EXCEPT ![w] = t]
    BY <1>3, <2>2
  <2>4. t.pc = "write" /\ t.now = Absent
    BY <1>1, <1>3 DEF WriteTask
  <2> HIDE DEF t
  <2>5. Known'
    <3>1. CASE UNCHANGED <<filters, ours>>
      BY <2>1, <3>1 DEF Known
    <3>2. CASE /\ filters' = (filters \ {f \in filters : f.key = tasks[w].now})
                               \cup {FilterOf(tasks[w].obj, tasks[w].now)}
               /\ ours' = ours \cup {tasks[w].now}
      <4>1. tasks[w].now \in filterCache[tasks[w].now.name]
        BY <1>1, <2>1 DEF Prepared
      <4>2. FilterOf(tasks[w].obj, tasks[w].now).key = tasks[w].now
        BY DEF FilterOf
      <4>3. QED
        BY <2>1, <3>2, <4>1, <4>2 DEF Known
    <3>3. QED
      BY <1>6, <3>1, <3>2 DEF Write, WriteFails
  <2>6. QED
    BY <1>2, <2>3, <2>4, <2>5, Solo
<1>7. CASE EndWrite(w)
  <2>1. UNCHANGED <<filters, filterCache, ours>>
    BY <1>7 DEF EndWrite
  <2>2. Known'
    BY <2>1 DEF Known
  <2>3. CASE tasks' = [tasks EXCEPT ![w] = Idle]
    BY <1>2, <2>2, <2>3, Solo DEF Idle
  <2>4. ASSUME NEW p, NEW more, NEW ask, NEW dependents,
               tasks' = [tasks EXCEPT ![w] = Writing(p, more, ask, dependents)]
        PROVE  Alone' /\ Prepared' /\ Deletions'
    <3> DEFINE t == Writing(p, more, ask, dependents)
    <3>1. t.pc = "write" /\ t.now = Absent
      BY DEF Writing
    <3> HIDE DEF t
    <3>2. tasks' = [tasks EXCEPT ![w] = t]
      BY <2>4 DEF t
    <3>3. QED
      BY <1>2, <3>1, <3>2, Solo
  <2>5. \/ tasks' = [tasks EXCEPT ![w] = Idle]
        \/ \E p \in tasks[w].more :
             tasks' = [tasks EXCEPT ![w] = Writing(p, tasks[w].more \ {p}, tasks[w].ask,
                                                  {tasks[w].ask.client})]
    BY <1>7 DEF EndWrite
  <2>6. QED
    BY <2>2, <2>3, <2>4, <2>5
<1>8. QED
  BY <1>4, <1>5, <1>6, <1>7

LEMMA DeletesKnown ==
    ASSUME TypeInv, Alone, Prepared, Deletions, Known, NEW w \in Workers,
           DeleteCluster(w) \/ DeleteFilter(w) \/ DeleteFails(w) \/ EndDelete(w)
    PROVE  Alone' /\ Prepared' /\ Deletions' /\ Known'
<1>1. tasks[w].pc = "delete"
  BY DEF DeleteCluster, DeleteFilter, DeleteFails, EndDelete
<1>2. \A u \in Workers \ {w} : tasks[u] = Idle
  BY <1>1 DEF Alone, Idle
<1>3. /\ tasks[w] \in DeleteTask /\ tasks[w].err \in BOOLEAN
      /\ tasks[w].item.obj.name \in Names /\ filterCache \in [Names -> SUBSET Key]
      /\ tasks \in [Workers -> Tasks]
      /\ ~tasks[w].err => ToCome(w)
  BY <1>1, DeleteType DEF TypeInv, TypeOK, Tasks, Deletions
<1>4. CASE DeleteCluster(w)
  <2>1. tasks[w].batch = {} /\ UNCHANGED <<filters, filterCache, ours>>
    BY <1>4 DEF DeleteCluster, caches
  <2>2. PICK k \in tasks[w].todo :
           tasks' = [tasks EXCEPT ![w].todo = @ \ {k},
                       ![w].batch = FiltersIn(tasks[w].item.obj.name, k)]
    BY <1>4 DEF DeleteCluster
  <2> DEFINE t == [tasks[w] EXCEPT !.todo = @ \ {k}, !.batch = FiltersIn(tasks[w].item.obj.name, k)]
  <2>3. tasks' = [tasks EXCEPT ![w] = t]
    BY <1>3, <2>2
  <2>4. /\ t.pc = "delete" /\ t.err = tasks[w].err /\ t.item = tasks[w].item
        /\ t.todo = tasks[w].todo \ {k} /\ t.batch = FiltersIn(tasks[w].item.obj.name, k)
    BY <1>1, <1>3 DEF DeleteTask
  <2> HIDE DEF t
  <2>5. ASSUME ~t.err, NEW f \in filters', f.key \in ours', f.key.name = t.item.obj.name
        PROVE  f.key.at \in t.todo \/ f.key \in t.batch
    <3>1. f.key.at \in tasks[w].todo
      BY <1>3, <2>1, <2>4, <2>5 DEF ToCome
    <3>2. f.key \in filterCache[tasks[w].item.obj.name]
      BY <2>1, <2>4, <2>5 DEF Known
    <3>3. QED
      BY <2>4, <3>1, <3>2 DEF FiltersIn
  <2>6. Known'
    BY <2>1 DEF Known
  <2>7. QED
    BY <1>2, <2>3, <2>4, <2>5, <2>6, Solo
<1>5. CASE DeleteFilter(w) \/ DeleteFails(w)
  <2>1. UNCHANGED <<filterCache, ours>>
    BY <1>5 DEF DeleteFilter, DeleteFails, caches
  <2>2. PICK key \in tasks[w].batch, err \in BOOLEAN :
           /\ tasks' = [tasks EXCEPT ![w].batch = @ \ {key}, ![w].err = err]
           /\ tasks[w].err => err
           /\ filters' \subseteq filters /\ (~err => \A f \in filters' : f.key # key)
    BY <1>3, <1>5 DEF DeleteFilter, DeleteFails
  <2> DEFINE t == [tasks[w] EXCEPT !.batch = @ \ {key}, !.err = err]
  <2>3. tasks' = [tasks EXCEPT ![w] = t]
    BY <1>3, <2>2
  <2>4. /\ t.pc = "delete" /\ t.err = err /\ t.item = tasks[w].item
        /\ t.todo = tasks[w].todo /\ t.batch = tasks[w].batch \ {key}
    BY <1>1, <1>3 DEF DeleteTask
  <2> HIDE DEF t
  <2>5. ASSUME ~t.err, NEW f \in filters', f.key \in ours', f.key.name = t.item.obj.name
        PROVE  f.key.at \in t.todo \/ f.key \in t.batch
    BY <1>3, <2>1, <2>2, <2>4, <2>5 DEF ToCome
  <2>6. Known'
    BY <2>1, <2>2 DEF Known
  <2>7. QED
    BY <1>2, <2>3, <2>4, <2>5, <2>6, Solo
<1>6. CASE EndDelete(w)
  <2>1. /\ tasks[w].todo = {} /\ tasks[w].batch = {} /\ UNCHANGED <<filters, ours>>
        /\ tasks' = [tasks EXCEPT ![w] = Idle]
    BY <1>6 DEF EndDelete, Ended
  <2>2. Alone' /\ Prepared' /\ Deletions'
    BY <1>2, <2>1, Solo DEF Idle
  <2>3. Known'
    <3>1. CASE UNCHANGED filterCache
      BY <2>1, <3>1 DEF Known
    <3>2. CASE filterCache' # filterCache
      <4>1. /\ ~tasks[w].err
            /\ filterCache' = [filterCache EXCEPT ![tasks[w].item.obj.name] = {}]
        BY <1>6, <3>2 DEF EndDelete, DeleteFilters
      <4>2. \A f \in filters : f.key \in ours => f.key.name # tasks[w].item.obj.name
        BY <1>3, <2>1, <4>1 DEF ToCome
      <4>3. \A f \in filters : f.key.name \in Names
        BY DEF TypeInv, TypeOK, Filter, Key
      <4>4. QED
        BY <1>3, <2>1, <4>1, <4>2, <4>3 DEF Known
    <3>3. QED
      BY <3>1, <3>2
  <2>4. QED
    BY <2>2, <2>3
<1>7. QED
  BY <1>4, <1>5, <1>6

LEMMA EnvironmentKnown ==
    ASSUME TypeInv, Alone, Prepared, Deletions, Known, Environment
    PROVE  Alone' /\ Prepared' /\ Deletions' /\ Known'
<1>1. CASE Restart
  <2>1. tasks' = [w \in Workers |-> Idle] /\ ours' = {}
    BY <1>1 DEF Restart
  <2>2. QED
    BY <2>1 DEF Alone, Prepared, Deletions, ToCome, Known, Idle
<1>2. CASE ~Restart
  <2>1. UNCHANGED <<tasks, filters, filterCache, ours>>
    BY <1>2 DEF Environment, Apply, Remove, Depend, Deploy, Discover, WarmedUp, ToggleMode, caches
  <2>2. QED
    BY <2>1, Still
<1>3. QED
  BY <1>1, <1>2

LEMMA KnownStep == KnownInv /\ [Next]_vars => KnownInv'
<1> SUFFICES ASSUME KnownInv, [Next]_vars
             PROVE  KnownInv'
  OBVIOUS
<1>1. TypeInv'
  BY TypeStep DEF KnownInv
<1>2. ASSUME "raced" \notin lost'
      PROVE  Alone' /\ Prepared' /\ Deletions' /\ Known'
  <2>1. TypeInv /\ Alone /\ Prepared /\ Deletions /\ Known
    BY <1>2, LostGrows DEF KnownInv
  <2>2. ASSUME NEW w \in Workers, Step(w)
        PROVE  Alone' /\ Prepared' /\ Deletions' /\ Known'
    BY <1>2, <2>1, <2>2, TakesKnown, WritesKnown, DeletesKnown DEF Step
  <2>3. CASE UNCHANGED vars
    <3>1. UNCHANGED <<tasks, filters, filterCache, ours>>
      BY <2>3 DEF vars, caches
    <3>2. QED
      BY <2>1, <3>1, Still
  <2>4. QED
    BY <2>1, <2>2, <2>3, EnvironmentKnown DEF Next
<1>3. QED
  BY <1>1, <1>2 DEF KnownInv

\* Every Envoy filter that this process has written and that is still in a
\* cluster is named by RoutingPolicyFilterCache, so that the deletion of its
\* policy reaches it: whatever fails, is retried or is done in read-only mode,
\* for as long as the two workers did not write and delete at once.
THEOREM FiltersKnown == Spec => []FiltersAreKnown
<1>1. Init => KnownInv
  <2> SUFFICES ASSUME Init
               PROVE  KnownInv
    OBVIOUS
  <2>1. Alone /\ Prepared /\ Deletions /\ Known
    BY DEF Init, Alone, Prepared, Deletions, Known, Idle
  <2>2. QED
    BY <2>1, TypeInit DEF KnownInv
<1>2. KnownInv => FiltersAreKnown
  BY DEF KnownInv, Known, FiltersAreKnown
<1>3. QED
  BY <1>1, <1>2, KnownStep, PTL DEF Spec

-----------------------------------------------------------------------------
(***************************************************************************)
(* The filters follow the policies.  SettledFollows relates the clusters   *)
(* to policies, clients and dependencies of which the process learns from  *)
(* two queues and from workload events, in any order.  The invariant says, *)
(* of every filter that is not as it should be and of every filter that is *)
(* missing, what is going to put it right: an event, the task of a worker, *)
(* or a client that has not been heard of everywhere.                      *)
(***************************************************************************)

\* What has come in by way of events has its reason in the world
Grounded ==
    /\ \A n \in Names : /\ live[n] # Absent => live[n].name = n
                        /\ rpCache[n] # Absent => rpCache[n].name = n
    /\ \A c \in Clients : identityCluster[c] \subseteq homes[c]
    /\ sourceToDestinations \subseteq identityDependency /\ identityDependency \subseteq wanted
    /\ \A i \in DOMAIN depQ : depQ[i].client \in wanted
    /\ \A c \in wanted : c \in identityDependency \/ \E i \in DOMAIN depQ : depQ[i].client = c
    /\ \A i \in DOMAIN rpQ : rpQ[i].tries > 0 => rpQ[i].type = "Delete"
    /\ \A n \in Names : \A key \in filterCache[n] : key.name = n

\* A client runs in a cluster in which policies are processed, and depends on
\* the server
Entitled(at, client) == client \in wanted /\ at \in homes[client] \cap Enabled

FiltersGrounded == \A f \in filters : Entitled(f.key.at, f.key.client)

WriteGrounded(t) ==
    /\ t.todo \subseteq Enabled \X wanted
    /\ t.left # {} => Entitled(t.pair[1], t.pair[2])
    /\ t.now # Absent => /\ Entitled(t.now.at, t.now.client)
                         /\ t.now.name = t.obj.name /\ t.now.plugin = t.obj.plugin
    /\ t.ask # Absent => t.ask.client \in identityDependency
    /\ t.ask = Absent => t.more = {}

TasksGrounded ==
    \A w \in Workers :
       /\ tasks[w].pc = "write" => WriteGrounded(tasks[w])
       /\ tasks[w].pc = "delete" => \A key \in tasks[w].batch : key.name = tasks[w].item.obj.name

GroundInv == KnownInv /\ Grounded /\ FiltersGrounded /\ TasksGrounded

\* An event that changes or removes policy n is queued
Changes(n) == \E i \in DOMAIN rpQ : rpQ[i].obj.name = n /\ rpQ[i].type # "Add"

\* The policy as it is now is queued
Awaited(n) == \E i \in DOMAIN rpQ : rpQ[i].type # "Delete" /\ rpQ[i].obj = live[n]

Applies(n) == live[n] # Absent /\ ~live[n].ignore

\* A queued policy is the current one, or a change of it follows; and the
\* current one is queued after every event that does not say the same
QueueFollows ==
    \A i \in DOMAIN rpQ :
       LET n == rpQ[i].obj.name IN
       /\ rpQ[i].type # "Delete" =>
            \/ rpQ[i].obj = live[n]
            \/ \E j \in DOMAIN rpQ : j > i /\ rpQ[j].obj.name = n /\ rpQ[j].type # "Add"
       /\ rpQ[i].tries = 0 =>
            \/ live[n] = Absent
            \/ rpQ[i].type # "Delete" /\ rpQ[i].obj = live[n]
            \/ \E j \in DOMAIN rpQ : j > i /\ rpQ[j].type # "Delete" /\ rpQ[j].obj = live[n]

CacheFollows == \A n \in Names : Applies(n) => rpCache[n] = live[n] \/ Awaited(n)

\* What a worker is writing
Current(p) == /\ ~p.ignore /\ rpCache[p.name] = p
              /\ p = live[p.name] \/ Changes(p.name)

WritesCurrent ==
    \A w \in Workers : tasks[w].pc = "write" =>
       /\ ~tasks[w].err /\ Current(tasks[w].obj)
       /\ \A p \in tasks[w].more : Current(p)
       /\ tasks[w].now # Absent =>
            \/ tasks[w].seen = Absent /\ \A f \in filters : f.key # tasks[w].now
            \/ tasks[w].seen \in filters /\ tasks[w].seen.key = tasks[w].now

DeletesCurrent ==
    \A w \in Workers : tasks[w].pc = "delete" =>
       LET n == tasks[w].item.obj.name IN
       /\ \A f \in Of(n) : f.key \in ours
       /\ Applies(n) => Awaited(n)

\* A task is going to write the filter with this key
ToWrite(t, key) ==
    \/ /\ key.name = t.obj.name /\ key.plugin = t.obj.plugin
       /\ \/ <<key.at, key.client>> \in t.todo
          \/ key.version \in t.left /\ t.pair = <<key.at, key.client>>
          \/ t.now = key
    \/ \E p \in t.more : p.name = key.name /\ p.plugin = key.plugin /\ t.ask.client = key.client

Reached(key) == \E w \in Workers : tasks[w].pc = "write" /\ ToWrite(tasks[w], key)

Erased(n) == \E w \in Workers : tasks[w].pc = "delete" /\ tasks[w].item.obj.name = n

\* The policy is known, but the client is not, or not in this cluster
Late(key) ==
    /\ Applies(key.name) /\ rpCache[key.name] = live[key.name]
    /\ key.plugin = live[key.name].plugin
    /\ key.client \notin identityDependency \/ key.at \notin identityCluster[key.client]

AsNow(f) == Applies(f.key.name) /\ f.key.plugin = live[f.key.name].plugin
                                /\ f.rev = live[f.key.name].rev

StaleIsRepaired ==
    \A f \in filters : \/ AsNow(f) \/ Changes(f.key.name) \/ Erased(f.key.name)
                       \/ Reached(f.key) \/ Late(f.key)

DueKey(key) == /\ Entitled(key.at, key.client) /\ Applies(key.name)
               /\ key.plugin = live[key.name].plugin

MissingIsWritten ==
    \A key \in Key : DueKey(key) => \/ \E f \in filters : f.key = key
                                    \/ Awaited(key.name) \/ Reached(key) \/ Late(key)

Following == /\ QueueFollows /\ CacheFollows /\ WritesCurrent /\ DeletesCurrent
             /\ StaleIsRepaired /\ MissingIsWritten

FollowInv == GroundInv /\ (lost = {} => Following)

-----------------------------------------------------------------------------
(* What the steps of the workers do to the tasks                           *)

\* Worker w goes on writing the same policies, and the other worker waits
Goes(w) ==
    /\ \A u \in Workers \ {w} : tasks'[u] = tasks[u]
    /\ tasks'[w].pc = "write" /\ tasks'[w].obj = tasks[w].obj
    /\ tasks'[w].more = tasks[w].more /\ tasks'[w].ask = tasks[w].ask

LEMMA NextDependentFacts ==
    ASSUME TypeInv, NEW w \in Workers, NextDependent(w)
    PROVE  /\ tasks[w].pc = "write" /\ tasks[w].left = {} /\ tasks[w].now = Absent
           /\ UNCHANGED Aside /\ UNCHANGED <<filters, sourceToDestinations, ours, lost>>
           /\ Goes(w) /\ tasks'[w].err = tasks[w].err /\ tasks'[w].now = Absent
           /\ \E p \in tasks[w].todo :
                /\ tasks'[w].todo = tasks[w].todo \ {p} /\ tasks'[w].pair = p
                /\ tasks'[w].left = IF p[1] \in identityCluster[p[2]] THEN Versions ELSE {}
<1>1. /\ tasks[w].pc = "write" /\ tasks[w].left = {} /\ tasks[w].now = Absent
      /\ UNCHANGED Aside /\ UNCHANGED <<filters, sourceToDestinations, ours, lost>>
  BY DEF NextDependent, Aside, world, caches
<1>2. PICK p \in tasks[w].todo :
         tasks' = [tasks EXCEPT ![w].todo = @ \ {p}, ![w].pair = p,
                   ![w].left = IF p[1] \in identityCluster[p[2]] THEN Versions ELSE {}]
  BY DEF NextDependent
<1>3. tasks[w] \in WriteTask /\ tasks \in [Workers -> Tasks]
  BY <1>1, WriteType DEF TypeInv, TypeOK, Tasks
<1> DEFINE t == [tasks[w] EXCEPT !.todo = @ \ {p}, !.pair = p,
                   !.left = IF p[1] \in identityCluster[p[2]] THEN Versions ELSE {}]
<1>4. tasks' = [tasks EXCEPT ![w] = t]
  BY <1>2, <1>3
<1>5. /\ t.pc = "write" /\ t.obj = tasks[w].obj /\ t.more = tasks[w].more
      /\ t.ask = tasks[w].ask /\ t.err = tasks[w].err /\ t.now = tasks[w].now
      /\ t.todo = tasks[w].todo \ {p} /\ t.pair = p
      /\ t.left = IF p[1] \in identityCluster[p[2]] THEN Versions ELSE {}
  BY <1>1, <1>3 DEF WriteTask
<1> HIDE DEF t
<1>6. tasks'[w] = t /\ \A u \in Workers \ {w} : tasks'[u] = tasks[u]
  BY <1>3, <1>4
<1>7. QED
  BY <1>1, <1>2, <1>5, <1>6 DEF Goes

LEMMA PrepareFacts ==
    ASSUME TypeInv, NEW w \in Workers, Prepare(w)
    PROVE  /\ tasks[w].pc = "write" /\ tasks[w].now = Absent
           /\ UNCHANGED Aside /\ UNCHANGED <<filters, sourceToDestinations, ours, lost>>
           /\ Goes(w) /\ tasks'[w].err = tasks[w].err
           /\ tasks'[w].todo = tasks[w].todo /\ tasks'[w].pair = tasks[w].pair
           /\ \E v \in tasks[w].left :
                /\ tasks'[w].left = tasks[w].left \ {v}
                /\ tasks'[w].now = KeyOf(tasks[w].obj, tasks[w].pair, v)
                /\ \/ /\ tasks'[w].seen = Absent
                      /\ \A f \in filters : f.key # KeyOf(tasks[w].obj, tasks[w].pair, v)
                   \/ /\ tasks'[w].seen \in filters
                      /\ tasks'[w].seen.key = KeyOf(tasks[w].obj, tasks[w].pair, v)
<1>1. /\ tasks[w].pc = "write" /\ tasks[w].now = Absent
      /\ UNCHANGED Aside /\ UNCHANGED <<filters, sourceToDestinations, ours, lost>>
  BY DEF Prepare, Aside, world, caches
<1>2. PICK v \in tasks[w].left :
         \E seen \in {f \in filters : f.key = KeyOf(tasks[w].obj, tasks[w].pair, v)} \cup {Absent} :
            /\ seen = Absent => \A f \in filters : f.key # KeyOf(tasks[w].obj, tasks[w].pair, v)
            /\ tasks' = [tasks EXCEPT ![w].left = @ \ {v},
                          ![w].now = KeyOf(tasks[w].obj, tasks[w].pair, v), ![w].seen = seen]
  BY DEF Prepare
<1> DEFINE key == KeyOf(tasks[w].obj, tasks[w].pair, v)
<1>3. PICK seen \in {f \in filters : f.key = key} \cup {Absent} :
         /\ seen = Absent => \A f \in filters : f.key # key
         /\ tasks' = [tasks EXCEPT ![w].left = @ \ {v}, ![w].now = key, ![w].seen = seen]
  BY <1>2
<1> HIDE DEF key
<1>4. tasks[w] \in WriteTask /\ tasks \in [Workers -> Tasks]
  BY <1>1, WriteType DEF TypeInv, TypeOK, Tasks
<1> DEFINE t == [tasks[w] EXCEPT !.left = @ \ {v}, !.now = key, !.seen = seen]
<1>5. tasks' = [tasks EXCEPT ![w] = t]
  BY <1>3, <1>4
<1>6. /\ t.pc = "write" /\ t.obj = tasks[w].obj /\ t.more = tasks[w].more
      /\ t.ask = tasks[w].ask /\ t.err = tasks[w].err /\ t.now = key
      /\ t.todo = tasks[w].todo /\ t.pair = tasks[w].pair
      /\ t.left = tasks[w].left \ {v} /\ t.seen = seen
  BY <1>1, <1>4 DEF WriteTask
<1> HIDE DEF t
<1>7. tasks'[w] = t /\ \A u \in Workers \ {w} : tasks'[u] = tasks[u]
  BY <1>4, <1>5
<1>8. (seen = Absent /\ \A f \in filters : f.key # key) \/ (seen \in filters /\ seen.key = key)
  BY <1>3
<1>9. QED
  BY <1>1, <1>2, <1>6, <1>7, <1>8 DEF Goes, key

LEMMA WriteFacts ==
    ASSUME TypeInv, NEW w \in Workers, Write(w) \/ WriteFails(w)
    PROVE  /\ tasks[w].pc = "write" /\ tasks[w].now # Absent
           /\ UNCHANGED Aside /\ UNCHANGED sourceToDestinations
           /\ Goes(w) /\ tasks'[w].now = Absent
           /\ tasks'[w].todo = tasks[w].todo /\ tasks'[w].pair = tasks[w].pair
           /\ tasks'[w].left = tasks[w].left
           /\ \/ /\ filters' = (filters \ {f \in filters : f.key = tasks[w].now})
                                 \cup {FilterOf(tasks[w].obj, tasks[w].now)}
                 /\ ours' = ours \cup {tasks[w].now}
                 /\ tasks'[w].err = tasks[w].err
              \/ UNCHANGED <<filters, ours>>
<1>1. /\ tasks[w].pc = "write" /\ tasks[w].now # Absent
      /\ UNCHANGED Aside /\ UNCHANGED sourceToDestinations
  BY DEF Write, WriteFails, Aside, world, caches
<1>2. PICK err \in BOOLEAN :
         /\ tasks' = [tasks EXCEPT ![w].now = Absent, ![w].seen = Absent, ![w].err = @ \/ err]
         /\ \/ /\ filters' = (filters \ {f \in filters : f.key = tasks[w].now})
                               \cup {FilterOf(tasks[w].obj, tasks[w].now)}
               /\ ours' = ours \cup {tasks[w].now} /\ ~err
            \/ UNCHANGED <<filters, ours>>
  BY DEF Write, WriteFails, Written
<1>3. tasks[w] \in WriteTask /\ tasks[w].err \in BOOLEAN /\ tasks \in [Workers -> Tasks]
  BY <1>1, WriteType DEF TypeInv, TypeOK, Tasks
<1> DEFINE t == [tasks[w] EXCEPT !.now = Absent, !.seen = Absent, !.err = @ \/ err]
<1>4. tasks' = [tasks EXCEPT ![w] = t]
  BY <1>2, <1>3
<1>5. /\ t.pc = "write" /\ t.obj = tasks[w].obj /\ t.more = tasks[w].more
      /\ t.ask = tasks[w].ask /\ t.err = (tasks[w].err \/ err) /\ t.now = Absent
      /\ t.todo = tasks[w].todo /\ t.pair = tasks[w].pair /\ t.left = tasks[w].left
  BY <1>1, <1>3 DEF WriteTask
<1> HIDE DEF t
<1>6. tasks'[w] = t /\ \A u \in Workers \ {w} : tasks'[u] = tasks[u]
  BY <1>3, <1>4
<1>7. ~err => t.err = tasks[w].err
  BY <1>3, <1>5
<1>8. QED
  BY <1>1, <1>2, <1>5, <1>6, <1>7 DEF Goes

\* A task that begins to write policy p
Begins(t, p, more, ask, dependents) ==
    /\ t.pc = "write" /\ t.obj = p /\ t.more = more /\ t.ask = ask /\ ~t.err
    /\ t.todo = Enabled \X dependents /\ t.left = {} /\ t.now = Absent

LEMMA WritingBegins ==
    ASSUME NEW p, NEW more, NEW ask, NEW dependents
    PROVE  Begins(Writing(p, more, ask, dependents), p, more, ask, dependents)
  BY DEF Begins, Writing

LEMMA EndWriteFacts ==
    ASSUME TypeInv, NEW w \in Workers, EndWrite(w)
    PROVE  /\ tasks[w].pc = "write" /\ tasks[w].now = Absent
           /\ tasks[w].todo = {} /\ tasks[w].left = {}
           /\ UNCHANGED Aside /\ UNCHANGED <<filters, ours, lost>>
           /\ \A u \in Workers \ {w} : tasks'[u] = tasks[u]
           /\ \/ /\ tasks[w].ask # Absent /\ UNCHANGED sourceToDestinations
                 /\ \E p \in tasks[w].more :
                      Begins(tasks'[w], p, tasks[w].more \ {p}, tasks[w].ask, {tasks[w].ask.client})
              \/ /\ tasks[w].ask = Absent \/ tasks[w].err \/ tasks[w].more = {}
                 /\ tasks'[w] = Idle
                 /\ \/ UNCHANGED sourceToDestinations
                    \/ /\ tasks[w].ask # Absent
                       /\ sourceToDestinations' = sourceToDestinations \cup {tasks[w].ask.client}
<1>1. /\ tasks[w].pc = "write" /\ tasks[w].now = Absent
      /\ tasks[w].todo = {} /\ tasks[w].left = {}
      /\ UNCHANGED Aside /\ UNCHANGED <<filters, ours, lost>>
  BY DEF EndWrite, Aside, world
<1>2. tasks \in [Workers -> Tasks]
  BY DEF TypeInv, TypeOK, Tasks
<1>3. CASE tasks[w].ask # Absent /\ ~tasks[w].err /\ tasks[w].more # {}
  <2>1. PICK p \in tasks[w].more :
           tasks' = [tasks EXCEPT ![w] = Writing(p, tasks[w].more \ {p}, tasks[w].ask,
                                                {tasks[w].ask.client})]
    BY <1>3 DEF EndWrite
  <2>2. /\ tasks'[w] = Writing(p, tasks[w].more \ {p}, tasks[w].ask, {tasks[w].ask.client})
        /\ \A u \in Workers \ {w} : tasks'[u] = tasks[u]
    BY <1>2, <2>1
  <2>3. UNCHANGED sourceToDestinations
    BY <1>3 DEF EndWrite
  <2>4. Begins(tasks'[w], p, tasks[w].more \ {p}, tasks[w].ask, {tasks[w].ask.client})
    BY <2>2, WritingBegins
  <2>5. \E q \in tasks[w].more :
           Begins(tasks'[w], q, tasks[w].more \ {q}, tasks[w].ask, {tasks[w].ask.client})
    BY <2>4
  <2>6. QED
    BY <1>1, <1>3, <2>2, <2>3, <2>5
<1>4. CASE ~(tasks[w].ask # Absent /\ ~tasks[w].err /\ tasks[w].more # {})
  <2>1. tasks' = [tasks EXCEPT ![w] = Idle]
    BY <1>4 DEF EndWrite
  <2>2. tasks'[w] = Idle /\ \A u \in Workers \ {w} : tasks'[u] = tasks[u]
    BY <1>2, <2>1
  <2>3. \/ UNCHANGED sourceToDestinations
        \/ /\ tasks[w].ask # Absent
           /\ sourceToDestinations' = sourceToDestinations \cup {tasks[w].ask.client}
    BY <1>4 DEF EndWrite
  <2>4. QED
    BY <1>1, <1>4, <2>2, <2>3
<1>5. QED
  BY <1>3, <1>4

\* A task that begins to delete the filters of the policy of an event
Clears(t, item) == t.pc = "delete" /\ t.item = item /\ t.batch = {}

LEMMA TakePolicyFacts ==
    ASSUME TypeInv, TakePolicy, NEW item, item = Head(rpQ)
    PROVE  /\ rpQ # << >> /\ rpQ' = Tail(rpQ) /\ tasks["policy"] = Idle
           /\ item \in Item /\ item.obj \in Policy /\ item.obj.name \in Names
           /\ UNCHANGED <<live, wanted, homes, clock, filters, depQ, filterCache,
                          identityDependency, identityCluster, sourceToDestinations, ours>>
           /\ \A u \in Workers \ {"policy"} : tasks'[u] = tasks[u]
           /\ \/ UNCHANGED tasks /\ item.type # "Delete"
              \/ Clears(tasks'["policy"], item)
              \/ /\ Begins(tasks'["policy"], item.obj, {}, Absent, identityDependency)
                 /\ item.type # "Delete" /\ ~item.obj.ignore
           /\ IF item.type = "Delete" THEN UNCHANGED rpCache
              ELSE rpCache' = [rpCache EXCEPT ![item.obj.name] = item.obj]
<1>1. /\ rpQ # << >> /\ rpQ' = Tail(rpQ) /\ tasks["policy"] = Idle
      /\ IF item.type = "Delete" THEN StartDelete(item) ELSE AddOrUpdate(item)
      /\ UNCHANGED <<live, wanted, homes, clock, filters, depQ, filterCache,
                     identityDependency, identityCluster, sourceToDestinations, ours>>
  BY DEF TakePolicy, world
<1>2. item \in Item /\ item.obj \in Policy /\ item.obj.name \in Names
  <2>1. item \in Item
    BY <1>1 DEF TypeInv, TypeOK
  <2>2. QED
    BY <2>1 DEF Item, Policy
<1>3. \/ UNCHANGED tasks /\ item.type # "Delete"
      \/ tasks' = [tasks EXCEPT !["policy"] = Deleting(item)]
      \/ /\ tasks' = [tasks EXCEPT !["policy"] = Writing(item.obj, {}, Absent, identityDependency)]
         /\ item.type # "Delete" /\ ~item.obj.ignore
  BY <1>1 DEF StartDelete, AddOrUpdate, UpdatedAsDeleted
<1>4. tasks \in [Workers -> Tasks] /\ "policy" \in Workers
  BY DEF TypeInv, TypeOK, Tasks, Workers
<1>5. Clears(Deleting(item), item)
  BY DEF Clears, Deleting
<1>6. /\ \A u \in Workers \ {"policy"} : tasks'[u] = tasks[u]
      /\ \/ UNCHANGED tasks /\ item.type # "Delete"
         \/ Clears(tasks'["policy"], item)
         \/ /\ Begins(tasks'["policy"], item.obj, {}, Absent, identityDependency)
            /\ item.type # "Delete" /\ ~item.obj.ignore
  <2>1. CASE UNCHANGED tasks /\ item.type # "Delete"
    BY <2>1
  <2>2. CASE tasks' = [tasks EXCEPT !["policy"] = Deleting(item)]
    <3>1. /\ tasks'["policy"] = Deleting(item)
          /\ \A u \in Workers \ {"policy"} : tasks'[u] = tasks[u]
      BY <1>4, <2>2
    <3>2. QED
      BY <1>5, <3>1
  <2>3. CASE /\ tasks' = [tasks EXCEPT !["policy"] = Writing(item.obj, {}, Absent, identityDependency)]
             /\ item.type # "Delete" /\ ~item.obj.ignore
    <3>1. /\ tasks'["policy"] = Writing(item.obj, {}, Absent, identityDependency)
          /\ \A u \in Workers \ {"policy"} : tasks'[u] = tasks[u]
      BY <1>4, <2>3
    <3>2. QED
      BY <2>3, <3>1, WritingBegins
  <2>4. QED
    BY <1>3, <2>1, <2>2, <2>3
<1>7. IF item.type = "Delete" THEN UNCHANGED rpCache
      ELSE rpCache' = [rpCache EXCEPT ![item.obj.name] = item.obj]
  BY <1>1 DEF StartDelete, AddOrUpdate, PutPolicy
<1>8. QED
  BY <1>1, <1>2, <1>6, <1>7

\* What it means that no reason is noted
LEMMA TakePolicyCalm ==
    ASSUME TypeInv, TakePolicy, NEW item, item = Head(rpQ), lost' = {}
    PROVE  /\ \A u \in Workers \ {"policy"} : tasks[u] = Idle
           /\ item.type = "Delete" /\ item.tries > 0 => live[item.obj.name] = Absent
           /\ IF item.type = "Delete" \/ item.obj.ignore
              THEN \/ /\ tasks'["policy"].pc = "delete"
                      /\ \A f \in Of(item.obj.name) : f.key \in ours
                   \/ UNCHANGED tasks /\ item.type = "Add"
              ELSE /\ \/ UNCHANGED tasks /\ identityDependency = {}
                      \/ tasks'["policy"].pc = "write"
                   /\ \A f \in Of(item.obj.name) : f.key.plugin = item.obj.plugin
<1>1. IF item.type = "Delete" THEN StartDelete(item) ELSE AddOrUpdate(item)
  BY DEF TakePolicy
<1>2. ~(item.type # "Delete" /\ readOnly)
  BY <1>1 DEF AddOrUpdate
<1>3. Racing("policy") = {}
  BY <1>1, <1>2 DEF StartDelete, AddOrUpdate, UpdatedAsDeleted
<1>4. \A u \in Workers \ {"policy"} : tasks[u] = Idle
  BY <1>3 DEF Racing, Note
<1>5. tasks \in [Workers -> Tasks] /\ "policy" \in Workers
  BY DEF TypeInv, TypeOK, Tasks, Workers
<1>6. CASE item.type = "Delete"
  <2>1. /\ tasks' = [tasks EXCEPT !["policy"] = Deleting(item)]
        /\ Note("forgotten", \E f \in Of(item.obj.name) : f.key \notin ours) = {}
        /\ Note("outdated", item.tries > 0 /\ live[item.obj.name] # Absent) = {}
    BY <1>1, <1>6 DEF StartDelete
  <2>2. tasks'["policy"].pc = "delete"
    BY <1>5, <2>1 DEF Deleting
  <2>3. /\ \A f \in Of(item.obj.name) : f.key \in ours
        /\ item.tries > 0 => live[item.obj.name] = Absent
    BY <2>1 DEF Note
  <2>4. QED
    BY <1>4, <1>6, <2>2, <2>3
<1>7. CASE item.type # "Delete" /\ item.obj.ignore
  <2>1. CASE item.type = "Add"
    <3>1. UNCHANGED tasks
      BY <1>1, <1>2, <1>7, <2>1 DEF AddOrUpdate
    <3>2. QED
      BY <1>4, <1>7, <2>1, <3>1
  <2>2. CASE item.type # "Add"
    <3>1. /\ tasks' = [tasks EXCEPT !["policy"] = Deleting(item)]
          /\ Note("forgotten", \E f \in Of(item.obj.name) : f.key \notin ours) = {}
      BY <1>1, <1>2, <1>7, <2>2 DEF AddOrUpdate, UpdatedAsDeleted
    <3>2. tasks'["policy"].pc = "delete"
      BY <1>5, <3>1 DEF Deleting
    <3>3. \A f \in Of(item.obj.name) : f.key \in ours
      BY <3>1 DEF Note
    <3>4. QED
      BY <1>4, <1>7, <3>2, <3>3
  <2>3. QED
    BY <2>1, <2>2
<1>8. CASE item.type # "Delete" /\ ~item.obj.ignore
  <2>1. /\ tasks' = IF identityDependency = {} THEN tasks
                    ELSE [tasks EXCEPT !["policy"] =
                            Writing(item.obj, {}, Absent, identityDependency)]
        /\ Note("plugin", \E f \in Of(item.obj.name) : f.key.plugin # item.obj.plugin) = {}
    BY <1>1, <1>2, <1>8 DEF AddOrUpdate
  <2>2. \/ UNCHANGED tasks /\ identityDependency = {}
        \/ tasks'["policy"].pc = "write"
    BY <1>5, <2>1 DEF Writing
  <2>3. \A f \in Of(item.obj.name) : f.key.plugin = item.obj.plugin
    BY <2>1 DEF Note
  <2>4. QED
    BY <1>4, <1>8, <2>2, <2>3
<1>9. QED
  BY <1>6, <1>7, <1>8

LEMMA TakeDependencyFacts ==
    ASSUME TypeInv, TakeDependency, NEW ask, ask = Head(depQ)
    PROVE  /\ depQ # << >> /\ depQ' = Tail(depQ) /\ tasks["dependency"] = Idle
           /\ ask \in Ask /\ ask.client \in Clients
           /\ UNCHANGED <<live, wanted, homes, clock, filters, rpQ, rpCache, filterCache,
                          identityCluster, ours>>
           /\ identityDependency' = identityDependency \cup {ask.client}
           /\ \A u \in Workers \ {"dependency"} : tasks'[u] = tasks[u]
           /\ \/ /\ UNCHANGED tasks
                 /\ sourceToDestinations' = sourceToDestinations \cup {ask.client}
                 /\ lost' = {} => GetForIdentity = {} \/ Due(ask.client) \subseteq filters
              \/ /\ UNCHANGED sourceToDestinations
                 /\ \E p \in GetForIdentity :
                      Begins(tasks'["dependency"], p, GetForIdentity \ {p}, ask, {ask.client})
                 /\ lost' = {} => /\ \A u \in Workers \ {"dependency"} : tasks[u] = Idle
                                  /\ \A p \in GetForIdentity : ~p.ignore
                                  /\ Gone = {}
<1>1. /\ depQ # << >> /\ depQ' = Tail(depQ) /\ tasks["dependency"] = Idle
      /\ identityDependency' = identityDependency \cup {ask.client}
      /\ UNCHANGED <<live, wanted, homes, clock, filters, rpQ, rpCache, filterCache,
                     identityCluster, ours>>
  BY DEF TakeDependency, world
<1>2. ask \in Ask /\ ask.client \in Clients
  <2>1. ask \in Ask
    BY <1>1 DEF TypeInv, TypeOK
  <2>2. QED
    BY <2>1 DEF Ask
<1>3. tasks \in [Workers -> Tasks] /\ "dependency" \in Workers
  BY DEF TypeInv, TypeOK, Tasks, Workers
<1>4. CASE warm \/ ~IsNew(ask) \/ GetForIdentity = {}
  <2>1. /\ UNCHANGED tasks
        /\ sourceToDestinations' = sourceToDestinations \cup {ask.client}
        /\ lost' = lost \cup Note("warmup", GetForIdentity # {} /\ ~ (Due(ask.client) \subseteq filters))
    BY <1>4 DEF TakeDependency
  <2>2. lost' = {} => GetForIdentity = {} \/ Due(ask.client) \subseteq filters
    BY <2>1 DEF Note
  <2>3. QED
    BY <1>1, <1>2, <2>1, <2>2
<1>5. CASE ~(warm \/ ~IsNew(ask) \/ GetForIdentity = {})
  <2>1. PICK p \in GetForIdentity :
           tasks' = [tasks EXCEPT !["dependency"] =
                       Writing(p, GetForIdentity \ {p}, ask, {ask.client})]
    BY <1>5 DEF TakeDependency
  <2>2. /\ UNCHANGED sourceToDestinations
        /\ lost' = lost \cup Racing("dependency")
                     \cup Note("ignored", \E q \in GetForIdentity : q.ignore)
                     \cup Note("removed", Gone # {})
    BY <1>5 DEF TakeDependency
  <2>3. /\ tasks'["dependency"] = Writing(p, GetForIdentity \ {p}, ask, {ask.client})
        /\ \A u \in Workers \ {"dependency"} : tasks'[u] = tasks[u]
    BY <1>3, <2>1
  <2>4. Begins(tasks'["dependency"], p, GetForIdentity \ {p}, ask, {ask.client})
    BY <2>3, WritingBegins
  <2>5. lost' = {} => /\ \A u \in Workers \ {"dependency"} : tasks[u] = Idle
                      /\ \A q \in GetForIdentity : ~q.ignore
                      /\ Gone = {}
    BY <2>2 DEF Racing, Note
  <2>6. QED
    BY <1>1, <1>2, <2>1, <2>2, <2>3, <2>4, <2>5
<1>6. QED
  BY <1>4, <1>5

LEMMA DeletingFacts ==
    ASSUME TypeInv, NEW w \in Workers, DeleteCluster(w) \/ DeleteFilter(w) \/ DeleteFails(w)
    PROVE  /\ tasks[w].pc = "delete" /\ tasks'[w].pc = "delete" /\ tasks'[w].item = tasks[w].item
           /\ UNCHANGED Aside /\ UNCHANGED <<filterCache, sourceToDestinations, ours, lost>>
           /\ \A u \in Workers \ {w} : tasks'[u] = tasks[u]
           /\ filters' \subseteq filters
           /\ \A f \in filters \ filters' : f.key \in tasks[w].batch
           /\ \A key \in tasks'[w].batch : key \in tasks[w].batch \/ key \in filterCache[tasks[w].item.obj.name]
<1>1. /\ tasks[w].pc = "delete"
      /\ UNCHANGED Aside /\ UNCHANGED <<filterCache, sourceToDestinations, ours, lost>>
      /\ filters' \subseteq filters
      /\ \A f \in filters \ filters' : f.key \in tasks[w].batch
  BY DEF DeleteCluster, DeleteFilter, DeleteFails, Aside, world, caches
<1>2. tasks[w] \in DeleteTask /\ tasks[w].err \in BOOLEAN /\ tasks \in [Workers -> Tasks]
  BY <1>1, DeleteType DEF TypeInv, TypeOK, Tasks
<1>3. CASE DeleteCluster(w)
  <2>1. PICK k \in tasks[w].todo :
           tasks' = [tasks EXCEPT ![w].todo = @ \ {k},
                       ![w].batch = FiltersIn(tasks[w].item.obj.name, k)]
    BY <1>3 DEF DeleteCluster
  <2> DEFINE t == [tasks[w] EXCEPT !.todo = @ \ {k}, !.batch = FiltersIn(tasks[w].item.obj.name, k)]
  <2>2. tasks' = [tasks EXCEPT ![w] = t]
    BY <1>2, <2>1
  <2>3. /\ t.pc = "delete" /\ t.item = tasks[w].item
        /\ t.batch = FiltersIn(tasks[w].item.obj.name, k)
    BY <1>1, <1>2 DEF DeleteTask
  <2> HIDE DEF t
  <2>4. tasks'[w] = t /\ \A u \in Workers \ {w} : tasks'[u] = tasks[u]
    BY <1>2, <2>2
  <2>5. QED
    BY <1>1, <2>3, <2>4 DEF FiltersIn
<1>4. CASE DeleteFilter(w) \/ DeleteFails(w)
  <2>1. PICK key \in tasks[w].batch, err \in BOOLEAN :
           tasks' = [tasks EXCEPT ![w].batch = @ \ {key}, ![w].err = err]
    BY <1>2, <1>4 DEF DeleteFilter, DeleteFails
  <2> DEFINE t == [tasks[w] EXCEPT !.batch = @ \ {key}, !.err = err]
  <2>2. tasks' = [tasks EXCEPT ![w] = t]
    BY <1>2, <2>1
  <2>3. t.pc = "delete" /\ t.item = tasks[w].item /\ t.batch = tasks[w].batch \ {key}
    BY <1>1, <1>2 DEF DeleteTask
  <2> HIDE DEF t
  <2>4. tasks'[w] = t /\ \A u \in Workers \ {w} : tasks'[u] = tasks[u]
    BY <1>2, <2>2
  <2>5. QED
    BY <1>1, <2>3, <2>4
<1>5. QED
  BY <1>3, <1>4

LEMMA EndDeleteFacts ==
    ASSUME TypeInv, NEW w \in Workers, EndDelete(w)
    PROVE  /\ tasks[w].pc = "delete" /\ tasks'[w] = Idle
           /\ tasks[w].todo = {} /\ tasks[w].batch = {}
           /\ tasks[w].item \in Item /\ tasks[w].item.obj.name \in Names
           /\ UNCHANGED <<live, wanted, homes, filters, depQ, identityDependency,
                          identityCluster, sourceToDestinations, ours>>
           /\ \A u \in Workers \ {w} : tasks'[u] = tasks[u]
           /\ \/ UNCHANGED <<rpCache, filterCache>>
              \/ /\ ~tasks[w].err
                 /\ rpCache' = [rpCache EXCEPT ![tasks[w].item.obj.name] = Absent]
                 /\ filterCache' = [filterCache EXCEPT ![tasks[w].item.obj.name] = {}]
           /\ \/ UNCHANGED rpQ
              \/ /\ tasks[w].item.type = "Delete"
                 /\ rpQ' = Append(rpQ, [tasks[w].item EXCEPT !.tries = @ + 1])
           /\ lost' = {} => \/ ~tasks[w].err
                            \/ Of(tasks[w].item.obj.name) = {}
                            \/ /\ tasks[w].item.type = "Delete"
                               /\ rpQ' = Append(rpQ, [tasks[w].item EXCEPT !.tries = @ + 1])
<1>1. /\ tasks[w].pc = "delete" /\ tasks' = [tasks EXCEPT ![w] = Idle]
      /\ tasks[w].todo = {} /\ tasks[w].batch = {}
      /\ UNCHANGED <<live, wanted, homes, filters, depQ, identityDependency,
                     identityCluster, sourceToDestinations, ours>>
  BY DEF EndDelete, Ended, world
<1>2. tasks \in [Workers -> Tasks] /\ tasks[w].item \in Item /\ tasks[w].item.obj.name \in Names
  BY <1>1, DeleteType DEF TypeInv, TypeOK, Tasks
<1>3. tasks'[w] = Idle /\ \A u \in Workers \ {w} : tasks'[u] = tasks[u]
  BY <1>1, <1>2
<1>4. \/ UNCHANGED <<rpCache, filterCache>>
      \/ /\ ~tasks[w].err
         /\ rpCache' = [rpCache EXCEPT ![tasks[w].item.obj.name] = Absent]
         /\ filterCache' = [filterCache EXCEPT ![tasks[w].item.obj.name] = {}]
  BY DEF EndDelete, DeletePolicy, DeleteFilters
<1>5. \/ UNCHANGED rpQ
      \/ /\ tasks[w].item.type = "Delete"
         /\ rpQ' = Append(rpQ, [tasks[w].item EXCEPT !.tries = @ + 1])
  BY DEF EndDelete, Ended, Retried
<1>6. lost' = {} => \/ ~tasks[w].err
                    \/ Of(tasks[w].item.obj.name) = {}
                    \/ /\ tasks[w].item.type = "Delete"
                       /\ rpQ' = Append(rpQ, [tasks[w].item EXCEPT !.tries = @ + 1])
  BY DEF EndDelete, Ended, Retried, Note
<1>7. QED
  BY <1>1, <1>2, <1>3, <1>4, <1>5, <1>6

-----------------------------------------------------------------------------
(* Everything has its reason in the world                                  *)

\* The task of worker w changes, the world and the queues do not
LEMMA TaskGround ==
    ASSUME TypeInv, Grounded, FiltersGrounded, TasksGrounded, NEW w \in Workers,
           UNCHANGED Aside, \A u \in Workers \ {w} : tasks'[u] = tasks[u],
           tasks'[w].pc = "write" => WriteGrounded(tasks'[w]),
           tasks'[w].pc = "delete" =>
              \A key \in tasks'[w].batch : key.name = tasks'[w].item.obj.name,
           \A f \in filters' : f \in filters \/ Entitled(f.key.at, f.key.client),
           sourceToDestinations' \subseteq identityDependency,
           \A n \in Names : \A key \in filterCache'[n] : key.name = n
    PROVE  Grounded' /\ FiltersGrounded' /\ TasksGrounded'
<1>1. Grounded'
  BY DEF Grounded, Aside
<1>2. FiltersGrounded'
  BY DEF FiltersGrounded, Entitled, Aside
<1>3. TasksGrounded'
  BY DEF TasksGrounded, WriteGrounded, Entitled, Aside
<1>4. QED
  BY <1>1, <1>2, <1>3

LEMMA WritesGround ==
    ASSUME TypeInv, Grounded, FiltersGrounded, TasksGrounded, NEW w \in Workers,
           NextDependent(w) \/ Prepare(w) \/ Write(w) \/ WriteFails(w) \/ EndWrite(w)
    PROVE  Grounded' /\ FiltersGrounded' /\ TasksGrounded'
<1>1. tasks[w].pc = "write"
  BY DEF NextDependent, Prepare, Write, WriteFails, EndWrite
<1>2. /\ WriteGrounded(tasks[w]) /\ sourceToDestinations \subseteq identityDependency
      /\ \A n \in Names : \A key \in filterCache[n] : key.name = n
      /\ \A c \in Clients : identityCluster[c] \subseteq homes[c]
      /\ wanted \subseteq Clients /\ identityDependency \subseteq wanted
  BY <1>1 DEF TasksGrounded, Grounded, TypeInv, TypeOK
<1>3. /\ tasks[w].obj \in Policy /\ tasks[w].left \subseteq Versions /\ tasks[w].todo \subseteq Clusters \X Clients
      /\ tasks[w].left # {} => tasks[w].pair \in Enabled \X Clients
  BY <1>1, WriteType DEF TypeInv, InEnabled
<1>4. CASE NextDependent(w)
  <2>1. /\ UNCHANGED Aside /\ UNCHANGED <<filters, sourceToDestinations>>
        /\ Goes(w) /\ tasks'[w].now = Absent
    BY <1>4, NextDependentFacts
  <2>2. PICK p \in tasks[w].todo :
           /\ tasks'[w].todo = tasks[w].todo \ {p} /\ tasks'[w].pair = p
           /\ tasks'[w].left = IF p[1] \in identityCluster[p[2]] THEN Versions ELSE {}
    BY <1>4, NextDependentFacts
  <2>3. UNCHANGED filterCache
    BY <1>4 DEF NextDependent, caches
  <2>4. p[1] \in Enabled /\ p[2] \in wanted
    BY <1>2, <2>2 DEF WriteGrounded
  <2>5. tasks'[w].left # {} => Entitled(tasks'[w].pair[1], tasks'[w].pair[2])
    BY <1>2, <2>2, <2>4 DEF Entitled
  <2>6. WriteGrounded(tasks'[w])
    BY <1>2, <2>1, <2>2, <2>5 DEF WriteGrounded, Goes
  <2>7. QED
    BY <1>2, <2>1, <2>3, <2>6, TaskGround DEF Goes
<1>5. CASE Prepare(w)
  <2>1. /\ UNCHANGED Aside /\ UNCHANGED <<filters, sourceToDestinations>>
        /\ Goes(w) /\ tasks'[w].todo = tasks[w].todo /\ tasks'[w].pair = tasks[w].pair
    BY <1>5, PrepareFacts
  <2>2. PICK v \in tasks[w].left :
           /\ tasks'[w].left = tasks[w].left \ {v}
           /\ tasks'[w].now = KeyOf(tasks[w].obj, tasks[w].pair, v)
    BY <1>5, PrepareFacts
  <2>3. Entitled(tasks[w].pair[1], tasks[w].pair[2])
    BY <1>2, <2>2 DEF WriteGrounded
  <2>4. /\ Entitled(tasks'[w].now.at, tasks'[w].now.client)
        /\ tasks'[w].now.name = tasks[w].obj.name /\ tasks'[w].now.plugin = tasks[w].obj.plugin
    BY <2>2, <2>3 DEF KeyOf
  <2>5. WriteGrounded(tasks'[w])
    BY <1>2, <2>1, <2>2, <2>4 DEF WriteGrounded, Goes
  <2>6. \A n \in Names : \A key \in filterCache'[n] : key.name = n
    <3>1. PICK u \in Versions : PutFilter(KeyOf(tasks[w].obj, tasks[w].pair, u))
      BY <1>3, <1>5 DEF Prepare
    <3> DEFINE key == KeyOf(tasks[w].obj, tasks[w].pair, u)
    <3>2. filterCache' = [filterCache EXCEPT ![key.name] = @ \cup {key}]
      BY <3>1 DEF PutFilter
    <3>3. \A n \in Names : filterCache'[n] = IF n = key.name THEN filterCache[n] \cup {key} ELSE filterCache[n]
      BY <3>2 DEF TypeInv, TypeOK
    <3>4. key.name = tasks[w].obj.name
      BY DEF KeyOf
    <3> HIDE DEF key
    <3>5. \A n \in Names : \A k \in filterCache[n] : k.name = n
      BY <1>2
    <3>6. QED
      BY <3>3, <3>5
  <2>7. QED
    BY <1>2, <2>1, <2>5, <2>6, TaskGround DEF Goes
<1>6. CASE Write(w) \/ WriteFails(w)
  <2>1. /\ UNCHANGED Aside /\ UNCHANGED sourceToDestinations /\ tasks[w].now # Absent
        /\ Goes(w) /\ tasks'[w].now = Absent
        /\ tasks'[w].todo = tasks[w].todo /\ tasks'[w].pair = tasks[w].pair
        /\ tasks'[w].left = tasks[w].left
        /\ \/ filters' = (filters \ {f \in filters : f.key = tasks[w].now})
                           \cup {FilterOf(tasks[w].obj, tasks[w].now)}
           \/ UNCHANGED filters
    BY <1>6, WriteFacts
  <2>2. UNCHANGED filterCache
    BY <1>6 DEF Write, WriteFails, caches
  <2>3. WriteGrounded(tasks'[w])
    BY <1>2, <2>1 DEF WriteGrounded, Goes
  <2>4. FilterOf(tasks[w].obj, tasks[w].now).key = tasks[w].now
    BY DEF FilterOf
  <2>5. Entitled(tasks[w].now.at, tasks[w].now.client)
    BY <1>2, <2>1 DEF WriteGrounded
  <2>6. \A f \in filters' : f \in filters \/ Entitled(f.key.at, f.key.client)
    BY <2>1, <2>4, <2>5
  <2>7. QED
    BY <1>2, <2>1, <2>2, <2>3, <2>6, TaskGround DEF Goes
<1>7. CASE EndWrite(w)
  <2>1. /\ UNCHANGED Aside /\ UNCHANGED filters
        /\ \A u \in Workers \ {w} : tasks'[u] = tasks[u]
        /\ \/ /\ tasks[w].ask # Absent /\ UNCHANGED sourceToDestinations
              /\ \E p \in tasks[w].more :
                   Begins(tasks'[w], p, tasks[w].more \ {p}, tasks[w].ask, {tasks[w].ask.client})
           \/ /\ tasks'[w] = Idle
              /\ \/ UNCHANGED sourceToDestinations
                 \/ /\ tasks[w].ask # Absent
                    /\ sourceToDestinations' = sourceToDestinations \cup {tasks[w].ask.client}
    BY <1>7, EndWriteFacts
  <2>2. UNCHANGED filterCache
    BY <1>7 DEF EndWrite
  <2>3. tasks[w].ask # Absent => tasks[w].ask.client \in identityDependency
    BY <1>2 DEF WriteGrounded
  <2>4. sourceToDestinations' \subseteq identityDependency
    BY <1>2, <2>1, <2>3
  <2>5. CASE tasks'[w] = Idle
    BY <1>2, <2>1, <2>2, <2>4, <2>5, TaskGround DEF Idle
  <2>6. ASSUME tasks[w].ask # Absent, NEW p \in tasks[w].more,
               Begins(tasks'[w], p, tasks[w].more \ {p}, tasks[w].ask, {tasks[w].ask.client})
        PROVE  Grounded' /\ FiltersGrounded' /\ TasksGrounded'
    <3>1. WriteGrounded(tasks'[w])
      BY <1>2, <2>3, <2>6 DEF WriteGrounded, Begins
    <3>2. tasks'[w].pc = "write"
      BY <2>6 DEF Begins
    <3>3. QED
      BY <1>2, <2>1, <2>2, <2>4, <3>1, <3>2, TaskGround
  <2>7. QED
    BY <2>1, <2>5, <2>6
<1>8. QED
  BY <1>4, <1>5, <1>6, <1>7

LEMMA DeletesGround ==
    ASSUME TypeInv, Grounded, FiltersGrounded, TasksGrounded, NEW w \in Workers,
           DeleteCluster(w) \/ DeleteFilter(w) \/ DeleteFails(w) \/ EndDelete(w)
    PROVE  Grounded' /\ FiltersGrounded' /\ TasksGrounded'
<1>1. CASE DeleteCluster(w) \/ DeleteFilter(w) \/ DeleteFails(w)
  <2>1. /\ tasks[w].pc = "delete" /\ tasks'[w].pc = "delete" /\ tasks'[w].item = tasks[w].item
        /\ UNCHANGED Aside /\ UNCHANGED <<filterCache, sourceToDestinations>>
        /\ \A u \in Workers \ {w} : tasks'[u] = tasks[u]
        /\ filters' \subseteq filters
        /\ \A key \in tasks'[w].batch : key \in tasks[w].batch \/ key \in filterCache[tasks[w].item.obj.name]
    BY <1>1, DeletingFacts
  <2>2. /\ tasks[w].item.obj.name \in Names
        /\ \A key \in tasks[w].batch : key.name = tasks[w].item.obj.name
        /\ \A n \in Names : \A key \in filterCache[n] : key.name = n
        /\ sourceToDestinations \subseteq identityDependency
    BY <2>1, DeleteType DEF TasksGrounded, Grounded, TypeInv
  <2>3. \A key \in tasks'[w].batch : key.name = tasks'[w].item.obj.name
    BY <2>1, <2>2
  <2>4. QED
    BY <2>1, <2>2, <2>3, TaskGround
<1>2. CASE EndDelete(w)
  <2>1. /\ tasks'[w] = Idle
        /\ tasks[w].item \in Item /\ tasks[w].item.obj.name \in Names
        /\ UNCHANGED <<live, wanted, homes, filters, depQ, identityDependency,
                       identityCluster, sourceToDestinations, ours>>
        /\ \A u \in Workers \ {w} : tasks'[u] = tasks[u]
        /\ \/ UNCHANGED <<rpCache, filterCache>>
           \/ /\ rpCache' = [rpCache EXCEPT ![tasks[w].item.obj.name] = Absent]
              /\ filterCache' = [filterCache EXCEPT ![tasks[w].item.obj.name] = {}]
        /\ \/ UNCHANGED rpQ
           \/ /\ tasks[w].item.type = "Delete"
              /\ rpQ' = Append(rpQ, [tasks[w].item EXCEPT !.tries = @ + 1])
    BY <1>2, EndDeleteFacts
  <2>2. /\ rpCache \in [Names -> Policy \cup {Absent}] /\ filterCache \in [Names -> SUBSET Key]
        /\ rpQ \in Seq(Item)
    BY DEF TypeInv, TypeOK
  <2>3. \A n \in Names : /\ rpCache'[n] \in {rpCache[n], Absent}
                         /\ filterCache'[n] \in {filterCache[n], {}}
    BY <2>1, <2>2
  <2>4. \A i \in DOMAIN rpQ' : rpQ'[i].tries > 0 => rpQ'[i].type = "Delete"
    <3>1. \A i \in DOMAIN rpQ : rpQ[i].tries > 0 => rpQ[i].type = "Delete"
      BY DEF Grounded
    <3>2. CASE UNCHANGED rpQ
      BY <3>1, <3>2
    <3>3. CASE /\ tasks[w].item.type = "Delete"
               /\ rpQ' = Append(rpQ, [tasks[w].item EXCEPT !.tries = @ + 1])
      <4> DEFINE new == [tasks[w].item EXCEPT !.tries = @ + 1]
      <4>1. new \in Item /\ new.type = "Delete"
        BY <2>1, <3>3 DEF Item
      <4> HIDE DEF new
      <4>2. rpQ' = Append(rpQ, new)
        BY <3>3 DEF new
      <4>3. QED
        BY <2>2, <3>1, <4>1, <4>2
    <3>4. QED
      BY <2>1, <3>2, <3>3
  <2>5. Grounded'
    BY <2>1, <2>3, <2>4 DEF Grounded
  <2>6. FiltersGrounded'
    BY <2>1 DEF FiltersGrounded, Entitled
  <2>7. TasksGrounded'
    BY <2>1 DEF TasksGrounded, WriteGrounded, Entitled, Idle
  <2>8. QED
    BY <2>5, <2>6, <2>7
<1>3. QED
  BY <1>1, <1>2

\* What is left of a queue when its head is taken
LEMMA TailFacts ==
    ASSUME NEW S, NEW q \in Seq(S), q # << >>
    PROVE  /\ Tail(q) \in Seq(S) /\ Head(q) = q[1] /\ 1 \in DOMAIN q
           /\ \A i \in DOMAIN Tail(q) : i + 1 \in DOMAIN q /\ Tail(q)[i] = q[i + 1]
           /\ \A i \in DOMAIN q : i # 1 => i - 1 \in DOMAIN Tail(q) /\ Tail(q)[i - 1] = q[i]
<1>1. Len(q) \in Nat /\ Len(q) # 0 /\ DOMAIN q = 1 .. Len(q)
  OBVIOUS
<1>2. /\ Tail(q) \in Seq(S) /\ Len(Tail(q)) = Len(q) - 1 /\ DOMAIN Tail(q) = 1 .. Len(q) - 1
      /\ \A i \in 1 .. Len(q) - 1 : Tail(q)[i] = q[i + 1]
  OBVIOUS
<1>3. QED
  BY <1>1, <1>2

LEMMA AppendFacts ==
    ASSUME NEW S, NEW q \in Seq(S), NEW x \in S
    PROVE  /\ Append(q, x) \in Seq(S) /\ DOMAIN Append(q, x) = DOMAIN q \cup {Len(q) + 1}
           /\ Len(q) + 1 \notin DOMAIN q /\ Append(q, x)[Len(q) + 1] = x
           /\ \A i \in DOMAIN q : i < Len(q) + 1 /\ Append(q, x)[i] = q[i]
  OBVIOUS

LEMMA TakesGround ==
    ASSUME TypeInv, Grounded, FiltersGrounded, TasksGrounded, TakePolicy \/ TakeDependency
    PROVE  Grounded' /\ FiltersGrounded' /\ TasksGrounded'
<1>1. CASE TakePolicy
  <2> DEFINE item == Head(rpQ)
  <2>1. /\ rpQ # << >> /\ rpQ' = Tail(rpQ)
        /\ item \in Item /\ item.obj \in Policy /\ item.obj.name \in Names
        /\ UNCHANGED <<live, wanted, homes, filters, depQ, filterCache,
                       identityDependency, identityCluster, sourceToDestinations>>
        /\ \A u \in Workers \ {"policy"} : tasks'[u] = tasks[u]
        /\ \/ UNCHANGED tasks
           \/ Clears(tasks'["policy"], item)
           \/ Begins(tasks'["policy"], item.obj, {}, Absent, identityDependency)
        /\ IF item.type = "Delete" THEN UNCHANGED rpCache
           ELSE rpCache' = [rpCache EXCEPT ![item.obj.name] = item.obj]
    BY <1>1, TakePolicyFacts
  <2>2. rpCache \in [Names -> Policy \cup {Absent}] /\ rpQ \in Seq(Item)
    BY DEF TypeInv, TypeOK
  <2>3. \A i \in DOMAIN rpQ' : i + 1 \in DOMAIN rpQ /\ rpQ'[i] = rpQ[i + 1]
    BY <2>1, <2>2, TailFacts
  <2>4. \A i \in DOMAIN rpQ' : rpQ'[i].tries > 0 => rpQ'[i].type = "Delete"
    BY <2>3 DEF Grounded
  <2>5. \A n \in Names : rpCache'[n] # Absent => rpCache'[n].name = n
    <3>1. \A n \in Names : rpCache[n] # Absent => rpCache[n].name = n
      BY DEF Grounded
    <3>2. \A n \in Names : rpCache'[n] = rpCache[n] \/ (n = item.obj.name /\ rpCache'[n] = item.obj)
      BY <2>1, <2>2
    <3>3. QED
      BY <3>1, <3>2
  <2>6. Grounded'
    BY <2>1, <2>4, <2>5 DEF Grounded
  <2>7. FiltersGrounded'
    BY <2>1 DEF FiltersGrounded, Entitled
  <2>8. TasksGrounded'
    <3>1. identityDependency \subseteq wanted
      BY DEF Grounded
    <3>2. CASE UNCHANGED tasks
      BY <2>1, <3>2 DEF TasksGrounded, WriteGrounded, Entitled
    <3>3. CASE Clears(tasks'["policy"], item)
      BY <2>1, <3>3 DEF TasksGrounded, WriteGrounded, Entitled, Clears
    <3>4. CASE Begins(tasks'["policy"], item.obj, {}, Absent, identityDependency)
      <4>1. WriteGrounded(tasks["policy"])' /\ tasks'["policy"].pc = "write"
        BY <2>1, <3>1, <3>4 DEF WriteGrounded, Begins
      <4>2. QED
        BY <2>1, <4>1 DEF TasksGrounded, WriteGrounded, Entitled
    <3>5. QED
      BY <2>1, <3>2, <3>3, <3>4
  <2>9. QED
    BY <2>6, <2>7, <2>8
<1>2. CASE TakeDependency
  <2> DEFINE ask == Head(depQ)
  <2>1. /\ depQ # << >> /\ depQ' = Tail(depQ) /\ ask \in Ask /\ ask.client \in Clients
        /\ UNCHANGED <<live, wanted, homes, filters, rpQ, rpCache, filterCache, identityCluster>>
        /\ identityDependency' = identityDependency \cup {ask.client}
        /\ \A u \in Workers \ {"dependency"} : tasks'[u] = tasks[u]
        /\ \/ /\ UNCHANGED tasks
              /\ sourceToDestinations' = sourceToDestinations \cup {ask.client}
           \/ /\ UNCHANGED sourceToDestinations
              /\ \E p \in GetForIdentity :
                   Begins(tasks'["dependency"], p, GetForIdentity \ {p}, ask, {ask.client})
    BY <1>2, TakeDependencyFacts
  <2>2. depQ \in Seq(Ask) /\ Absent \notin Ask
    BY RoutingAssumption DEF TypeInv, TypeOK
  <2>3. /\ \A i \in DOMAIN depQ' : i + 1 \in DOMAIN depQ /\ depQ'[i] = depQ[i + 1]
        /\ \A i \in DOMAIN depQ : i # 1 => i - 1 \in DOMAIN depQ' /\ depQ'[i - 1] = depQ[i]
        /\ ask = depQ[1] /\ 1 \in DOMAIN depQ
    BY <2>1, <2>2, TailFacts
  <2>4. /\ \A i \in DOMAIN depQ : depQ[i].client \in wanted
        /\ \A c \in wanted : c \in identityDependency \/ \E i \in DOMAIN depQ : depQ[i].client = c
        /\ sourceToDestinations \subseteq identityDependency /\ identityDependency \subseteq wanted
    BY DEF Grounded
  <2>5. /\ ask.client \in wanted /\ \A i \in DOMAIN depQ' : depQ'[i].client \in wanted
        /\ \A c \in wanted : c \in identityDependency' \/ \E i \in DOMAIN depQ' : depQ'[i].client = c
    <3> HIDE DEF ask
    <3>1. ask.client \in wanted
      BY <2>3, <2>4
    <3>2. \A i \in DOMAIN depQ' : depQ'[i].client \in wanted
      BY <2>3, <2>4
    <3>3. ASSUME NEW c \in wanted
          PROVE  c \in identityDependency' \/ \E i \in DOMAIN depQ' : depQ'[i].client = c
      <4>1. CASE c \in identityDependency \/ c = ask.client
        BY <2>1, <4>1
      <4>2. CASE c \notin identityDependency /\ c # ask.client
        <5>1. PICK i \in DOMAIN depQ : depQ[i].client = c
          BY <2>4, <4>2
        <5>2. i # 1
          BY <2>3, <4>2, <5>1
        <5>3. i - 1 \in DOMAIN depQ' /\ depQ'[i - 1].client = c
          BY <2>3, <5>1, <5>2
        <5>4. QED
          BY <5>3
      <4>3. QED
        BY <4>1, <4>2
    <3>4. QED
      BY <3>1, <3>2, <3>3
  <2>6. Grounded'
    BY <2>1, <2>4, <2>5 DEF Grounded
  <2>7. FiltersGrounded'
    BY <2>1 DEF FiltersGrounded, Entitled
  <2>8. TasksGrounded'
    <3>1. CASE UNCHANGED tasks
      BY <2>1, <3>1 DEF TasksGrounded, WriteGrounded, Entitled
    <3>2. ASSUME NEW p \in GetForIdentity,
                 Begins(tasks'["dependency"], p, GetForIdentity \ {p}, ask, {ask.client})
          PROVE  TasksGrounded'
      <4>1. WriteGrounded(tasks["dependency"])' /\ tasks'["dependency"].pc = "write"
        BY <2>1, <2>2, <2>5, <3>2 DEF WriteGrounded, Begins
      <4>2. QED
        BY <2>1, <4>1 DEF TasksGrounded, WriteGrounded, Entitled
    <3>3. QED
      BY <2>1, <3>1, <3>2
  <2>9. QED
    BY <2>6, <2>7, <2>8
<1>3. QED
  BY <1>1, <1>2

LEMMA DependencyFailsGround ==
    ASSUME TypeInv, Grounded, FiltersGrounded, TasksGrounded, DependencyFails
    PROVE  Grounded' /\ FiltersGrounded' /\ TasksGrounded'
<1>0. PICK ask : ask = Head(depQ)
  OBVIOUS
<1>1. /\ depQ # << >> /\ ask \in Ask
      /\ \/ depQ' = Tail(depQ)
         \/ \E again \in Ask : again.client = ask.client /\ depQ' = Append(Tail(depQ), again)
      /\ identityDependency' = identityDependency \cup {ask.client}
      /\ UNCHANGED <<live, wanted, homes, filters, rpQ, rpCache, filterCache, identityCluster,
                     sourceToDestinations, tasks>>
  BY <1>0, DependencyFailsFacts
<1>2. depQ \in Seq(Ask)
  BY DEF TypeInv, TypeOK
<1>3. PICK rest : rest = Tail(depQ)
  OBVIOUS
<1>4. /\ rest \in Seq(Ask)
      /\ \A i \in DOMAIN rest : i + 1 \in DOMAIN depQ /\ rest[i] = depQ[i + 1]
      /\ \A i \in DOMAIN depQ : i # 1 => i - 1 \in DOMAIN rest /\ rest[i - 1] = depQ[i]
      /\ ask = depQ[1] /\ 1 \in DOMAIN depQ
  BY <1>0, <1>1, <1>2, <1>3, TailFacts
<1>5. /\ \A i \in DOMAIN depQ : depQ[i].client \in wanted
      /\ \A c \in wanted : c \in identityDependency \/ \E i \in DOMAIN depQ : depQ[i].client = c
      /\ sourceToDestinations \subseteq identityDependency /\ identityDependency \subseteq wanted
  BY DEF Grounded
<1>6. /\ ask.client \in wanted /\ \A i \in DOMAIN rest : rest[i].client \in wanted
      /\ \A c \in wanted : c \in identityDependency' \/ \E i \in DOMAIN rest : rest[i].client = c
  <2>1. ask.client \in wanted /\ \A i \in DOMAIN rest : rest[i].client \in wanted
    BY <1>4, <1>5
  <2>2. ASSUME NEW c \in wanted, c \notin identityDependency, c # ask.client
        PROVE  \E i \in DOMAIN rest : rest[i].client = c
    <3>1. PICK i \in DOMAIN depQ : depQ[i].client = c
      BY <1>5, <2>2
    <3>2. i # 1
      BY <1>4, <2>2, <3>1
    <3>3. i - 1 \in DOMAIN rest /\ rest[i - 1].client = c
      BY <1>4, <3>1, <3>2
    <3>4. QED
      BY <3>3
  <2>3. QED
    BY <1>1, <2>1, <2>2
<1>7. /\ \A i \in DOMAIN depQ' : depQ'[i].client \in wanted
      /\ \A c \in wanted : c \in identityDependency' \/ \E i \in DOMAIN depQ' : depQ'[i].client = c
  <2>1. CASE depQ' = rest
    BY <1>6, <2>1
  <2>2. ASSUME NEW again \in Ask, again.client = ask.client, depQ' = Append(rest, again)
        PROVE  /\ \A i \in DOMAIN depQ' : depQ'[i].client \in wanted
               /\ \A c \in wanted : c \in identityDependency' \/ \E i \in DOMAIN depQ' : depQ'[i].client = c
    <3>1. /\ DOMAIN depQ' = DOMAIN rest \cup {Len(rest) + 1} /\ depQ'[Len(rest) + 1] = again
          /\ \A i \in DOMAIN rest : depQ'[i] = rest[i]
      BY <1>4, <2>2, AppendFacts
    <3>2. QED
      BY <1>6, <2>2, <3>1
  <2>3. QED
    BY <1>1, <1>3, <2>1, <2>2
<1>8. Grounded'
  BY <1>1, <1>5, <1>6, <1>7 DEF Grounded
<1>9. FiltersGrounded'
  BY <1>1 DEF FiltersGrounded, Entitled
<1>10. TasksGrounded'
  BY <1>1 DEF TasksGrounded, WriteGrounded, Entitled
<1>11. QED
  BY <1>8, <1>9, <1>10

LEMMA EnvironmentGround ==
    ASSUME TypeInv, Grounded, FiltersGrounded, TasksGrounded, Environment
    PROVE  Grounded' /\ FiltersGrounded' /\ TasksGrounded'
<1> USE DEF world, caches
<1>0. /\ rpQ \in Seq(Item) /\ depQ \in Seq(Ask) /\ live \in [Names -> Policy \cup {Absent}]
      /\ homes \in [Clients -> SUBSET Clusters] /\ wanted \subseteq Clients
      /\ identityCluster \in [Clients -> SUBSET Clusters]
      /\ filters \subseteq Filter /\ identityDependency \subseteq Clients
  BY DEF TypeInv, TypeOK
<1>1. ASSUME NEW n \in Names, Apply(n) \/ Remove(n)
      PROVE  Grounded' /\ FiltersGrounded' /\ TasksGrounded'
  <2>1. UNCHANGED <<wanted, homes, filters, depQ, rpCache, filterCache, identityDependency,
                    identityCluster, sourceToDestinations, tasks>>
    BY <1>1 DEF Apply, Remove
  <2>2. PICK new, item :
           /\ live' = [live EXCEPT ![n] = new] /\ rpQ' = Append(rpQ, item)
           /\ new # Absent => new.name = n
           /\ item \in Item /\ item.tries = 0
    <3>1. CASE Apply(n)
      <4>1. clock' \in Nat
        BY <3>1 DEF Apply, TypeInv, TypeOK
      <4>2. PICK plugin \in Plugins, ignore \in BOOLEAN :
               LET p == [name |-> n, plugin |-> plugin, ignore |-> ignore, rev |-> clock'] IN
               /\ live' = [live EXCEPT ![n] = p]
               /\ Emit(IF live[n] = Absent THEN "Add" ELSE "Update", p)
        BY <3>1 DEF Apply
      <4> DEFINE p == [name |-> n, plugin |-> plugin, ignore |-> ignore, rev |-> clock']
                 it == [type |-> IF live[n] = Absent THEN "Add" ELSE "Update", obj |-> p, tries |-> 0]
      <4>3. p \in Policy /\ p.name = n /\ live' = [live EXCEPT ![n] = p]
        BY <4>1, <4>2 DEF Policy
      <4>4. rpQ' = Append(rpQ, it)
        BY <4>2 DEF Emit
      <4> HIDE DEF p
      <4>5. it \in Item /\ it.tries = 0
        BY <4>3 DEF Item
      <4>6. QED
        BY <4>3, <4>4, <4>5
    <3>2. CASE Remove(n)
      <4> DEFINE it == [type |-> "Delete", obj |-> live[n], tries |-> 0]
      <4>1. live[n] # Absent /\ live' = [live EXCEPT ![n] = Absent] /\ rpQ' = Append(rpQ, it)
        BY <3>2 DEF Remove, Emit
      <4>2. it \in Item /\ it.tries = 0
        BY <1>0, <4>1 DEF Item
      <4>3. QED
        BY <4>1, <4>2
    <3>3. QED
      BY <1>1, <3>1, <3>2
  <2>3. \A m \in Names : live'[m] = IF m = n THEN new ELSE live[m]
    BY <1>0, <2>2
  <2>4. \A i \in DOMAIN rpQ' : rpQ'[i].tries > 0 => rpQ'[i].type = "Delete"
    <3>1. \A i \in DOMAIN rpQ : rpQ[i].tries > 0 => rpQ[i].type = "Delete"
      BY DEF Grounded
    <3>2. DOMAIN rpQ' = DOMAIN rpQ \cup {Len(rpQ) + 1} /\ rpQ'[Len(rpQ) + 1] = item
          /\ \A i \in DOMAIN rpQ : rpQ'[i] = rpQ[i]
      BY <1>0, <2>2, AppendFacts
    <3>3. QED
      BY <2>2, <3>1, <3>2
  <2>5. Grounded'
    BY <2>1, <2>2, <2>3, <2>4 DEF Grounded
  <2>6. FiltersGrounded' /\ TasksGrounded'
    BY <2>1 DEF FiltersGrounded, TasksGrounded, WriteGrounded, Entitled
  <2>7. QED
    BY <2>5, <2>6
<1>2. ASSUME NEW c \in Clients, Depend(c)
      PROVE  Grounded' /\ FiltersGrounded' /\ TasksGrounded'
  <2>1. /\ UNCHANGED <<live, homes, filters, rpQ, rpCache, filterCache, identityDependency,
                       identityCluster, sourceToDestinations, tasks>>
        /\ wanted' = wanted \cup {c}
    BY <1>2 DEF Depend
  <2>2. PICK ask \in Ask : depQ' = Append(depQ, ask) /\ ask.client = c
    BY <1>2 DEF Depend, Ask
  <2>3. /\ DOMAIN depQ' = DOMAIN depQ \cup {Len(depQ) + 1} /\ depQ'[Len(depQ) + 1] = ask
        /\ \A i \in DOMAIN depQ : depQ'[i] = depQ[i]
    BY <1>0, <2>2, AppendFacts
  <2>4. /\ \A i \in DOMAIN depQ : depQ[i].client \in wanted
        /\ \A x \in wanted : x \in identityDependency \/ \E i \in DOMAIN depQ : depQ[i].client = x
    BY DEF Grounded
  <2>5. /\ \A i \in DOMAIN depQ' : depQ'[i].client \in wanted'
        /\ \A x \in wanted' : x \in identityDependency \/ \E i \in DOMAIN depQ' : depQ'[i].client = x
    BY <2>1, <2>2, <2>3, <2>4
  <2>6. Grounded'
    BY <2>1, <2>5 DEF Grounded
  <2>7. FiltersGrounded'
    BY <2>1 DEF FiltersGrounded, Entitled
  <2>8. TasksGrounded'
    <3>1. \A w \in Workers : WriteGrounded(tasks[w]) => WriteGrounded(tasks[w])'
      BY <2>1 DEF WriteGrounded, Entitled
    <3>2. QED
      BY <2>1, <3>1 DEF TasksGrounded
  <2>9. QED
    BY <2>6, <2>7, <2>8
<1>3. ASSUME NEW c \in Clients, NEW k \in Clusters, Deploy(c, k) \/ Discover(c, k)
      PROVE  Grounded' /\ FiltersGrounded' /\ TasksGrounded'
  <2>1. /\ UNCHANGED <<live, wanted, filters, rpQ, depQ, rpCache, filterCache, identityDependency,
                       sourceToDestinations, tasks>>
        /\ \/ homes' = [homes EXCEPT ![c] = @ \cup {k}] /\ UNCHANGED identityCluster
           \/ /\ identityCluster' = [identityCluster EXCEPT ![c] = @ \cup {k}]
              /\ UNCHANGED homes /\ k \in homes[c]
    BY <1>3 DEF Deploy, Discover
  <2>2. \A x \in Clients : identityCluster[x] \subseteq homes[x]
    BY DEF Grounded
  <2>3. \A x \in Clients : homes[x] \subseteq homes'[x] /\ identityCluster'[x] \subseteq homes'[x]
    BY <1>0, <2>1, <2>2
  <2>4. Grounded'
    BY <2>1, <2>3 DEF Grounded
  <2>5. \A at, x : Entitled(at, x) => Entitled(at, x)'
    BY <1>0, <2>1, <2>3 DEF Entitled
  <2>6. FiltersGrounded'
    BY <2>1, <2>5 DEF FiltersGrounded
  <2>7. TasksGrounded'
    <3>1. \A w \in Workers : WriteGrounded(tasks[w]) => WriteGrounded(tasks[w])'
      BY <2>1, <2>5 DEF WriteGrounded
    <3>2. QED
      BY <2>1, <3>1 DEF TasksGrounded
  <2>8. QED
    BY <2>4, <2>6, <2>7
<1>4. CASE WarmedUp \/ ToggleMode
  <2>1. UNCHANGED <<live, wanted, homes, filters, rpQ, depQ, rpCache, filterCache,
                    identityDependency, identityCluster, sourceToDestinations, tasks>>
    BY <1>4 DEF WarmedUp, ToggleMode
  <2>2. QED
    BY <2>1 DEF Grounded, FiltersGrounded, TasksGrounded, WriteGrounded, Entitled
<1>5. CASE Restart
  <2>1. /\ UNCHANGED <<live, wanted, homes, filters>>
        /\ rpCache' = [n \in Names |-> Absent] /\ filterCache' = [n \in Names |-> {}]
        /\ identityDependency' = {} /\ identityCluster' = [c \in Clients |-> {}]
        /\ sourceToDestinations' = {} /\ tasks' = [w \in Workers |-> Idle]
    BY <1>5 DEF Restart
  <2> DEFINE alive == {n \in Names : live[n] # Absent}
  <2>2. PICK s \in [1 .. Cardinality(alive) -> alive], t \in [1 .. Cardinality(wanted) -> wanted] :
           /\ \A c \in wanted : \E i \in DOMAIN t : t[i] = c
           /\ rpQ' = [i \in DOMAIN s |-> [type |-> "Add", obj |-> live[s[i]], tries |-> 0]]
           /\ depQ' = [i \in DOMAIN t |-> [type |-> "Add", client |-> t[i], tries |-> 0]]
    BY <1>5 DEF Restart
  <2>3. \A i \in DOMAIN rpQ' : rpQ'[i].tries > 0 => rpQ'[i].type = "Delete"
    BY <2>2
  <2>4. /\ \A i \in DOMAIN depQ' : depQ'[i].client \in wanted
        /\ \A c \in wanted : \E i \in DOMAIN depQ' : depQ'[i].client = c
    BY <2>2
  <2>5. \A n \in Names : live[n] # Absent => live[n].name = n
    BY DEF Grounded
  <2>6. Grounded'
    BY <2>1, <2>3, <2>4, <2>5 DEF Grounded
  <2>7. FiltersGrounded' /\ TasksGrounded'
    BY <2>1 DEF FiltersGrounded, TasksGrounded, Entitled, Idle
  <2>8. QED
    BY <2>6, <2>7
<1>6. QED
  BY <1>1, <1>2, <1>3, <1>4, <1>5 DEF Environment

LEMMA GroundStep == GroundInv /\ [Next]_vars => GroundInv'
<1> SUFFICES ASSUME GroundInv, [Next]_vars
             PROVE  GroundInv'
  OBVIOUS
<1>1. KnownInv' /\ TypeInv /\ Grounded /\ FiltersGrounded /\ TasksGrounded
  BY KnownStep DEF GroundInv, KnownInv
<1>2. ASSUME NEW w \in Workers, Step(w)
      PROVE  Grounded' /\ FiltersGrounded' /\ TasksGrounded'
  BY <1>1, <1>2, TakesGround, DependencyFailsGround, WritesGround, DeletesGround DEF Step
<1>3. CASE UNCHANGED vars
  <2>1. UNCHANGED <<live, wanted, homes, filters, rpQ, depQ, rpCache, filterCache,
                    identityDependency, identityCluster, sourceToDestinations, tasks>>
    BY <1>3 DEF vars, world, caches
  <2>2. Grounded'
    BY <1>1, <2>1 DEF Grounded
  <2>3. FiltersGrounded'
    BY <1>1, <2>1 DEF FiltersGrounded, Entitled
  <2>4. TasksGrounded'
    BY <1>1, <2>1 DEF TasksGrounded, WriteGrounded, Entitled
  <2>5. QED
    BY <1>1, <2>2, <2>3, <2>4 DEF GroundInv
<1>4. QED
  BY <1>1, <1>2, <1>3, EnvironmentGround DEF Next, GroundInv

-----------------------------------------------------------------------------
(* The filters follow the policies                                         *)

LEMMA AsideSame ==
    ASSUME UNCHANGED Aside
    PROVE  /\ \A n : Changes(n)' <=> Changes(n)
           /\ \A n : Awaited(n)' <=> Awaited(n)
           /\ \A n : Applies(n)' <=> Applies(n)
           /\ \A p : Current(p)' <=> Current(p)
           /\ \A key : Late(key)' <=> Late(key)
           /\ \A f : AsNow(f)' <=> AsNow(f)
           /\ \A key : DueKey(key)' <=> DueKey(key)
           /\ QueueFollows' <=> QueueFollows
           /\ CacheFollows' <=> CacheFollows
  BY DEF Aside, Changes, Awaited, Applies, Current, Late, AsNow, DueKey, Entitled, QueueFollows,
         CacheFollows

LEMMA WriterFollows ==
    ASSUME TypeInv, TypeInv', Grounded, FiltersGrounded, Following, NEW w \in Workers,
           \A u \in Workers \ {w} : tasks[u] = Idle /\ tasks'[u] = Idle,
           tasks[w].pc = "write", UNCHANGED Aside,
           \/ tasks'[w] = Idle
           \/ /\ tasks'[w].pc = "write" /\ ~tasks'[w].err /\ Current(tasks'[w].obj)
              /\ \A p \in tasks'[w].more : Current(p)
              /\ tasks'[w].now # Absent =>
                   \/ tasks'[w].seen = Absent /\ \A f \in filters' : f.key # tasks'[w].now
                   \/ tasks'[w].seen \in filters' /\ tasks'[w].seen.key = tasks'[w].now,
           \A f \in filters' : \/ f \in filters
                               \/ /\ f.key.name = tasks[w].obj.name /\ f.rev = tasks[w].obj.rev
                                  /\ f.key.plugin = tasks[w].obj.plugin,
           \A f \in filters : \E g \in filters' : g.key = f.key,
           \A key \in Key : key.at \in Enabled /\ ToWrite(tasks[w], key) =>
              \/ tasks'[w].pc = "write" /\ ToWrite(tasks'[w], key)
              \/ \E f \in filters' :
                   /\ f.key = key /\ f.key.name = tasks[w].obj.name /\ f.rev = tasks[w].obj.rev
                   /\ f.key.plugin = tasks[w].obj.plugin
              \/ /\ key.client \notin identityDependency \/ key.at \notin identityCluster[key.client]
                 /\ \E p \in tasks[w].more \cup {tasks[w].obj} :
                      p.name = key.name /\ p.plugin = key.plugin
    PROVE  Following'
<1>1. /\ \A n : Changes(n)' <=> Changes(n)
      /\ \A n : Awaited(n)' <=> Awaited(n)
      /\ \A n : Applies(n)' <=> Applies(n)
      /\ \A p : Current(p)' <=> Current(p)
      /\ \A key : Late(key)' <=> Late(key)
      /\ \A f : AsNow(f)' <=> AsNow(f)
      /\ \A key : DueKey(key)' <=> DueKey(key)
      /\ QueueFollows' <=> QueueFollows
      /\ CacheFollows' <=> CacheFollows
  BY AsideSame
<1>2. /\ QueueFollows /\ CacheFollows /\ WritesCurrent /\ StaleIsRepaired /\ MissingIsWritten
  BY DEF Following
<1>3. /\ Current(tasks[w].obj) /\ \A p \in tasks[w].more : Current(p)
  BY <1>2 DEF WritesCurrent
<1>4. \A u \in Workers : tasks'[u].pc # "delete" /\ tasks[u].pc # "delete"
  BY DEF Idle
<1>5. WritesCurrent'
  BY <1>1 DEF WritesCurrent, Idle
<1>6. DeletesCurrent'
  BY <1>4 DEF DeletesCurrent
<1>7. \A key : Reached(key) <=> ToWrite(tasks[w], key)
  BY DEF Reached, Idle
<1>8. \A key : tasks'[w].pc = "write" /\ ToWrite(tasks'[w], key) => Reached(key)'
  BY DEF Reached, ToWrite
<1>9. \A f \in filters' : /\ f.key.name = tasks[w].obj.name /\ f.rev = tasks[w].obj.rev
                          /\ f.key.plugin = tasks[w].obj.plugin
                          => AsNow(f) \/ Changes(f.key.name)
  <2>1. tasks[w].obj \in Policy /\ tasks[w].obj # Absent
    BY WriteType, RoutingAssumption DEF TypeInv
  <2>2. QED
    BY <1>3, <2>1 DEF Current, AsNow, Applies
<1>10. \A f, g \in filters' : f.key = g.key => f = g
  BY DEF TypeInv, TypeOK
<1>11. /\ \A f \in filters : f \in Filter /\ f.key \in Key /\ f.key.at \in Enabled
       /\ Absent \notin Policy
  <2>1. \A f \in filters : f \in Filter /\ f.key.at \in Enabled
    BY DEF TypeInv, TypeOK, FiltersGrounded, Entitled
  <2>2. QED
    BY <2>1, RoutingAssumption DEF Filter
<1>12. ASSUME NEW key \in Key,
              key.client \notin identityDependency \/ key.at \notin identityCluster[key.client],
              NEW p \in tasks[w].more \cup {tasks[w].obj}, p.name = key.name, p.plugin = key.plugin
       PROVE  /\ Late(key) \/ Changes(key.name)
              /\ DueKey(key) => Late(key) \/ Awaited(key.name)
  <2>1. Current(p) /\ key.name \in Names /\ p \in Policy /\ p # Absent
    <3>1. tasks[w].more \subseteq Policy /\ tasks[w].obj \in Policy
      BY WriteType DEF TypeInv
    <3>2. QED
      BY <1>3, <1>11, <1>12, <3>1 DEF Key
  <2>2. Late(key) \/ Changes(key.name)
    BY <1>12, <2>1 DEF Current, Late, Applies
  <2>3. DueKey(key) => rpCache[key.name] = live[key.name] \/ Awaited(key.name)
    BY <1>2, <2>1 DEF CacheFollows, DueKey
  <2>4. DueKey(key) => Late(key) \/ Awaited(key.name)
    BY <1>12, <2>3 DEF DueKey, Late
  <2>5. QED
    BY <2>2, <2>4
<1>13. StaleIsRepaired'
  <2> SUFFICES ASSUME NEW f \in filters'
               PROVE  AsNow(f) \/ Changes(f.key.name) \/ Reached(f.key)' \/ Late(f.key)
    BY <1>1 DEF StaleIsRepaired
  <2>1. CASE /\ f.key.name = tasks[w].obj.name /\ f.rev = tasks[w].obj.rev
             /\ f.key.plugin = tasks[w].obj.plugin
    BY <1>9, <2>1
  <2>2. CASE ~(/\ f.key.name = tasks[w].obj.name /\ f.rev = tasks[w].obj.rev
               /\ f.key.plugin = tasks[w].obj.plugin)
    <3>1. f \in filters
      BY <2>2
    <3>2. \/ AsNow(f) \/ Changes(f.key.name) \/ Erased(f.key.name)
          \/ Reached(f.key) \/ Late(f.key)
      BY <1>2, <3>1 DEF StaleIsRepaired
    <3>3. ~Erased(f.key.name)
      BY <1>4 DEF Erased
    <3>4. CASE Reached(f.key)
      <4>1. ToWrite(tasks[w], f.key) /\ f.key \in Key /\ f.key.at \in Enabled
        BY <1>7, <1>11, <3>1, <3>4
      <4>2. CASE tasks'[w].pc = "write" /\ ToWrite(tasks'[w], f.key)
        BY <1>8, <4>2
      <4>3. CASE \E g \in filters' :
                   /\ g.key = f.key /\ g.key.name = tasks[w].obj.name /\ g.rev = tasks[w].obj.rev
                   /\ g.key.plugin = tasks[w].obj.plugin
        BY <1>10, <2>2, <4>3
      <4>4. CASE /\ f.key.client \notin identityDependency \/ f.key.at \notin identityCluster[f.key.client]
                 /\ \E p \in tasks[w].more \cup {tasks[w].obj} :
                      p.name = f.key.name /\ p.plugin = f.key.plugin
        BY <1>12, <4>1, <4>4
      <4>5. QED
        BY <4>1, <4>2, <4>3, <4>4
    <3>5. QED
      BY <3>2, <3>3, <3>4
  <2>3. QED
    BY <2>1, <2>2
<1>14. MissingIsWritten'
  <2> SUFFICES ASSUME NEW key \in Key, DueKey(key)
               PROVE  \/ \E f \in filters' : f.key = key
                      \/ Awaited(key.name) \/ Reached(key)' \/ Late(key)
    BY <1>1 DEF MissingIsWritten
  <2>1. \/ \E f \in filters : f.key = key
        \/ Awaited(key.name) \/ Reached(key) \/ Late(key)
    BY <1>2 DEF MissingIsWritten
  <2>2. CASE Reached(key)
    <3>1. ToWrite(tasks[w], key) /\ key.at \in Enabled
      BY <1>7, <2>2 DEF DueKey, Entitled
    <3>2. CASE tasks'[w].pc = "write" /\ ToWrite(tasks'[w], key)
      BY <1>8, <3>2
    <3>3. CASE \E f \in filters' : f.key = key
      BY <3>3
    <3>4. CASE /\ key.client \notin identityDependency \/ key.at \notin identityCluster[key.client]
               /\ \E p \in tasks[w].more \cup {tasks[w].obj} :
                    p.name = key.name /\ p.plugin = key.plugin
      BY <1>12, <3>4
    <3>5. QED
      BY <3>1, <3>2, <3>3, <3>4
  <2>3. QED
    BY <2>1, <2>2
<1>15. QED
  BY <1>1, <1>2, <1>5, <1>6, <1>13, <1>14 DEF Following

LEMMA WritesFollow ==
    ASSUME GroundInv, GroundInv', Following, lost = {}, lost' = {}, NEW w \in Workers,
           NextDependent(w) \/ Prepare(w) \/ Write(w) \/ WriteFails(w) \/ EndWrite(w)
    PROVE  Following'
<1>1. tasks[w].pc = "write"
  BY DEF NextDependent, Prepare, Write, WriteFails, EndWrite
<1>2. TypeInv /\ TypeInv' /\ Grounded /\ FiltersGrounded /\ TasksGrounded /\ Alone
  BY DEF GroundInv, KnownInv
<1>3. \A u \in Workers \ {w} : tasks[u] = Idle
  BY <1>1, <1>2 DEF Alone, Idle
<1>4. /\ ~tasks[w].err /\ Current(tasks[w].obj) /\ \A p \in tasks[w].more : Current(p)
      /\ tasks[w].now # Absent =>
           \/ tasks[w].seen = Absent /\ \A f \in filters : f.key # tasks[w].now
           \/ tasks[w].seen \in filters /\ tasks[w].seen.key = tasks[w].now
  BY <1>1 DEF Following, WritesCurrent
<1>5. /\ WriteGrounded(tasks[w]) /\ wanted \subseteq Clients
      /\ tasks[w].todo \subseteq Clusters \X Clients
      /\ tasks[w].left # {} => tasks[w].pair \in Enabled \X Clients
  BY <1>1, <1>2, WriteType DEF TasksGrounded, TypeInv, TypeOK, InEnabled
<1>6. CASE NextDependent(w)
  <2>1. /\ tasks[w].left = {} /\ tasks[w].now = Absent
        /\ UNCHANGED Aside /\ UNCHANGED filters
        /\ Goes(w) /\ tasks'[w].err = tasks[w].err /\ tasks'[w].now = Absent
    BY <1>2, <1>6, NextDependentFacts
  <2>2. PICK p \in tasks[w].todo :
           /\ tasks'[w].todo = tasks[w].todo \ {p} /\ tasks'[w].pair = p
           /\ tasks'[w].left = IF p[1] \in identityCluster[p[2]] THEN Versions ELSE {}
    BY <1>2, <1>6, NextDependentFacts
  <2>3. p = <<p[1], p[2]>>
    BY <1>5, <2>2
  <2>4. ASSUME NEW key \in Key, ToWrite(tasks[w], key)
        PROVE  \/ tasks'[w].pc = "write" /\ ToWrite(tasks'[w], key)
               \/ /\ key.at \notin identityCluster[key.client]
                  /\ \E q \in tasks[w].more \cup {tasks[w].obj} :
                       q.name = key.name /\ q.plugin = key.plugin
    <3>1. CASE \E q \in tasks[w].more :
                 q.name = key.name /\ q.plugin = key.plugin /\ tasks[w].ask.client = key.client
      BY <2>1, <3>1 DEF ToWrite, Goes
    <3>2. CASE /\ key.name = tasks[w].obj.name /\ key.plugin = tasks[w].obj.plugin
               /\ <<key.at, key.client>> \in tasks[w].todo
      <4>1. CASE <<key.at, key.client>> # p
        BY <2>1, <2>2, <3>2, <4>1 DEF ToWrite, Goes
      <4>2. CASE <<key.at, key.client>> = p
        <5>1. p[1] = key.at /\ p[2] = key.client /\ key.version \in Versions
          BY <2>3, <4>2 DEF Key
        <5>2. CASE key.at \in identityCluster[key.client]
          BY <2>1, <2>2, <3>2, <4>2, <5>1, <5>2 DEF ToWrite, Goes
        <5>3. CASE key.at \notin identityCluster[key.client]
          BY <3>2, <5>3
        <5>4. QED
          BY <5>2, <5>3
      <4>3. QED
        BY <4>1, <4>2
    <3>3. key # Absent
      BY RoutingAssumption
    <3>4. QED
      BY <2>1, <2>4, <3>1, <3>2, <3>3 DEF ToWrite
  <2>5. /\ tasks'[w].pc = "write" /\ ~tasks'[w].err /\ Current(tasks'[w].obj)
        /\ \A q \in tasks'[w].more : Current(q)
    BY <1>4, <2>1 DEF Goes
  <2>6. \A u \in Workers \ {w} : tasks'[u] = Idle
    BY <1>3, <2>1 DEF Goes
  <2>7. QED
    BY <1>1, <1>2, <1>3, <2>1, <2>4, <2>5, <2>6, WriterFollows
<1>7. CASE Prepare(w)
  <2>1. /\ tasks[w].now = Absent /\ UNCHANGED Aside /\ UNCHANGED filters
        /\ Goes(w) /\ tasks'[w].err = tasks[w].err
        /\ tasks'[w].todo = tasks[w].todo /\ tasks'[w].pair = tasks[w].pair
    BY <1>2, <1>7, PrepareFacts
  <2>2. PICK v \in tasks[w].left :
           /\ tasks'[w].left = tasks[w].left \ {v}
           /\ tasks'[w].now = KeyOf(tasks[w].obj, tasks[w].pair, v)
           /\ \/ /\ tasks'[w].seen = Absent
                 /\ \A f \in filters : f.key # KeyOf(tasks[w].obj, tasks[w].pair, v)
              \/ /\ tasks'[w].seen \in filters
                 /\ tasks'[w].seen.key = KeyOf(tasks[w].obj, tasks[w].pair, v)
    BY <1>2, <1>7, PrepareFacts
  <2>3. ASSUME NEW key \in Key, ToWrite(tasks[w], key)
        PROVE  tasks'[w].pc = "write" /\ ToWrite(tasks'[w], key)
    <3>1. key # Absent
      BY RoutingAssumption
    <3>2. CASE /\ key.name = tasks[w].obj.name /\ key.plugin = tasks[w].obj.plugin
               /\ key.version \in tasks[w].left /\ tasks[w].pair = <<key.at, key.client>>
      <4>1. CASE key.version = v
        <5>1. key = KeyOf(tasks[w].obj, tasks[w].pair, v)
          BY <3>2, <4>1 DEF KeyOf, Key
        <5>2. QED
          BY <2>1, <2>2, <3>2, <5>1 DEF ToWrite, Goes
      <4>2. CASE key.version # v
        BY <2>1, <2>2, <3>2, <4>2 DEF ToWrite, Goes
      <4>3. QED
        BY <4>1, <4>2
    <3>3. CASE ~(/\ key.name = tasks[w].obj.name /\ key.plugin = tasks[w].obj.plugin
                 /\ key.version \in tasks[w].left /\ tasks[w].pair = <<key.at, key.client>>)
      BY <2>1, <2>3, <3>1, <3>3 DEF ToWrite, Goes
    <3>4. QED
      BY <3>2, <3>3
  <2>4. /\ tasks'[w].pc = "write" /\ ~tasks'[w].err /\ Current(tasks'[w].obj)
        /\ \A q \in tasks'[w].more : Current(q)
    BY <1>4, <2>1 DEF Goes
  <2>5. \/ tasks'[w].seen = Absent /\ \A f \in filters' : f.key # tasks'[w].now
        \/ tasks'[w].seen \in filters' /\ tasks'[w].seen.key = tasks'[w].now
    BY <2>1, <2>2
  <2>6. \A u \in Workers \ {w} : tasks'[u] = Idle
    BY <1>3, <2>1 DEF Goes
  <2>7. QED
    BY <1>1, <1>2, <1>3, <2>1, <2>3, <2>4, <2>5, <2>6, WriterFollows
<1>8. CASE Write(w)
  <2>1. /\ tasks[w].now # Absent /\ UNCHANGED Aside /\ Goes(w) /\ tasks'[w].now = Absent
        /\ tasks'[w].todo = tasks[w].todo /\ tasks'[w].pair = tasks[w].pair
        /\ tasks'[w].left = tasks[w].left
    BY <1>2, <1>8, WriteFacts
  <2> DEFINE old == {f \in filters : f.key = tasks[w].now}
             new == FilterOf(tasks[w].obj, tasks[w].now)
  <2>2. IF tasks[w].seen = Absent THEN old = {} ELSE old = {tasks[w].seen}
    <3>1. CASE tasks[w].seen = Absent /\ \A f \in filters : f.key # tasks[w].now
      BY <3>1
    <3>2. CASE tasks[w].seen \in filters /\ tasks[w].seen.key = tasks[w].now
      <4>1. \A f, g \in filters : f.key = g.key => f = g
        BY <1>2 DEF TypeInv, TypeOK
      <4>2. tasks[w].seen # Absent
        BY <1>2, <3>2, RoutingAssumption DEF TypeInv, TypeOK
      <4>3. QED
        BY <3>2, <4>1, <4>2
    <3>3. QED
      BY <1>4, <2>1, <3>1, <3>2
  <2>3. /\ filters' = (filters \ old) \cup {new}
        /\ tasks' = [tasks EXCEPT ![w].now = Absent, ![w].seen = Absent, ![w].err = @ \/ FALSE]
    BY <1>8, <2>2 DEF Write, Written
  <2>4. ~tasks'[w].err
    <3>1. tasks \in [Workers -> Tasks] /\ tasks[w] \in WriteTask
      BY <1>1, <1>2, WriteType DEF TypeInv, TypeOK, Tasks
    <3> DEFINE t == [tasks[w] EXCEPT !.now = Absent, !.seen = Absent, !.err = @ \/ FALSE]
    <3>2. tasks' = [tasks EXCEPT ![w] = t]
      BY <2>3, <3>1
    <3>3. ~t.err
      BY <1>4, <3>1 DEF WriteTask
    <3> HIDE DEF t
    <3>4. QED
      BY <3>1, <3>2, <3>3
  <2>5. new.key = tasks[w].now /\ new.rev = tasks[w].obj.rev
        /\ new.key.name = tasks[w].obj.name /\ new.key.plugin = tasks[w].obj.plugin
    BY <1>5, <2>1 DEF FilterOf, WriteGrounded
  <2> HIDE DEF new
  <2>6. \A f \in filters : \E g \in filters' : g.key = f.key
    BY <2>3, <2>5
  <2>7. ASSUME NEW key \in Key, ToWrite(tasks[w], key)
        PROVE  \/ tasks'[w].pc = "write" /\ ToWrite(tasks'[w], key)
               \/ \E f \in filters' :
                    /\ f.key = key /\ f.key.name = tasks[w].obj.name /\ f.rev = tasks[w].obj.rev
                    /\ f.key.plugin = tasks[w].obj.plugin
    <3>1. CASE key = tasks[w].now
      BY <2>3, <2>5, <3>1
    <3>2. CASE key # tasks[w].now
      BY <2>1, <2>7, <3>2 DEF ToWrite, Goes
    <3>3. QED
      BY <3>1, <3>2
  <2>8. /\ tasks'[w].pc = "write" /\ Current(tasks'[w].obj)
        /\ \A q \in tasks'[w].more : Current(q)
    BY <1>4, <2>1 DEF Goes
  <2>9. \A u \in Workers \ {w} : tasks'[u] = Idle
    BY <1>3, <2>1 DEF Goes
  <2>10. \A f \in filters' : \/ f \in filters
                             \/ /\ f.key.name = tasks[w].obj.name /\ f.rev = tasks[w].obj.rev
                                /\ f.key.plugin = tasks[w].obj.plugin
    BY <2>3, <2>5
  <2>11. QED
    BY <1>1, <1>2, <1>3, <2>1, <2>4, <2>6, <2>7, <2>8, <2>9, <2>10, WriterFollows
<1>9. CASE WriteFails(w)
  BY <1>9 DEF WriteFails
<1>10. CASE EndWrite(w)
  <2>1. /\ tasks[w].now = Absent /\ tasks[w].todo = {} /\ tasks[w].left = {}
        /\ UNCHANGED Aside /\ UNCHANGED filters
        /\ \A u \in Workers \ {w} : tasks'[u] = tasks[u]
        /\ \/ /\ tasks[w].ask # Absent
              /\ \E p \in tasks[w].more :
                   Begins(tasks'[w], p, tasks[w].more \ {p}, tasks[w].ask, {tasks[w].ask.client})
           \/ /\ tasks[w].ask = Absent \/ tasks[w].err \/ tasks[w].more = {}
              /\ tasks'[w] = Idle
    BY <1>2, <1>10, EndWriteFacts
  <2>2. \A u \in Workers \ {w} : tasks'[u] = Idle
    BY <1>3, <2>1
  <2>3. ASSUME NEW key \in Key, ToWrite(tasks[w], key)
        PROVE  \E q \in tasks[w].more :
                 q.name = key.name /\ q.plugin = key.plugin /\ tasks[w].ask.client = key.client
    <3>1. key # Absent
      BY RoutingAssumption
    <3>2. QED
      BY <2>1, <2>3, <3>1 DEF ToWrite
  <2>4. CASE (tasks[w].ask = Absent \/ tasks[w].err \/ tasks[w].more = {}) /\ tasks'[w] = Idle
    <3>1. tasks[w].more = {}
      BY <1>4, <1>5, <2>4 DEF WriteGrounded
    <3>2. \A key \in Key : ~ToWrite(tasks[w], key)
      BY <2>3, <3>1
    <3>3. QED
      BY <1>1, <1>2, <1>3, <2>1, <2>2, <2>4, <3>2, WriterFollows
  <2>5. ASSUME NEW p \in tasks[w].more,
               Begins(tasks'[w], p, tasks[w].more \ {p}, tasks[w].ask, {tasks[w].ask.client})
        PROVE  Following'
    <3>1. /\ tasks'[w].pc = "write" /\ ~tasks'[w].err /\ tasks'[w].obj = p
          /\ tasks'[w].more = tasks[w].more \ {p} /\ tasks'[w].ask = tasks[w].ask
          /\ tasks'[w].todo = Enabled \X {tasks[w].ask.client} /\ tasks'[w].now = Absent
      BY <2>5 DEF Begins
    <3>2. Current(tasks'[w].obj) /\ \A q \in tasks'[w].more : Current(q)
      BY <1>4, <3>1
    <3>3. ASSUME NEW key \in Key, key.at \in Enabled, ToWrite(tasks[w], key)
          PROVE  ToWrite(tasks'[w], key)
      <4>1. PICK q \in tasks[w].more :
               q.name = key.name /\ q.plugin = key.plugin /\ tasks[w].ask.client = key.client
        BY <2>3, <3>3
      <4>2. CASE q = p
        <5>1. <<key.at, key.client>> \in tasks'[w].todo
          BY <3>1, <3>3, <4>1
        <5>2. QED
          BY <3>1, <4>1, <4>2, <5>1 DEF ToWrite
      <4>3. CASE q # p
        BY <3>1, <4>1, <4>3 DEF ToWrite
      <4>4. QED
        BY <4>2, <4>3
    <3>4. QED
      BY <1>1, <1>2, <1>3, <2>1, <2>2, <3>1, <3>2, <3>3, WriterFollows
  <2>6. QED
    BY <2>1, <2>4, <2>5
<1>11. QED
  BY <1>6, <1>7, <1>8, <1>9, <1>10

\* An event is put at the end of the queue
LEMMA QueueGrows ==
    ASSUME rpQ \in Seq(Item), NEW item \in Item, rpQ' = Append(rpQ, item)
    PROVE  /\ \A n : Changes(n) => Changes(n)'
           /\ \A n : Awaited(n) /\ live'[n] = live[n] => Awaited(n)'
           /\ item.type # "Add" => Changes(item.obj.name)'
           /\ \A n : item.type # "Delete" /\ live'[n] = item.obj => Awaited(n)'
           /\ \A i \in DOMAIN rpQ' : \/ i \in DOMAIN rpQ /\ rpQ'[i] = rpQ[i]
                                     \/ i = Len(rpQ) + 1 /\ rpQ'[i] = item
<1>1. /\ DOMAIN rpQ' = DOMAIN rpQ \cup {Len(rpQ) + 1} /\ rpQ'[Len(rpQ) + 1] = item
      /\ \A i \in DOMAIN rpQ : rpQ'[i] = rpQ[i]
  BY AppendFacts
<1>2. QED
  BY <1>1 DEF Changes, Awaited

LEMMA DeletingFollows ==
    ASSUME GroundInv, GroundInv', Following, lost = {}, lost' = {}, NEW w \in Workers,
           DeleteCluster(w) \/ DeleteFilter(w) \/ DeleteFails(w)
    PROVE  Following'
<1>1. TypeInv /\ TypeInv' /\ Grounded /\ FiltersGrounded /\ TasksGrounded /\ Alone
  BY DEF GroundInv, KnownInv
<1>2. /\ tasks[w].pc = "delete" /\ tasks'[w].pc = "delete" /\ tasks'[w].item = tasks[w].item
      /\ UNCHANGED Aside /\ UNCHANGED ours
      /\ \A u \in Workers \ {w} : tasks'[u] = tasks[u]
      /\ filters' \subseteq filters
      /\ \A f \in filters \ filters' : f.key \in tasks[w].batch
  BY <1>1, DeletingFacts
<1>3. \A u \in Workers \ {w} : tasks[u] = Idle /\ tasks'[u] = Idle
  BY <1>1, <1>2 DEF Alone, Idle
<1>4. /\ \A n : Changes(n)' <=> Changes(n)
      /\ \A n : Awaited(n)' <=> Awaited(n)
      /\ \A n : Applies(n)' <=> Applies(n)
      /\ \A key : Late(key)' <=> Late(key)
      /\ \A f : AsNow(f)' <=> AsNow(f)
      /\ \A key : DueKey(key)' <=> DueKey(key)
      /\ QueueFollows' <=> QueueFollows
      /\ CacheFollows' <=> CacheFollows
  BY <1>2, AsideSame
<1>5. QueueFollows /\ CacheFollows /\ DeletesCurrent /\ StaleIsRepaired /\ MissingIsWritten
  BY DEF Following
<1>0. PICK n0 : n0 = tasks[w].item.obj.name
  OBVIOUS
<1>6. /\ \A f \in Of(n0) : f.key \in ours
      /\ Applies(n0) => Awaited(n0)
  BY <1>0, <1>2, <1>5 DEF DeletesCurrent
<1>7. \A u \in Workers : tasks[u].pc # "write" /\ tasks'[u].pc # "write"
  BY <1>2, <1>3 DEF Idle
<1>8. WritesCurrent'
  BY <1>7 DEF WritesCurrent
<1>9. DeletesCurrent'
  <2>1. \A n : Of(n)' \subseteq Of(n)
    BY <1>2 DEF Of
  <2>2. \A f \in Of(n0)' : f.key \in ours'
    BY <1>2, <1>6, <2>1
  <2>3. QED
    BY <1>0, <1>2, <1>3, <1>4, <1>6, <2>2 DEF DeletesCurrent, Idle
<1>10. \A key : ~Reached(key)
  BY <1>7 DEF Reached
<1>11. StaleIsRepaired'
  <2>1. \A n : Erased(n) => Erased(n)'
    BY <1>2, <1>3 DEF Erased, Idle
  <2>2. QED
    BY <1>2, <1>4, <1>5, <1>10, <2>1 DEF StaleIsRepaired
<1>12. MissingIsWritten'
  <2> SUFFICES ASSUME NEW key \in Key, DueKey(key)
               PROVE  \/ \E f \in filters' : f.key = key
                      \/ Awaited(key.name) \/ Late(key)
    BY <1>4 DEF MissingIsWritten
  <2>1. \/ \E f \in filters : f.key = key
        \/ Awaited(key.name) \/ Late(key)
    BY <1>5, <1>10 DEF MissingIsWritten
  <2>2. ASSUME NEW f \in filters \ filters', f.key = key
        PROVE  Awaited(key.name)
    <3>1. key.name = n0
      BY <1>0, <1>1, <1>2, <2>2 DEF TasksGrounded
    <3>2. Applies(key.name)
      BY DEF DueKey
    <3>3. QED
      BY <1>6, <3>1, <3>2
  <2>3. QED
    BY <2>1, <2>2
<1>13. QED
  BY <1>4, <1>5, <1>8, <1>9, <1>11, <1>12 DEF Following

LEMMA EndDeleteFollows ==
    ASSUME GroundInv, GroundInv', Following, lost = {}, lost' = {}, NEW w \in Workers, EndDelete(w)
    PROVE  Following'
<1>1. TypeInv /\ TypeInv' /\ Grounded /\ FiltersGrounded /\ TasksGrounded /\ Alone /\ Deletions
  BY DEF GroundInv, KnownInv
<1>0. PICK item : item = tasks[w].item
  OBVIOUS
<1> DEFINE n0 == item.obj.name
           again == [item EXCEPT !.tries = @ + 1]
<1>2. /\ tasks[w].pc = "delete" /\ tasks'[w] = Idle
      /\ tasks[w].todo = {} /\ tasks[w].batch = {}
      /\ item \in Item /\ n0 \in Names
      /\ UNCHANGED <<live, wanted, homes, filters, identityDependency, identityCluster, ours>>
      /\ \A u \in Workers \ {w} : tasks'[u] = tasks[u]
      /\ \/ UNCHANGED rpCache
         \/ rpCache' = [rpCache EXCEPT ![n0] = Absent]
      /\ \/ UNCHANGED rpQ
         \/ item.type = "Delete" /\ rpQ' = Append(rpQ, again)
      /\ \/ ~tasks[w].err
         \/ Of(n0) = {}
         \/ item.type = "Delete" /\ rpQ' = Append(rpQ, again)
  BY <1>0, <1>1, EndDeleteFacts
<1>3. /\ again \in Item /\ again.type = item.type /\ again.obj = item.obj /\ again.tries # 0
  BY <1>2 DEF Item
<1> HIDE DEF again
<1>4. \A u \in Workers \ {w} : tasks[u] = Idle /\ tasks'[u] = Idle
  BY <1>1, <1>2 DEF Alone, Idle
<1>5. QueueFollows /\ CacheFollows /\ DeletesCurrent /\ StaleIsRepaired /\ MissingIsWritten
  BY DEF Following
<1>6. /\ \A f \in Of(n0) : f.key \in ours
      /\ Applies(n0) => Awaited(n0)
  BY <1>0, <1>2, <1>5 DEF DeletesCurrent
<1>7. /\ rpQ \in Seq(Item) /\ rpCache \in [Names -> Policy \cup {Absent}]
      /\ \A f \in filters : f.key.name \in Names
  BY <1>1 DEF TypeInv, TypeOK, Filter, Key
<1>8. /\ \A n : Changes(n) => Changes(n)'
      /\ \A n : Awaited(n) => Awaited(n)'
      /\ item.type = "Delete" /\ rpQ' = Append(rpQ, again) => Changes(n0)'
      /\ \A i \in DOMAIN rpQ' : \/ i \in DOMAIN rpQ /\ rpQ'[i] = rpQ[i]
                                \/ rpQ'[i] = again /\ again.type = "Delete"
  <2>1. CASE UNCHANGED rpQ
    <3>1. rpQ # Append(rpQ, again)
      BY <1>3, <1>7, AppendFacts
    <3>2. QED
      BY <1>2, <2>1, <3>1 DEF Changes, Awaited
  <2>2. CASE item.type = "Delete" /\ rpQ' = Append(rpQ, again)
    BY <1>2, <1>3, <1>7, <2>2, QueueGrows
  <2>3. QED
    BY <1>2, <2>1, <2>2
<1>9. \A n \in Names : n # n0 => rpCache'[n] = rpCache[n]
  BY <1>2, <1>7
<1>10. QueueFollows'
  <2>1. CASE UNCHANGED rpQ
    BY <1>2, <1>5, <2>1 DEF QueueFollows
  <2>2. CASE rpQ' = Append(rpQ, again) /\ item.type = "Delete"
    <3>1. /\ \A i \in DOMAIN rpQ : i \in DOMAIN rpQ' /\ rpQ'[i] = rpQ[i]
      BY <1>3, <1>7, <2>2, AppendFacts
    <3>2. ASSUME NEW i \in DOMAIN rpQ, NEW j \in DOMAIN rpQ
          PROVE  j \in DOMAIN rpQ' /\ rpQ'[j] = rpQ[j] /\ rpQ'[i] = rpQ[i]
      BY <3>1
    <3>3. QED
      BY <1>2, <1>3, <1>5, <1>8, <3>1, <3>2 DEF QueueFollows
  <2>3. QED
    BY <1>2, <2>1, <2>2
<1>11. \A n : Applies(n)' <=> Applies(n)
  BY <1>2 DEF Applies
<1>12. CacheFollows'
  BY <1>2, <1>5, <1>6, <1>8, <1>9, <1>11 DEF CacheFollows
<1>13. WritesCurrent' /\ DeletesCurrent'
  BY <1>2, <1>4 DEF WritesCurrent, DeletesCurrent, Idle
<1>14. \A key : ~Reached(key)
  BY <1>2, <1>4 DEF Reached, Idle
<1>15. StaleIsRepaired'
  <2> SUFFICES ASSUME NEW f \in filters
               PROVE  AsNow(f)' \/ Changes(f.key.name)' \/ Late(f.key)'
    BY <1>2 DEF StaleIsRepaired
  <2>1. AsNow(f) \/ Changes(f.key.name) \/ Erased(f.key.name) \/ Late(f.key)
    BY <1>5, <1>14 DEF StaleIsRepaired
  <2>2. CASE f.key.name = n0
    <3>1. f \in Of(n0) /\ f.key \in ours
      BY <1>6, <2>2 DEF Of
    <3>2. CASE ~tasks[w].err
      BY <1>0, <1>1, <1>2, <2>2, <3>1, <3>2 DEF Deletions, ToCome
    <3>3. CASE tasks[w].err
      BY <1>2, <1>8, <2>2, <3>1, <3>3
    <3>4. QED
      BY <3>2, <3>3
  <2>3. CASE f.key.name # n0
    <3>1. ~Erased(f.key.name)
      BY <1>0, <1>2, <1>4, <2>3 DEF Erased, Idle
    <3>2. AsNow(f) => AsNow(f)'
      BY <1>2 DEF AsNow, Applies
    <3>3. Late(f.key) => Late(f.key)'
      BY <1>2, <1>7, <1>9, <2>3 DEF Late, Applies
    <3>4. QED
      BY <1>8, <2>1, <3>1, <3>2, <3>3
  <2>4. QED
    BY <2>2, <2>3
<1>16. MissingIsWritten'
  <2> SUFFICES ASSUME NEW key \in Key, DueKey(key)'
               PROVE  \/ \E f \in filters : f.key = key
                      \/ Awaited(key.name)' \/ Late(key)'
    BY <1>2 DEF MissingIsWritten
  <2>1. DueKey(key) /\ Applies(key.name) /\ key.name \in Names
    BY <1>2 DEF DueKey, Entitled, Applies, Key
  <2>2. (\E f \in filters : f.key = key) \/ Awaited(key.name) \/ Late(key)
    BY <1>5, <1>14, <2>1 DEF MissingIsWritten
  <2>3. CASE key.name = n0
    BY <1>6, <1>8, <2>1, <2>3
  <2>4. CASE key.name # n0
    <3>1. Late(key) => Late(key)'
      BY <1>2, <1>9, <2>1, <2>4 DEF Late, Applies
    <3>2. QED
      BY <1>8, <2>2, <3>1
  <2>5. QED
    BY <2>3, <2>4
<1>17. QED
  BY <1>10, <1>12, <1>13, <1>15, <1>16 DEF Following

\* What follows the head of the queue
LEMMA HeadFollows ==
    ASSUME TypeInv, Grounded, QueueFollows, rpQ # << >>, rpQ' = Tail(rpQ), UNCHANGED live,
           NEW item, item = Head(rpQ)
    PROVE  /\ QueueFollows'
           /\ \A n : Changes(n) => Changes(n)' \/ (n = item.obj.name /\ item.type # "Add")
           /\ \A n \in Names : live[n] # Absent /\ Awaited(n) /\ n # item.obj.name => Awaited(n)'
           /\ item.type # "Delete" => item.obj = live[item.obj.name] \/ Changes(item.obj.name)'
           /\ item.type # "Delete" => item.tries = 0
           /\ item.tries = 0 => \/ live[item.obj.name] = Absent
                                \/ item.type # "Delete" /\ item.obj = live[item.obj.name]
                                \/ Awaited(item.obj.name)'
<1>1. /\ item = rpQ[1] /\ 1 \in DOMAIN rpQ /\ rpQ \in Seq(Item)
      /\ \A i \in DOMAIN rpQ' : i + 1 \in DOMAIN rpQ /\ rpQ'[i] = rpQ[i + 1]
      /\ \A i \in DOMAIN rpQ : i # 1 => i - 1 \in DOMAIN rpQ' /\ rpQ'[i - 1] = rpQ[i]
  BY TailFacts DEF TypeInv, TypeOK
<1>2. DOMAIN rpQ \subseteq Nat \ {0} /\ DOMAIN rpQ' \subseteq Nat \ {0}
  BY <1>1, TailFacts
<1>3. QueueFollows'
  <2> SUFFICES ASSUME NEW i \in DOMAIN rpQ'
               PROVE  LET n == rpQ'[i].obj.name IN
                      /\ rpQ'[i].type # "Delete" =>
                           \/ rpQ'[i].obj = live[n]
                           \/ \E j \in DOMAIN rpQ' : j > i /\ rpQ'[j].obj.name = n /\ rpQ'[j].type # "Add"
                      /\ rpQ'[i].tries = 0 =>
                           \/ live[n] = Absent
                           \/ rpQ'[i].type # "Delete" /\ rpQ'[i].obj = live[n]
                           \/ \E j \in DOMAIN rpQ' : /\ j > i /\ rpQ'[j].type # "Delete"
                                                     /\ rpQ'[j].obj = live[n]
    BY DEF QueueFollows
  <2>1. i + 1 \in DOMAIN rpQ /\ rpQ'[i] = rpQ[i + 1] /\ i \in Nat
    BY <1>1, <1>2
  <2>2. ASSUME NEW j \in DOMAIN rpQ, j > i + 1
        PROVE  j - 1 \in DOMAIN rpQ' /\ rpQ'[j - 1] = rpQ[j] /\ j - 1 > i
    BY <1>1, <1>2, <2>1, <2>2
  <2> DEFINE n == rpQ[i + 1].obj.name
  <2>3. rpQ[i + 1].type # "Delete" =>
          \/ rpQ[i + 1].obj = live[n]
          \/ \E j \in DOMAIN rpQ : j > i + 1 /\ rpQ[j].obj.name = n /\ rpQ[j].type # "Add"
    BY <2>1 DEF QueueFollows
  <2>4. rpQ[i + 1].tries = 0 =>
          \/ live[n] = Absent
          \/ rpQ[i + 1].type # "Delete" /\ rpQ[i + 1].obj = live[n]
          \/ \E j \in DOMAIN rpQ : j > i + 1 /\ rpQ[j].type # "Delete" /\ rpQ[j].obj = live[n]
    BY <2>1 DEF QueueFollows
  <2>5. rpQ'[i].type # "Delete" =>
          \/ rpQ'[i].obj = live[n]
          \/ \E j \in DOMAIN rpQ' : j > i /\ rpQ'[j].obj.name = n /\ rpQ'[j].type # "Add"
    BY <2>1, <2>2, <2>3
  <2>6. rpQ'[i].tries = 0 =>
          \/ live[n] = Absent
          \/ rpQ'[i].type # "Delete" /\ rpQ'[i].obj = live[n]
          \/ \E j \in DOMAIN rpQ' : j > i /\ rpQ'[j].type # "Delete" /\ rpQ'[j].obj = live[n]
    BY <2>1, <2>2, <2>4
  <2>7. QED
    BY <2>1, <2>5, <2>6
<1>4. ASSUME NEW n, Changes(n)
      PROVE  Changes(n)' \/ (n = item.obj.name /\ item.type # "Add")
  <2>1. PICK i \in DOMAIN rpQ : rpQ[i].obj.name = n /\ rpQ[i].type # "Add"
    BY <1>4 DEF Changes
  <2>2. CASE i = 1
    BY <1>1, <2>1, <2>2
  <2>3. CASE i # 1
    <3>1. i - 1 \in DOMAIN rpQ' /\ rpQ'[i - 1] = rpQ[i]
      BY <1>1, <2>3
    <3>2. QED
      BY <2>1, <3>1 DEF Changes
  <2>4. QED
    BY <2>2, <2>3
<1>5. ASSUME NEW n \in Names, live[n] # Absent, Awaited(n), n # item.obj.name
      PROVE  Awaited(n)'
  <2>1. live[n].name = n
    BY <1>5 DEF Grounded
  <2>2. PICK i \in DOMAIN rpQ : rpQ[i].type # "Delete" /\ rpQ[i].obj = live[n]
    BY <1>5 DEF Awaited
  <2>3. i # 1
    BY <1>1, <1>5, <2>1, <2>2
  <2>4. i - 1 \in DOMAIN rpQ' /\ rpQ'[i - 1] = rpQ[i]
    BY <1>1, <2>3
  <2>5. QED
    BY <2>2, <2>4 DEF Awaited
<1>6. \A j \in DOMAIN rpQ : j > 1 => j - 1 \in DOMAIN rpQ' /\ rpQ'[j - 1] = rpQ[j]
  BY <1>1, <1>2
<1>7. item.type # "Delete" => item.obj = live[item.obj.name] \/ Changes(item.obj.name)'
  BY <1>1, <1>6 DEF QueueFollows, Changes
<1>8. item.tries = 0 => \/ live[item.obj.name] = Absent
                        \/ item.type # "Delete" /\ item.obj = live[item.obj.name]
                        \/ Awaited(item.obj.name)'
  BY <1>1, <1>6 DEF QueueFollows, Awaited
<1>9. item.type # "Delete" => item.tries = 0
  <2>1. rpQ[1] \in Item
    BY <1>1
  <2>2. item.tries \in Nat
    BY <1>1, <2>1 DEF Item
  <2>3. QED
    BY <1>1, <2>2 DEF Grounded
<1>10. QED
  BY <1>3, <1>4, <1>5, <1>7, <1>8, <1>9

LEMMA TakePolicyFollows ==
    ASSUME GroundInv, GroundInv', Following, lost = {}, lost' = {}, TakePolicy
    PROVE  Following'
<1>1. TypeInv /\ TypeInv' /\ Grounded /\ FiltersGrounded
  BY DEF GroundInv, KnownInv
<1>0. PICK item : item = Head(rpQ)
  OBVIOUS
<1> DEFINE n0 == item.obj.name
<1>2. /\ rpQ # << >> /\ rpQ' = Tail(rpQ) /\ tasks["policy"] = Idle
      /\ item \in Item /\ item.obj \in Policy /\ n0 \in Names
      /\ UNCHANGED <<live, wanted, homes, filters, identityDependency, identityCluster, ours>>
      /\ \A u \in Workers \ {"policy"} : tasks'[u] = tasks[u]
      /\ \/ UNCHANGED tasks /\ item.type # "Delete"
         \/ Clears(tasks'["policy"], item)
         \/ /\ Begins(tasks'["policy"], item.obj, {}, Absent, identityDependency)
            /\ item.type # "Delete" /\ ~item.obj.ignore
      /\ IF item.type = "Delete" THEN UNCHANGED rpCache
         ELSE rpCache' = [rpCache EXCEPT ![n0] = item.obj]
  BY <1>0, <1>1, TakePolicyFacts
<1>3. /\ \A u \in Workers \ {"policy"} : tasks[u] = Idle
      /\ item.type = "Delete" /\ item.tries > 0 => live[n0] = Absent
      /\ IF item.type = "Delete" \/ item.obj.ignore
         THEN \/ /\ tasks'["policy"].pc = "delete"
                 /\ \A f \in Of(n0) : f.key \in ours
              \/ UNCHANGED tasks /\ item.type = "Add"
         ELSE /\ \/ UNCHANGED tasks /\ identityDependency = {}
                 \/ tasks'["policy"].pc = "write"
              /\ \A f \in Of(n0) : f.key.plugin = item.obj.plugin
  BY <1>0, <1>1, TakePolicyCalm
<1>4. QueueFollows /\ CacheFollows /\ StaleIsRepaired /\ MissingIsWritten
  BY DEF Following
<1>5. /\ QueueFollows'
      /\ \A n : Changes(n) => Changes(n)' \/ (n = n0 /\ item.type # "Add")
      /\ \A n \in Names : live[n] # Absent /\ Awaited(n) /\ n # n0 => Awaited(n)'
      /\ item.type # "Delete" => item.obj = live[n0] \/ Changes(n0)'
      /\ item.type # "Delete" => item.tries = 0
      /\ item.tries = 0 => \/ live[n0] = Absent
                           \/ item.type # "Delete" /\ item.obj = live[n0]
                           \/ Awaited(n0)'
  BY <1>0, <1>1, <1>2, <1>4, HeadFollows
<1>6. \A key : ~Reached(key) /\ ~Erased(key.name)
  BY <1>2, <1>3 DEF Reached, Erased, Idle
<1>7. rpCache \in [Names -> Policy \cup {Absent}] /\ \A f \in filters : f.key \in Key /\ f.key.name \in Names
  BY <1>1 DEF TypeInv, TypeOK, Filter, Key
<1>8. /\ \A n \in Names : n # n0 => rpCache'[n] = rpCache[n]
      /\ item.type # "Delete" => rpCache'[n0] = item.obj
  BY <1>2, <1>7
<1>9. live[n0] # Absent /\ ~(item.type # "Delete" /\ item.obj = live[n0]) => Awaited(n0)'
  <2>1. item.tries \in Nat
    BY <1>2 DEF Item
  <2>2. QED
    BY <1>3, <1>5, <2>1
<1>10. CacheFollows'
  BY <1>2, <1>4, <1>5, <1>8, <1>9 DEF CacheFollows, Applies
\* Other policies
<1>11. ASSUME NEW key \in Key, key.name # n0
       PROVE  Late(key) => Late(key)'
  BY <1>2, <1>8, <1>11 DEF Late, Applies, Key
<1>12. ASSUME NEW f \in filters, f.key.name # n0
       PROVE  AsNow(f)' \/ Changes(f.key.name)' \/ Late(f.key)'
  <2>1. AsNow(f) \/ Changes(f.key.name) \/ Late(f.key)
    BY <1>4, <1>6 DEF StaleIsRepaired
  <2>2. AsNow(f) => AsNow(f)'
    BY <1>2 DEF AsNow, Applies
  <2>3. QED
    BY <1>5, <1>7, <1>11, <1>12, <2>1, <2>2
<1>13. ASSUME NEW key \in Key, DueKey(key)', key.name # n0
       PROVE  (\E f \in filters : f.key = key) \/ Awaited(key.name)' \/ Late(key)'
  <2>1. DueKey(key) /\ live[key.name] # Absent /\ key.name \in Names
    BY <1>2, <1>13 DEF DueKey, Entitled, Applies, Key
  <2>2. (\E f \in filters : f.key = key) \/ Awaited(key.name) \/ Late(key)
    BY <1>4, <1>6, <2>1 DEF MissingIsWritten
  <2>3. QED
    BY <1>5, <1>11, <1>13, <2>1, <2>2
\* The policy of the event is deleted
<1>14. CASE tasks'["policy"].pc = "delete"
  <2>1. Clears(tasks'["policy"], item)
    BY <1>2, <1>14 DEF Begins, Idle
  <2>2. \A f \in Of(n0) : f.key \in ours
    BY <1>2, <1>3, <1>14 DEF Idle
  <2>3. Applies(n0) => Awaited(n0)'
    <3>1. item.type # "Delete" => item.obj.ignore
      BY <1>2, <1>3, <1>14 DEF Idle
    <3>2. QED
      BY <1>9, <3>1 DEF Applies
  <2>4. WritesCurrent'
    BY <1>2, <1>3, <1>14 DEF WritesCurrent, Idle
  <2>5. DeletesCurrent'
    <3>1. Of(n0)' = Of(n0) /\ (Applies(n0)' <=> Applies(n0)) /\ tasks'["policy"].item = item
      BY <1>2, <2>1 DEF Of, Applies, Clears
    <3>2. QED
      BY <1>2, <1>3, <2>2, <2>3, <3>1 DEF DeletesCurrent, Idle
  <2>6. StaleIsRepaired'
    <3>1. Erased(n0)'
      BY <2>1 DEF Erased, Clears, Workers
    <3>2. QED
      BY <1>2, <1>12, <3>1 DEF StaleIsRepaired
  <2>7. MissingIsWritten'
    <3>1. \A key \in Key : DueKey(key)' /\ key.name = n0 => Awaited(n0)'
      BY <1>2, <2>3 DEF DueKey, Applies
    <3>2. QED
      BY <1>2, <1>13, <3>1 DEF MissingIsWritten
  <2>8. QED
    BY <1>5, <1>10, <2>4, <2>5, <2>6, <2>7 DEF Following
\* It is to be ignored, and was not known
<1>15. CASE UNCHANGED tasks /\ item.type = "Add" /\ item.obj.ignore
  <2>1. WritesCurrent' /\ DeletesCurrent'
    BY <1>2, <1>3, <1>15 DEF WritesCurrent, DeletesCurrent, Idle
  <2>2. Applies(n0) => Changes(n0)' /\ Awaited(n0)'
    BY <1>5, <1>9, <1>15 DEF Applies
  <2>3. StaleIsRepaired'
    <3>1. ASSUME NEW f \in filters, f.key.name = n0
          PROVE  AsNow(f)' \/ Changes(n0)'
      <4>1. AsNow(f) \/ Changes(n0) \/ Late(f.key)
        BY <1>4, <1>6, <3>1 DEF StaleIsRepaired
      <4>2. Applies(n0) \/ Changes(n0)
        BY <3>1, <4>1 DEF AsNow, Late
      <4>3. QED
        BY <1>5, <1>15, <2>2, <4>2
    <3>2. QED
      BY <1>2, <1>12, <3>1 DEF StaleIsRepaired
  <2>4. MissingIsWritten'
    <3>1. \A key \in Key : DueKey(key)' /\ key.name = n0 => Awaited(n0)'
      BY <1>2, <2>2 DEF DueKey, Applies
    <3>2. QED
      BY <1>2, <1>13, <3>1 DEF MissingIsWritten
  <2>5. QED
    BY <1>5, <1>10, <2>1, <2>3, <2>4 DEF Following
\* It is written for the clients that are known
<1>16. CASE item.type # "Delete" /\ ~item.obj.ignore
  <2>1. /\ \/ UNCHANGED tasks /\ identityDependency = {}
           \/ Begins(tasks'["policy"], item.obj, {}, Absent, identityDependency)
        /\ \A f \in Of(n0) : f.key.plugin = item.obj.plugin
    BY <1>2, <1>3, <1>16 DEF Clears, Idle
  <2>2. ASSUME NEW key \in Key, key.at \in Enabled, key.name = n0, key.plugin = item.obj.plugin
        PROVE  Reached(key)' \/ key.client \notin identityDependency
    <3>1. CASE UNCHANGED tasks /\ identityDependency = {}
      BY <3>1
    <3>2. CASE /\ Begins(tasks'["policy"], item.obj, {}, Absent, identityDependency)
               /\ key.client \in identityDependency
      <4>1. /\ <<key.at, key.client>> \in tasks'["policy"].todo
            /\ tasks'["policy"].obj = item.obj /\ tasks'["policy"].pc = "write"
        BY <2>2, <3>2 DEF Begins
      <4>2. ToWrite(tasks'["policy"], key)
        BY <2>2, <4>1 DEF ToWrite
      <4>3. QED
        BY <4>1, <4>2 DEF Reached, ToWrite, Workers
    <3>3. QED
      BY <2>1, <3>1, <3>2
  <2>3. ASSUME NEW key \in Key, key.at \in Enabled, key.name = n0, key.plugin = item.obj.plugin,
               item.obj = live[n0]
        PROVE  Reached(key)' \/ Late(key)'
    <3>1. live[n0] # Absent
      BY <1>2, <2>3, RoutingAssumption
    <3>2. Applies(key.name)' /\ rpCache'[key.name] = live'[key.name]
      BY <1>2, <1>8, <1>16, <2>3, <3>1 DEF Applies
    <3>3. QED
      BY <1>2, <2>2, <2>3, <3>2 DEF Late
  <2>4. item.obj = live[n0] \/ Changes(n0)'
    BY <1>5, <1>16
  <2>5. StaleIsRepaired'
    <3>1. ASSUME NEW f \in filters, f.key.name = n0
          PROVE  Changes(n0)' \/ Reached(f.key)' \/ Late(f.key)'
      <4>1. f.key.at \in Enabled
        BY <1>1 DEF FiltersGrounded, Entitled
      <4>2. f.key.plugin = item.obj.plugin
        BY <2>1, <3>1 DEF Of
      <4>3. QED
        BY <1>7, <2>3, <2>4, <3>1, <4>1, <4>2
    <3>2. QED
      BY <1>2, <1>12, <3>1 DEF StaleIsRepaired
  <2>6. MissingIsWritten'
    <3>1. ASSUME NEW key \in Key, DueKey(key)', key.name = n0
          PROVE  Awaited(n0)' \/ Reached(key)' \/ Late(key)'
      <4>1. live[n0] # Absent /\ key.plugin = live[n0].plugin /\ key.at \in Enabled
        BY <1>2, <3>1 DEF DueKey, Applies, Entitled
      <4>2. QED
        BY <1>9, <2>3, <3>1, <4>1
    <3>2. QED
      BY <1>2, <1>13, <3>1 DEF MissingIsWritten
  <2>7. WritesCurrent'
    <3>1. Current(item.obj)'
      BY <1>2, <1>8, <1>16, <2>4 DEF Current
    <3>2. CASE UNCHANGED tasks
      BY <1>2, <1>3, <3>2 DEF WritesCurrent, Idle
    <3>3. CASE Begins(tasks'["policy"], item.obj, {}, Absent, identityDependency)
      <4>1. /\ tasks'["policy"].obj = item.obj /\ ~tasks'["policy"].err
            /\ tasks'["policy"].more = {} /\ tasks'["policy"].now = Absent
        BY <3>3 DEF Begins
      <4>2. \A u \in Workers \ {"policy"} : tasks'[u].pc # "write"
        BY <1>2, <1>3 DEF Idle
      <4>3. QED
        BY <3>1, <4>1, <4>2 DEF WritesCurrent
    <3>4. QED
      BY <2>1, <3>2, <3>3
  <2>8. DeletesCurrent'
    BY <1>2, <1>3, <2>1 DEF DeletesCurrent, Idle, Begins
  <2>9. QED
    BY <1>5, <1>10, <2>5, <2>6, <2>7, <2>8 DEF Following
<1>17. QED
  BY <1>3, <1>14, <1>15, <1>16

\* The filters that client c should have, one by one
LEMMA DueIsDue ==
    ASSUME NEW key \in Key, DueKey(key)
    PROVE  [key |-> key, rev |-> live[key.name].rev] \in Due(key.client)
<1>1. /\ key.at \in homes[key.client] \cap Enabled /\ key.name \in Names /\ key.version \in Versions
      /\ live[key.name] # Absent /\ ~live[key.name].ignore /\ key.plugin = live[key.name].plugin
  BY DEF DueKey, Entitled, Applies, Key
<1>2. key = [at |-> key.at, name |-> key.name, plugin |-> live[key.name].plugin,
             client |-> key.client, version |-> key.version]
  BY <1>1 DEF Key
<1>3. QED
  BY <1>1, <1>2 DEF Due

LEMMA TakeDependencyFollows ==
    ASSUME GroundInv, GroundInv', Following, lost = {}, lost' = {},
           TakeDependency \/ DependencyFails
    PROVE  Following'
<1>1. TypeInv /\ TypeInv' /\ Grounded /\ FiltersGrounded
  BY DEF GroundInv, KnownInv
<1>0. PICK ask : ask = Head(depQ)
  OBVIOUS
<1> DEFINE c == ask.client
<1>2. /\ tasks["dependency"] = Idle /\ ask \in Ask /\ c \in Clients
      /\ UNCHANGED <<live, wanted, homes, filters, rpQ, rpCache, identityCluster, ours>>
      /\ identityDependency' = identityDependency \cup {c}
      /\ \A u \in Workers \ {"dependency"} : tasks'[u] = tasks[u]
      /\ \/ /\ UNCHANGED tasks
            /\ GetForIdentity = {} \/ Due(c) \subseteq filters
         \/ /\ \E p \in GetForIdentity :
                 Begins(tasks'["dependency"], p, GetForIdentity \ {p}, ask, {c})
            /\ \A u \in Workers \ {"dependency"} : tasks[u] = Idle
            /\ \A p \in GetForIdentity : ~p.ignore
            /\ Gone = {}
  <2>1. CASE TakeDependency
    BY <1>0, <1>1, <2>1, TakeDependencyFacts
  <2>2. CASE DependencyFails
    BY <1>0, <1>1, <2>2, DependencyFailsFacts DEF Note
  <2>3. QED
    BY <2>1, <2>2
<1>3. /\ QueueFollows /\ CacheFollows /\ WritesCurrent /\ DeletesCurrent /\ StaleIsRepaired
      /\ MissingIsWritten
  BY DEF Following
<1>4. QueueFollows' /\ CacheFollows'
  BY <1>2, <1>3 DEF QueueFollows, CacheFollows, Applies, Awaited
<1>5. /\ \A n : Changes(n)' <=> Changes(n)
      /\ \A n : Awaited(n)' <=> Awaited(n)
      /\ \A f : AsNow(f)' <=> AsNow(f)
      /\ \A n : Applies(n)' <=> Applies(n)
      /\ \A p : Current(p)' <=> Current(p)
      /\ \A key : DueKey(key)' <=> DueKey(key)
  BY <1>2 DEF Changes, Awaited, AsNow, Applies, Current, DueKey, Entitled
<1>6. \A key : Late(key) => Late(key)' \/ key.client = c
  BY <1>2 DEF Late, Applies
<1>7. /\ \A f \in filters : f \in Filter /\ f.key \in Key /\ Entitled(f.key.at, f.key.client)
      /\ \A f, g \in filters : f.key = g.key => f = g
  <2>1. /\ \A f \in filters : f \in Filter /\ Entitled(f.key.at, f.key.client)
        /\ \A f, g \in filters : f.key = g.key => f = g
    BY <1>1 DEF TypeInv, TypeOK, FiltersGrounded
  <2>2. QED
    BY <2>1 DEF Filter
<1>8. CASE UNCHANGED tasks /\ (GetForIdentity = {} \/ Due(c) \subseteq filters)
  <2>1. WritesCurrent' /\ DeletesCurrent'
    <3>1. WritesCurrent'
      BY <1>2, <1>3, <1>5, <1>8 DEF WritesCurrent
    <3>2. \A n : Of(n)' = Of(n)
      BY <1>2 DEF Of
    <3>3. DeletesCurrent'
      BY <1>2, <1>3, <1>5, <1>8, <3>2 DEF DeletesCurrent
    <3>4. QED
      BY <3>1, <3>3
  <2>2. \A key : (Reached(key) => Reached(key)') /\ (Erased(key.name) => Erased(key.name)')
    BY <1>8 DEF Reached, Erased
  <2>3. ASSUME NEW key \in Key, Late(key), key.client = c, Entitled(key.at, key.client)
        PROVE  \E f \in filters : f.key = key /\ f.rev = live[key.name].rev
    <3>1. /\ DueKey(key) /\ rpCache[key.name] = live[key.name] /\ live[key.name] # Absent
          /\ key.name \in Names
      BY <2>3 DEF Late, DueKey, Applies, Key
    <3>2. live[key.name] \in GetForIdentity
      BY <3>1 DEF GetForIdentity
    <3>3. [key |-> key, rev |-> live[key.name].rev] \in filters
      BY <1>8, <2>3, <3>1, <3>2, DueIsDue
    <3>4. QED
      BY <3>3
  <2>4. StaleIsRepaired'
    <3> SUFFICES ASSUME NEW f \in filters
                 PROVE  \/ AsNow(f) \/ Changes(f.key.name) \/ Erased(f.key.name)'
                        \/ Reached(f.key)' \/ Late(f.key)'
      BY <1>2, <1>5 DEF StaleIsRepaired
    <3>1. AsNow(f) \/ Changes(f.key.name) \/ Erased(f.key.name) \/ Reached(f.key) \/ Late(f.key)
      BY <1>3 DEF StaleIsRepaired
    <3>2. CASE Late(f.key) /\ f.key.client = c
      <4>1. f.rev = live[f.key.name].rev
        BY <1>7, <2>3, <3>2
      <4>2. QED
        BY <3>2, <4>1 DEF Late, AsNow
    <3>3. QED
      BY <1>6, <2>2, <3>1, <3>2
  <2>5. MissingIsWritten'
    <3> SUFFICES ASSUME NEW key \in Key, DueKey(key)
                 PROVE  \/ \E f \in filters : f.key = key
                        \/ Awaited(key.name) \/ Reached(key)' \/ Late(key)'
      BY <1>2, <1>5 DEF MissingIsWritten
    <3>1. (\E f \in filters : f.key = key) \/ Awaited(key.name) \/ Reached(key) \/ Late(key)
      BY <1>3 DEF MissingIsWritten
    <3>2. Entitled(key.at, key.client)
      BY DEF DueKey
    <3>3. QED
      BY <1>6, <2>2, <2>3, <3>1, <3>2
  <2>6. QED
    BY <1>4, <2>1, <2>4, <2>5 DEF Following
<1>9. ASSUME NEW p \in GetForIdentity,
             Begins(tasks'["dependency"], p, GetForIdentity \ {p}, ask, {c}),
             \A u \in Workers \ {"dependency"} : tasks[u] = Idle,
             \A q \in GetForIdentity : ~q.ignore, Gone = {}
      PROVE  Following'
  <2>1. /\ tasks'["dependency"].pc = "write" /\ tasks'["dependency"].obj = p
        /\ tasks'["dependency"].more = GetForIdentity \ {p} /\ tasks'["dependency"].ask = ask
        /\ ~tasks'["dependency"].err /\ tasks'["dependency"].now = Absent
        /\ tasks'["dependency"].todo = Enabled \X {c}
    BY <1>9 DEF Begins
  <2>2. \A u \in Workers : tasks[u].pc = "idle" /\ (u # "dependency" => tasks'[u].pc = "idle")
    BY <1>2, <1>9 DEF Idle
  <2>3. ASSUME NEW q \in GetForIdentity
        PROVE  Current(q)
    <3>1. PICK n \in Names : q = rpCache[n] /\ rpCache[n] # Absent
      BY DEF GetForIdentity
    <3>2. q.name = n
      BY <1>1, <3>1 DEF Grounded
    <3>3. rpCache[n] = live[n] \/ \E i \in DOMAIN rpQ : rpQ[i].obj.name = n /\ rpQ[i].type # "Add"
      BY <1>9, <3>1 DEF Gone
    <3>4. QED
      BY <1>9, <3>1, <3>2, <3>3 DEF Current, Changes
  <2>4. WritesCurrent'
    <3>1. /\ Current(tasks["dependency"].obj)'
          /\ \A q \in tasks'["dependency"].more : Current(q)'
      BY <1>5, <1>9, <2>1, <2>3
    <3>2. QED
      BY <2>1, <2>2, <3>1 DEF WritesCurrent
  <2>5. DeletesCurrent'
    BY <2>1, <2>2 DEF DeletesCurrent
  <2>6. \A key : ~Reached(key) /\ ~Erased(key.name)
    BY <2>2 DEF Reached, Erased
  <2>7. ASSUME NEW key \in Key, Late(key), key.at \in Enabled
        PROVE  Reached(key)' \/ Late(key)'
    <3>1. CASE key.client # c
      BY <1>6, <2>7, <3>1
    <3>2. CASE key.client = c
      <4>1. /\ rpCache[key.name] = live[key.name] /\ live[key.name] # Absent
            /\ key.name \in Names /\ key.plugin = live[key.name].plugin
        BY <2>7 DEF Late, Applies, Key
      <4>2. live[key.name] \in GetForIdentity /\ live[key.name].name = key.name
        BY <1>1, <4>1 DEF GetForIdentity, Grounded
      <4>3. <<key.at, key.client>> \in tasks'["dependency"].todo
        BY <2>1, <2>7, <3>2
      <4>4. ToWrite(tasks'["dependency"], key)
        <5>1. CASE live[key.name] = p
          BY <2>1, <4>1, <4>2, <4>3, <5>1 DEF ToWrite
        <5>2. CASE live[key.name] # p
          BY <2>1, <3>2, <4>1, <4>2, <5>2 DEF ToWrite
        <5>3. QED
          BY <5>1, <5>2
      <4>5. QED
        BY <2>1, <4>4 DEF Reached, ToWrite, Workers
    <3>3. QED
      BY <3>1, <3>2
  <2>8. StaleIsRepaired'
    <3>1. \A f \in filters : AsNow(f) \/ Changes(f.key.name) \/ Late(f.key)
      BY <1>3, <2>6 DEF StaleIsRepaired
    <3>2. \A f \in filters : f.key \in Key /\ f.key.at \in Enabled
      BY <1>7 DEF Entitled
    <3>3. QED
      BY <1>2, <1>5, <2>7, <3>1, <3>2 DEF StaleIsRepaired
  <2>9. MissingIsWritten'
    <3> SUFFICES ASSUME NEW key \in Key, DueKey(key)
                 PROVE  \/ \E f \in filters : f.key = key
                        \/ Awaited(key.name) \/ Reached(key)' \/ Late(key)'
      BY <1>2, <1>5 DEF MissingIsWritten
    <3>1. (\E f \in filters : f.key = key) \/ Awaited(key.name) \/ Late(key)
      BY <1>3, <2>6 DEF MissingIsWritten
    <3>2. key.at \in Enabled
      BY DEF DueKey, Entitled
    <3>3. QED
      BY <2>7, <3>1, <3>2
  <2>10. QED
    BY <1>4, <2>4, <2>5, <2>8, <2>9 DEF Following
<1>10. QED
  BY <1>2, <1>8, <1>9

\* A user creates, changes or removes policy n0, which is queued as an event
LEMMA UserFollows ==
    ASSUME GroundInv, GroundInv', Following, NEW n0 \in Names, Apply(n0) \/ Remove(n0)
    PROVE  Following'
<1>1. TypeInv /\ TypeInv' /\ Grounded /\ FiltersGrounded
  BY DEF GroundInv, KnownInv
<1>2. UNCHANGED <<wanted, homes, filters, rpCache, identityDependency, identityCluster, tasks, ours>>
  BY DEF Apply, Remove, caches
<1>3. /\ rpQ \in Seq(Item) /\ live \in [Names -> Policy \cup {Absent}] /\ Absent \notin Policy
      /\ \A f \in filters : f.key \in Key /\ f.key.name \in Names
  BY <1>1, RoutingAssumption DEF TypeInv, TypeOK, Filter, Key
<1>4. PICK new \in Policy \cup {Absent}, item \in Item :
         /\ live' = [live EXCEPT ![n0] = new] /\ rpQ' = Append(rpQ, item)
         /\ item.obj.name = n0 /\ item.tries = 0
         /\ live[n0] # Absent => item.type # "Add"
         /\ \/ new = Absent /\ item.type = "Delete"
            \/ new = item.obj /\ item.type # "Delete"
  <2>1. CASE Apply(n0)
    <3>1. clock' \in Nat
      BY <1>1, <2>1 DEF Apply, TypeInv, TypeOK
    <3>2. PICK plugin \in Plugins, ignore \in BOOLEAN :
             LET p == [name |-> n0, plugin |-> plugin, ignore |-> ignore, rev |-> clock'] IN
             /\ live' = [live EXCEPT ![n0] = p]
             /\ Emit(IF live[n0] = Absent THEN "Add" ELSE "Update", p)
      BY <2>1 DEF Apply
    <3> DEFINE p == [name |-> n0, plugin |-> plugin, ignore |-> ignore, rev |-> clock']
               it == [type |-> IF live[n0] = Absent THEN "Add" ELSE "Update", obj |-> p, tries |-> 0]
    <3>3. p \in Policy /\ p.name = n0 /\ live' = [live EXCEPT ![n0] = p]
      BY <3>1, <3>2 DEF Policy
    <3>4. rpQ' = Append(rpQ, it)
      BY <3>2 DEF Emit
    <3> HIDE DEF p
    <3>5. it \in Item /\ it.obj = p /\ it.tries = 0 /\ it.type # "Delete"
          /\ (live[n0] # Absent => it.type # "Add")
      BY <3>3 DEF Item
    <3> HIDE DEF it
    <3>6. QED
      BY <3>3, <3>4, <3>5
  <2>2. CASE Remove(n0)
    <3> DEFINE it == [type |-> "Delete", obj |-> live[n0], tries |-> 0]
    <3>1. live[n0] # Absent /\ live' = [live EXCEPT ![n0] = Absent] /\ rpQ' = Append(rpQ, it)
      BY <2>2 DEF Remove, Emit
    <3>2. live[n0].name = n0
      BY <1>1, <3>1 DEF Grounded
    <3>3. it \in Item /\ it.obj.name = n0 /\ it.tries = 0 /\ it.type = "Delete"
      BY <1>3, <3>1, <3>2 DEF Item
    <3> HIDE DEF it
    <3>4. QED
      BY <3>1, <3>3
  <2>3. QED
    BY <2>1, <2>2
<1>5. live'[n0] = new /\ \A n \in Names : n # n0 => live'[n] = live[n]
  BY <1>3, <1>4
<1>6. /\ \A n : Changes(n) => Changes(n)'
      /\ \A n \in Names : n # n0 /\ Awaited(n) => Awaited(n)'
      /\ live[n0] # Absent => Changes(n0)'
      /\ live'[n0] = Absent \/ Awaited(n0)'
  BY <1>3, <1>4, <1>5, QueueGrows
<1>7. /\ \A i \in DOMAIN rpQ' : \/ i \in DOMAIN rpQ /\ rpQ'[i] = rpQ[i]
                                \/ i = Len(rpQ) + 1 /\ rpQ'[i] = item
      /\ \A i \in DOMAIN rpQ : i \in DOMAIN rpQ' /\ rpQ'[i] = rpQ[i] /\ i < Len(rpQ) + 1
      /\ Len(rpQ) + 1 \in DOMAIN rpQ' /\ rpQ'[Len(rpQ) + 1] = item
      /\ \A i \in DOMAIN rpQ : rpQ[i] \in Item /\ rpQ[i].obj \in Policy /\ rpQ[i].obj.name \in Names
  <2>1. \A i \in DOMAIN rpQ : rpQ[i] \in Item
    BY <1>3
  <2>2. \A i \in DOMAIN rpQ : rpQ[i].obj \in Policy /\ rpQ[i].obj.name \in Names
    BY <2>1 DEF Item, Policy
  <2>3. QED
    BY <1>3, <1>4, <2>1, <2>2, AppendFacts
<1>8. /\ QueueFollows /\ CacheFollows /\ WritesCurrent /\ DeletesCurrent /\ StaleIsRepaired
      /\ MissingIsWritten
  BY DEF Following
<1>9. QueueFollows'
  <2> SUFFICES ASSUME NEW i \in DOMAIN rpQ'
               PROVE  LET n == rpQ'[i].obj.name IN
                      /\ rpQ'[i].type # "Delete" =>
                           \/ rpQ'[i].obj = live'[n]
                           \/ \E j \in DOMAIN rpQ' : j > i /\ rpQ'[j].obj.name = n /\ rpQ'[j].type # "Add"
                      /\ rpQ'[i].tries = 0 =>
                           \/ live'[n] = Absent
                           \/ rpQ'[i].type # "Delete" /\ rpQ'[i].obj = live'[n]
                           \/ \E j \in DOMAIN rpQ' : /\ j > i /\ rpQ'[j].type # "Delete"
                                                     /\ rpQ'[j].obj = live'[n]
    BY DEF QueueFollows
  <2>1. CASE i = Len(rpQ) + 1 /\ rpQ'[i] = item
    BY <1>4, <1>5, <2>1
  <2>2. CASE i \in DOMAIN rpQ /\ rpQ'[i] = rpQ[i]
    <3> DEFINE n == rpQ[i].obj.name
    <3>1. /\ rpQ[i].type # "Delete" =>
               \/ rpQ[i].obj = live[n]
               \/ \E j \in DOMAIN rpQ : j > i /\ rpQ[j].obj.name = n /\ rpQ[j].type # "Add"
          /\ rpQ[i].tries = 0 =>
               \/ live[n] = Absent
               \/ rpQ[i].type # "Delete" /\ rpQ[i].obj = live[n]
               \/ \E j \in DOMAIN rpQ : j > i /\ rpQ[j].type # "Delete" /\ rpQ[j].obj = live[n]
      BY <1>8, <2>2 DEF QueueFollows
    <3>2. n \in Names /\ rpQ[i].obj \in Policy
      BY <1>7, <2>2
    <3>3. CASE n # n0
      <4>1. live'[n] = live[n]
        BY <1>5, <3>2, <3>3
      <4>2. QED
        BY <1>7, <2>2, <3>1, <4>1
    <3>4. CASE n = n0
      <4>1. Len(rpQ) + 1 > i
        BY <1>3, <1>7, <2>2
      <4>2. rpQ[i].obj = live[n] => item.type # "Add"
        BY <1>3, <1>4, <3>2, <3>4
      <4>3. /\ rpQ'[i].type # "Delete" =>
                 \/ rpQ'[i].obj = live'[n]
                 \/ \E j \in DOMAIN rpQ' : j > i /\ rpQ'[j].obj.name = n /\ rpQ'[j].type # "Add"
        BY <1>4, <1>7, <2>2, <3>1, <3>4, <4>1, <4>2
      <4>4. \/ live'[n] = Absent
            \/ \E j \in DOMAIN rpQ' : j > i /\ rpQ'[j].type # "Delete" /\ rpQ'[j].obj = live'[n]
        BY <1>4, <1>5, <1>7, <3>4, <4>1
      <4>5. QED
        BY <2>2, <4>3, <4>4
    <3>5. QED
      BY <3>3, <3>4
  <2>3. QED
    BY <1>7, <2>1, <2>2
<1>10. \A n \in Names : n # n0 => (Applies(n)' <=> Applies(n))
  BY <1>5 DEF Applies
<1>11. Applies(n0)' => Awaited(n0)'
  BY <1>6 DEF Applies
<1>12. CacheFollows'
  BY <1>2, <1>5, <1>6, <1>8, <1>10, <1>11 DEF CacheFollows
<1>13. WritesCurrent'
  <2>1. ASSUME NEW p \in Policy, Current(p)
        PROVE  Current(p)'
    <3>1. p.name \in Names /\ p # Absent
      BY <1>3 DEF Policy
    <3>2. CASE p.name = n0
      BY <1>2, <1>6, <2>1, <3>1, <3>2 DEF Current
    <3>3. CASE p.name # n0
      BY <1>2, <1>5, <1>6, <2>1, <3>1, <3>3 DEF Current
    <3>4. QED
      BY <3>2, <3>3
  <2>2. \A w \in Workers : tasks[w].pc = "write" => tasks[w].obj \in Policy /\ tasks[w].more \subseteq Policy
    BY <1>1, WriteType DEF TypeInv
  <2>3. \A w \in Workers : tasks[w].pc = "write" =>
           /\ Current(tasks[w].obj)' /\ \A p \in tasks[w].more : Current(p)'
    BY <1>2, <1>8, <2>1, <2>2 DEF WritesCurrent
  <2>4. QED
    BY <1>2, <1>8, <2>3 DEF WritesCurrent
<1>14. DeletesCurrent'
  <2>1. \A w \in Workers : tasks[w].pc = "delete" => tasks[w].item.obj.name \in Names
    BY <1>1, DeleteType DEF TypeInv
  <2>2. \A n : Of(n)' = Of(n)
    BY <1>2 DEF Of
  <2>3. \A w \in Workers : tasks[w].pc = "delete" =>
           (Applies(tasks[w].item.obj.name)' => Awaited(tasks[w].item.obj.name)')
    <3>1. \A n \in Names : (Applies(n) => Awaited(n)) => (Applies(n)' => Awaited(n)')
      BY <1>6, <1>10, <1>11
    <3>2. QED
      BY <1>2, <1>8, <2>1, <3>1 DEF DeletesCurrent
  <2>4. QED
    BY <1>2, <1>8, <2>2, <2>3 DEF DeletesCurrent
<1>15. \A key : (Reached(key)' <=> Reached(key)) /\ (Erased(key.name)' <=> Erased(key.name))
  BY <1>2 DEF Reached, Erased
<1>16. \A key \in Key : key.name # n0 /\ Late(key) => Late(key)'
  BY <1>2, <1>5 DEF Late, Applies, Key
<1>17. StaleIsRepaired'
  <2> SUFFICES ASSUME NEW f \in filters
               PROVE  \/ AsNow(f)' \/ Changes(f.key.name)' \/ Erased(f.key.name)
                      \/ Reached(f.key) \/ Late(f.key)'
    BY <1>2, <1>15 DEF StaleIsRepaired
  <2>1. AsNow(f) \/ Changes(f.key.name) \/ Erased(f.key.name) \/ Reached(f.key) \/ Late(f.key)
    BY <1>8 DEF StaleIsRepaired
  <2>2. CASE f.key.name = n0
    <3>1. AsNow(f) \/ Late(f.key) => live[n0] # Absent
      BY <2>2 DEF AsNow, Late, Applies
    <3>2. QED
      BY <1>6, <2>1, <2>2, <3>1
  <2>3. CASE f.key.name # n0
    <3>1. AsNow(f) => AsNow(f)'
      BY <1>3, <1>5, <2>3 DEF AsNow, Applies
    <3>2. QED
      BY <1>3, <1>6, <1>16, <2>1, <2>3, <3>1
  <2>4. QED
    BY <2>2, <2>3
<1>18. MissingIsWritten'
  <2> SUFFICES ASSUME NEW key \in Key, DueKey(key)'
               PROVE  \/ \E f \in filters : f.key = key
                      \/ Awaited(key.name)' \/ Reached(key) \/ Late(key)'
    BY <1>2, <1>15 DEF MissingIsWritten
  <2>1. CASE key.name = n0
    BY <1>11, <2>1 DEF DueKey
  <2>2. CASE key.name # n0
    <3>1. DueKey(key) /\ key.name \in Names
      BY <1>2, <1>5, <2>2 DEF DueKey, Entitled, Applies, Key
    <3>2. (\E f \in filters : f.key = key) \/ Awaited(key.name) \/ Reached(key) \/ Late(key)
      BY <1>8, <3>1 DEF MissingIsWritten
    <3>3. QED
      BY <1>6, <1>16, <2>2, <3>1, <3>2
  <2>3. QED
    BY <2>1, <2>2
<1>19. QED
  BY <1>9, <1>12, <1>13, <1>14, <1>17, <1>18 DEF Following

\* Clients come, and are heard of
LEMMA ClientFollows ==
    ASSUME GroundInv, GroundInv', Following, lost' = {},
           NEW c \in Clients, NEW k \in Clusters, Depend(c) \/ Deploy(c, k) \/ Discover(c, k)
    PROVE  Following'
<1>1. TypeInv /\ TypeInv' /\ Grounded /\ FiltersGrounded
  BY DEF GroundInv, KnownInv
<1>2. UNCHANGED <<live, filters, rpQ, rpCache, identityDependency, tasks, ours>>
  BY DEF Depend, Deploy, Discover, caches, world
<1>3. /\ QueueFollows /\ CacheFollows /\ WritesCurrent /\ DeletesCurrent /\ StaleIsRepaired
      /\ MissingIsWritten
  BY DEF Following
<1>4. QueueFollows' /\ CacheFollows'
  BY <1>2, <1>3 DEF QueueFollows, CacheFollows, Applies, Awaited
<1>5. /\ \A n : Changes(n)' <=> Changes(n)
      /\ \A n : Awaited(n)' <=> Awaited(n)
      /\ \A f : AsNow(f)' <=> AsNow(f)
      /\ \A n : Applies(n)' <=> Applies(n)
      /\ \A p : Current(p)' <=> Current(p)
      /\ \A key : Reached(key)' <=> Reached(key)
      /\ \A n : Erased(n)' <=> Erased(n)
  BY <1>2 DEF Changes, Awaited, AsNow, Applies, Current, Reached, Erased
<1>6. WritesCurrent'
  BY <1>2, <1>3, <1>5 DEF WritesCurrent
<1>7. DeletesCurrent'
  <2>1. \A n : Of(n)' = Of(n)
    BY <1>2 DEF Of
  <2>2. QED
    BY <1>2, <1>3, <1>5, <2>1 DEF DeletesCurrent
<1>8. /\ \A f \in filters : f \in Filter /\ f.key \in Key /\ Entitled(f.key.at, f.key.client)
      /\ \A f, g \in filters : f.key = g.key => f = g
  <2>1. /\ \A f \in filters : f \in Filter /\ Entitled(f.key.at, f.key.client)
        /\ \A f, g \in filters : f.key = g.key => f = g
    BY <1>1 DEF TypeInv, TypeOK, FiltersGrounded
  <2>2. QED
    BY <2>1 DEF Filter
<1>9. CASE Depend(c) \/ Deploy(c, k)
  <2>1. /\ UNCHANGED identityCluster
        /\ \/ wanted' = wanted \cup {c} /\ UNCHANGED homes
           \/ homes' = [homes EXCEPT ![c] = @ \cup {k}] /\ k \notin homes[c] /\ UNCHANGED wanted
    BY <1>9 DEF Depend, Deploy, caches
  <2>2. \A key : Late(key)' <=> Late(key)
    BY <1>2, <2>1 DEF Late, Applies
  <2>3. StaleIsRepaired'
    BY <1>2, <1>3, <1>5, <2>2 DEF StaleIsRepaired
  <2>4. MissingIsWritten'
    <3> SUFFICES ASSUME NEW key \in Key, DueKey(key)'
                 PROVE  \/ \E f \in filters : f.key = key
                        \/ Awaited(key.name) \/ Reached(key) \/ Late(key)
      BY <1>2, <1>5, <2>2 DEF MissingIsWritten
    <3>1. CASE DueKey(key)
      BY <1>3, <3>1 DEF MissingIsWritten
    <3>2. CASE ~DueKey(key)
      <4>1. /\ Applies(key.name) /\ key.plugin = live[key.name].plugin /\ key.name \in Names
            /\ key.client \in wanted' /\ key.at \in homes'[key.client] \cap Enabled
            /\ key.client \in Clients /\ key.at \in Clusters
        BY <1>2, <1>5 DEF DueKey, Entitled, Key
      <4>2. ~(key.client \in wanted /\ key.at \in homes[key.client])
        BY <3>2, <4>1 DEF DueKey, Entitled
      <4>3. homes \in [Clients -> SUBSET Clusters]
        BY <1>1 DEF TypeInv, TypeOK
      <4>4. key.client \notin wanted \/ key.at \notin homes[key.client]
        BY <4>2
      <4>5. key.client \notin identityDependency \/ key.at \notin identityCluster[key.client]
        BY <1>1, <4>1, <4>4 DEF Grounded
      <4>6. rpCache[key.name] = live[key.name] \/ Awaited(key.name)
        BY <1>3, <4>1 DEF CacheFollows
      <4>7. QED
        BY <4>1, <4>5, <4>6 DEF Late
    <3>3. QED
      BY <3>1, <3>2
  <2>5. QED
    BY <1>4, <1>6, <1>7, <2>3, <2>4 DEF Following
<1>10. CASE Discover(c, k)
  <2>1. /\ UNCHANGED <<wanted, homes>>
        /\ identityCluster' = [identityCluster EXCEPT ![c] = @ \cup {k}]
        /\ Note("moved", /\ c \in identityDependency
                         /\ \E n \in Names : rpCache[n] # Absent
                         /\ ~ (Due(c) \subseteq filters)) = {}
    BY <1>10 DEF Discover, world
  <2>2. \/ c \notin identityDependency
        \/ \A n \in Names : rpCache[n] = Absent
        \/ Due(c) \subseteq filters
    BY <2>1 DEF Note
  <2>3. identityCluster \in [Clients -> SUBSET Clusters]
    BY <1>1 DEF TypeInv, TypeOK
  <2>4. \A x \in Clients : x # c => identityCluster'[x] = identityCluster[x]
    BY <2>1, <2>3
  <2>5. ASSUME NEW key \in Key, Late(key), Entitled(key.at, key.client)
        PROVE  \/ Late(key)'
               \/ \E f \in filters : f.key = key /\ f.rev = live[key.name].rev
    <3>1. key.client \in Clients /\ key.name \in Names
      BY DEF Key
    <3>2. CASE key.client # c \/ c \notin identityDependency
      BY <1>2, <2>4, <2>5, <3>1, <3>2 DEF Late, Applies
    <3>3. CASE key.client = c /\ c \in identityDependency
      <4>1. DueKey(key) /\ rpCache[key.name] # Absent
        BY <2>5 DEF Late, DueKey, Applies
      <4>2. [key |-> key, rev |-> live[key.name].rev] \in filters
        BY <2>2, <3>1, <3>3, <4>1, DueIsDue
      <4>3. QED
        BY <4>2
    <3>4. QED
      BY <3>2, <3>3
  <2>6. StaleIsRepaired'
    <3> SUFFICES ASSUME NEW f \in filters
                 PROVE  \/ AsNow(f) \/ Changes(f.key.name) \/ Erased(f.key.name)
                        \/ Reached(f.key) \/ Late(f.key)'
      BY <1>2, <1>5 DEF StaleIsRepaired
    <3>1. AsNow(f) \/ Changes(f.key.name) \/ Erased(f.key.name) \/ Reached(f.key) \/ Late(f.key)
      BY <1>3 DEF StaleIsRepaired
    <3>2. CASE Late(f.key)
      <4>1. Late(f.key)' \/ f.rev = live[f.key.name].rev
        BY <1>8, <2>5, <3>2
      <4>2. QED
        BY <3>2, <4>1 DEF Late, AsNow
    <3>3. QED
      BY <3>1, <3>2
  <2>7. MissingIsWritten'
    <3> SUFFICES ASSUME NEW key \in Key, DueKey(key)
                 PROVE  \/ \E f \in filters : f.key = key
                        \/ Awaited(key.name) \/ Reached(key) \/ Late(key)'
      BY <1>2, <1>5, <2>1 DEF MissingIsWritten, DueKey, Entitled
    <3>1. (\E f \in filters : f.key = key) \/ Awaited(key.name) \/ Reached(key) \/ Late(key)
      BY <1>3 DEF MissingIsWritten
    <3>2. Entitled(key.at, key.client)
      BY DEF DueKey
    <3>3. QED
      BY <2>5, <3>1, <3>2
  <2>8. QED
    BY <1>4, <1>6, <1>7, <2>6, <2>7 DEF Following
<1>11. QED
  BY <1>9, <1>10

\* What Expected contains
LEMMA ExpectedKeys ==
    ASSUME TypeInv, NEW f \in Expected
    PROVE  /\ f.key \in Key /\ DueKey(f.key) /\ f.rev = live[f.key.name].rev
           /\ f = [key |-> f.key, rev |-> live[f.key.name].rev]
<1>1. PICK c \in wanted : f \in Due(c)
  BY DEF Expected
<1>2. PICK k \in homes[c] \cap Enabled, n \in {m \in Names : live[m] # Absent /\ ~live[m].ignore},
           v \in Versions :
         f = [key |-> [at |-> k, name |-> n, plugin |-> live[n].plugin, client |-> c, version |-> v],
              rev |-> live[n].rev]
  BY <1>1 DEF Due
<1>3. /\ c \in Clients /\ k \in Clusters /\ n \in Names /\ live[n] \in Policy
  BY RoutingAssumption DEF TypeInv, TypeOK
<1>4. live[n].plugin \in Plugins
  BY <1>3 DEF Policy
<1> DEFINE key == [at |-> k, name |-> n, plugin |-> live[n].plugin, client |-> c, version |-> v]
<1>5. key \in Key /\ f.key = key /\ f.rev = live[n].rev
  BY <1>2, <1>3, <1>4 DEF Key
<1>6. DueKey(key)
  BY <1>1, <1>2 DEF DueKey, Entitled, Applies
<1>7. QED
  BY <1>2, <1>5, <1>6

LEMMA RestartFollows ==
    ASSUME GroundInv, lost' = {}, Restart
    PROVE  Following'
<1>1. TypeInv /\ Grounded
  BY DEF GroundInv, KnownInv
<1> DEFINE alive == {n \in Names : live[n] # Absent}
<1>2. /\ UNCHANGED <<live, wanted, homes, filters>>
      /\ rpCache' = [n \in Names |-> Absent] /\ tasks' = [w \in Workers |-> Idle]
      /\ Note("restart", filters # Expected) = {}
  BY DEF Restart, world
<1>3. filters = Expected
  BY <1>2 DEF Note
<1>4. PICK s \in [1 .. Cardinality(alive) -> alive] :
         /\ \A n \in alive : \E i \in DOMAIN s : s[i] = n
         /\ rpQ' = [i \in DOMAIN s |-> [type |-> "Add", obj |-> live[s[i]], tries |-> 0]]
  BY DEF Restart
<1>5. /\ DOMAIN rpQ' = DOMAIN s
      /\ \A i \in DOMAIN s : /\ rpQ'[i].type = "Add" /\ rpQ'[i].obj = live[s[i]]
                             /\ s[i] \in Names /\ live[s[i]].name = s[i]
  BY <1>1, <1>4 DEF Grounded
<1>6. QueueFollows'
  BY <1>2, <1>5 DEF QueueFollows
<1>7. CacheFollows'
  <2>1. \A n \in Names : live[n] # Absent => Awaited(n)'
    BY <1>2, <1>4, <1>5 DEF Awaited
  <2>2. QED
    BY <1>2, <2>1 DEF CacheFollows, Applies
<1>8. WritesCurrent' /\ DeletesCurrent'
  BY <1>2 DEF WritesCurrent, DeletesCurrent, Idle
<1>9. StaleIsRepaired'
  <2>1. \A f \in filters : AsNow(f)
    BY <1>1, <1>3, ExpectedKeys DEF AsNow, DueKey
  <2>2. \A f : AsNow(f) => AsNow(f)'
    BY <1>2 DEF AsNow, Applies
  <2>3. QED
    BY <1>2, <2>1, <2>2 DEF StaleIsRepaired
<1>10. MissingIsWritten'
  <2> SUFFICES ASSUME NEW key \in Key, DueKey(key)'
               PROVE  \E f \in filters : f.key = key
    BY <1>2 DEF MissingIsWritten
  <2>1. DueKey(key) /\ key.client \in wanted
    BY <1>2 DEF DueKey, Entitled, Applies
  <2>2. [key |-> key, rev |-> live[key.name].rev] \in Expected
    BY <2>1, DueIsDue DEF Expected
  <2>3. QED
    BY <1>3, <2>2
<1>11. QED
  BY <1>6, <1>7, <1>8, <1>9, <1>10 DEF Following

LEMMA StillFollows ==
    ASSUME Following, UNCHANGED <<live, wanted, homes, filters, rpQ, rpCache, identityDependency,
                                  identityCluster, tasks, ours>>
    PROVE  Following'
<1>1. QueueFollows' /\ CacheFollows'
  BY DEF Following, QueueFollows, CacheFollows, Applies, Awaited
<1>2. WritesCurrent' /\ DeletesCurrent'
  BY DEF Following, WritesCurrent, DeletesCurrent, Current, Applies, Awaited, Changes, Of
<1>3. StaleIsRepaired'
  BY DEF Following, StaleIsRepaired, AsNow, Changes, Erased, Reached, Late, Applies
<1>4. MissingIsWritten'
  BY DEF Following, MissingIsWritten, DueKey, Entitled, Awaited, Reached, Late, Applies
<1>5. QED
  BY <1>1, <1>2, <1>3, <1>4 DEF Following

LEMMA FollowStep == FollowInv /\ [Next]_vars => FollowInv'
<1> SUFFICES ASSUME FollowInv, [Next]_vars
             PROVE  FollowInv'
  OBVIOUS
<1>1. GroundInv /\ GroundInv'
  BY GroundStep DEF FollowInv
<1>2. ASSUME lost' = {}
      PROVE  Following'
  <2>1. lost = {} /\ Following
    BY <1>2, LostGrows DEF FollowInv
  <2>2. ASSUME NEW w \in Workers, Step(w)
        PROVE  Following'
    BY <1>1, <1>2, <2>1, <2>2, TakePolicyFollows, TakeDependencyFollows, WritesFollow,
       DeletingFollows, EndDeleteFollows DEF Step
  <2>3. ASSUME NEW n \in Names, Apply(n) \/ Remove(n)
        PROVE  Following'
    BY <1>1, <2>1, <2>3, UserFollows
  <2>4. ASSUME NEW c \in Clients, NEW k \in Clusters, Deploy(c, k) \/ Discover(c, k)
        PROVE  Following'
    BY <1>1, <1>2, <2>1, <2>4, ClientFollows
  <2>5. ASSUME NEW c \in Clients, Depend(c)
        PROVE  Following'
    <3>1. CASE \E k \in Clusters : TRUE
      BY <1>1, <1>2, <2>1, <2>5, <3>1, ClientFollows
    <3>2. CASE Clusters = {}
      <4>1. /\ UNCHANGED <<live, homes, filters, rpQ, rpCache, identityDependency, identityCluster,
                           tasks, ours>>
            /\ Key = {}
        BY <2>5, <3>2 DEF Depend, caches, Key
      <4>2. QueueFollows' /\ CacheFollows'
        BY <2>1, <4>1 DEF Following, QueueFollows, CacheFollows, Applies, Awaited
      <4>3. WritesCurrent' /\ DeletesCurrent'
        BY <2>1, <4>1 DEF Following, WritesCurrent, DeletesCurrent, Current, Applies, Awaited,
                          Changes, Of
      <4>4. StaleIsRepaired'
        BY <2>1, <4>1 DEF Following, StaleIsRepaired, AsNow, Changes, Erased, Reached, Late, Applies
      <4>5. MissingIsWritten'
        BY <4>1 DEF MissingIsWritten
      <4>6. QED
        BY <4>2, <4>3, <4>4, <4>5 DEF Following
    <3>3. QED
      BY <3>1, <3>2
  <2>6. CASE WarmedUp \/ ToggleMode \/ UNCHANGED vars
    <3>1. UNCHANGED <<live, wanted, homes, filters, rpQ, rpCache, identityDependency,
                      identityCluster, tasks, ours>>
      BY <2>6 DEF WarmedUp, ToggleMode, vars, world, caches
    <3>2. QED
      BY <2>1, <3>1, StillFollows
  <2>7. CASE Restart
    BY <1>1, <1>2, <2>7, RestartFollows
  <2>8. QED
    BY <2>2, <2>3, <2>4, <2>5, <2>6, <2>7 DEF Next, Environment
<1>3. QED
  BY <1>1, <1>2 DEF FollowInv

LEMMA FollowInit == Init => FollowInv
<1> SUFFICES ASSUME Init
             PROVE  FollowInv
  OBVIOUS
<1>1. KnownInv
  <2>1. Alone /\ Prepared /\ Deletions /\ Known
    BY DEF Init, Alone, Prepared, Deletions, Known, Idle
  <2>2. QED
    BY <2>1, TypeInit DEF KnownInv
<1>2. Grounded
  BY DEF Init, Grounded
<1>3. FiltersGrounded /\ TasksGrounded
  BY DEF Init, FiltersGrounded, TasksGrounded, Idle
<1>4. \A n \in Names : ~Applies(n)
  BY DEF Init, Applies
<1>5. QueueFollows /\ CacheFollows /\ WritesCurrent /\ DeletesCurrent /\ StaleIsRepaired
  BY <1>4 DEF Init, QueueFollows, CacheFollows, WritesCurrent, DeletesCurrent, StaleIsRepaired, Idle
<1>6. MissingIsWritten
  BY <1>4 DEF MissingIsWritten, DueKey, Key
<1>7. QED
  BY <1>1, <1>2, <1>3, <1>5, <1>6 DEF FollowInv, GroundInv, Following

LEMMA FollowedAtRest == FollowInv => SettledFollows
<1> SUFFICES ASSUME FollowInv, Quiet, lost = {}
             PROVE  filters = Expected
  BY DEF SettledFollows
<1>1. /\ TypeInv /\ Grounded /\ FiltersGrounded /\ StaleIsRepaired /\ MissingIsWritten
  BY DEF FollowInv, GroundInv, KnownInv, Following
<1>2. /\ rpQ = << >> /\ depQ = << >> /\ identityCluster = homes
      /\ \A w \in Workers : tasks[w] = Idle
  BY DEF Quiet
<1>3. \A key : /\ ~Changes(key.name) /\ ~Awaited(key.name) /\ ~Erased(key.name) /\ ~Reached(key)
  BY <1>2 DEF Changes, Awaited, Erased, Reached, Idle
<1>4. wanted \subseteq identityDependency
  BY <1>1, <1>2 DEF Grounded
<1>5. \A key : Entitled(key.at, key.client) => ~Late(key)
  BY <1>2, <1>4 DEF Entitled, Late
<1>6. ASSUME NEW f \in filters
      PROVE  f \in Filter /\ f.key \in Key /\ Entitled(f.key.at, f.key.client) /\ AsNow(f)
  <2>1. f \in Filter /\ Entitled(f.key.at, f.key.client)
    BY <1>1 DEF TypeInv, TypeOK, FiltersGrounded
  <2>2. f.key \in Key
    BY <2>1 DEF Filter
  <2>3. AsNow(f)
    BY <1>1, <1>3, <1>5, <2>1 DEF StaleIsRepaired
  <2>4. QED
    BY <2>1, <2>2, <2>3
<1>7. ASSUME NEW f \in filters
      PROVE  f \in Expected
  <2>1. /\ f.key \in Key /\ DueKey(f.key) /\ f.key.client \in wanted
        /\ f = [key |-> f.key, rev |-> live[f.key.name].rev]
    BY <1>6 DEF AsNow, DueKey, Entitled, Filter
  <2>2. f \in Due(f.key.client)
    BY <2>1, DueIsDue
  <2>3. QED
    BY <2>1, <2>2 DEF Expected
<1>8. ASSUME NEW f \in Expected
      PROVE  f \in filters
  <2>1. /\ f.key \in Key /\ DueKey(f.key)
        /\ f = [key |-> f.key, rev |-> live[f.key.name].rev]
    BY <1>1, ExpectedKeys
  <2>2. Entitled(f.key.at, f.key.client)
    BY <2>1 DEF DueKey
  <2>3. PICK g \in filters : g.key = f.key
    BY <1>1, <1>3, <1>5, <2>1, <2>2 DEF MissingIsWritten
  <2>4. g \in Filter /\ g.rev = live[f.key.name].rev
    BY <1>6, <2>3 DEF AsNow
  <2>5. g = f
    BY <2>1, <2>3, <2>4 DEF Filter
  <2>6. QED
    BY <2>3, <2>5
<1>9. QED
  BY <1>7, <1>8

\* Once the events of policies and dependencies and the workloads are handled,
\* the Envoy filters in the clusters are exactly those that the policies, as
\* they are now, make for the clients that depend on the server: none is
\* missing, out of date or left over, in whatever order policies, dependencies
\* and clients came, with retried deletions, in either mode and over restarts,
\* unless one of the reasons in lost was met on the way.
THEOREM FiltersFollow == Spec => []SettledFollows
  BY FollowInit, FollowStep, FollowedAtRest, PTL DEF Spec
=============================================================================
