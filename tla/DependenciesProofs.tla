------------------------- MODULE DependenciesProofs -------------------------
(***************************************************************************)
(* Proofs about Dependencies, for any clients, servers and clusters, any   *)
(* number of retries and any number of changes, failures and restarts.     *)
(***************************************************************************)
EXTENDS Dependencies, FiniteSetTheorems, SequenceTheorems, TLAPS

-----------------------------------------------------------------------------
(* Type correctness                                                        *)

\* What a worker that is not idle has at each place
Shape(w, t) ==
    /\ t \in Task
    /\ w = "dependency" => t.item \in DepItem
    /\ w = "job" => t.item \in JobItem
    /\ w = "workload" => t.item \in AllWork
    /\ t.pc \in {"process", "put"} => t.dep # Absent
    /\ t.pc = "write" => t.now # Absent

WellFormed == \A w \in Workers : tasks[w] = Idle \/ Shape(w, tasks[w])

TypeInv == TypeOK /\ WellFormed

Tasks == Task \cup {Idle}

LEMMA TypeInit == Init => TypeInv
<1> SUFFICES ASSUME Init
             PROVE  TypeInv
  OBVIOUS
<1>1. budget \in Budget /\ home \in [Identities -> SUBSET Clusters]
  BY DependencyAssumption DEF Init
<1>2. tasks \in [Workers -> Tasks] /\ WellFormed
  BY DEF Init, Tasks, WellFormed
<1>3. depQ \in Seq(DepItem) /\ jobQ \in Seq(JobItem) /\ workQ \subseteq AllWork
  BY DEF Init
<1>4. TypeOK
  BY <1>1, <1>2, <1>3 DEF Init, TypeOK, Tasks
<1>5. QED
  BY <1>2, <1>4 DEF TypeInv

LEMMA SpendType ==
    ASSUME TypeOK, NEW f \in {"changes", "moves", "failures", "overlaps", "restarts"}, Spend(f)
    PROVE  budget' \in Budget
<1> DEFINE Fields == {"changes", "moves", "failures", "overlaps", "restarts"}
<1>1. /\ budget = [g \in Fields |-> budget[g]] /\ \A g \in Fields : budget[g] \in Nat
  BY DEF TypeOK, Budget
<1>2. budget[f] > 0 /\ budget' = [budget EXCEPT ![f] = @ - 1]
  BY DEF Spend
<1>3. budget' = [g \in Fields |-> IF g = f THEN budget[f] - 1 ELSE budget[g]]
  BY <1>1, <1>2
<1>4. QED
  BY <1>1, <1>2, <1>3 DEF Budget

LEMMA StartingType ==
    ASSUME TypeOK, Starting
    PROVE  budget' \in Budget /\ raced' \in BOOLEAN
<1>1. CASE UNCHANGED <<raced, budget>>
  BY <1>1 DEF TypeOK
<1>2. CASE Spend("overlaps") /\ raced' = TRUE
  BY <1>2, SpendType
<1>3. QED
  BY <1>1, <1>2 DEF Starting

\* A worker that is somewhere in the processing of an event
LEMMA BusyType ==
    ASSUME TypeInv, NEW w \in Workers,
           tasks[w].pc \in {"process", "loop", "write", "put", "end"}
    PROVE  /\ Shape(w, tasks[w]) /\ tasks[w] \in Task /\ tasks[w] # Idle
           /\ tasks[w].dep \in DepItem \cup {Absent} /\ tasks[w].todo \subseteq Servers
           /\ tasks[w].over \subseteq Clusters /\ tasks[w].now \in Servers \cup {Absent}
           /\ tasks[w].left \subseteq Clusters /\ tasks[w].err \in BOOLEAN
           /\ tasks[w].dep # Absent => tasks[w].dep.src \in Clients
                                       /\ tasks[w].dep.dests \subseteq Servers
<1>1. tasks[w] # Idle /\ Shape(w, tasks[w])
  BY DEF TypeInv, WellFormed, Idle
<1>2. tasks[w] \in Task
  BY <1>1 DEF Shape
<1>3. /\ tasks[w].dep \in DepItem \cup {Absent} /\ tasks[w].todo \subseteq Servers
      /\ tasks[w].over \subseteq Clusters /\ tasks[w].now \in Servers \cup {Absent}
      /\ tasks[w].left \subseteq Clusters /\ tasks[w].err \in BOOLEAN
  BY <1>2 DEF Task
<1>4. QED
  BY <1>1, <1>2, <1>3 DEF DepItem

\* The task of one worker becomes t
LEMMA TaskStep ==
    ASSUME TypeInv, NEW w \in Workers, NEW t, tasks' = [tasks EXCEPT ![w] = t],
           t = Idle \/ Shape(w, t)
    PROVE  tasks' \in [Workers -> Tasks] /\ WellFormed'
<1>1. t \in Tasks
  BY DEF Shape, Tasks
<1>2. tasks' \in [Workers -> Tasks] /\ \A u \in Workers : tasks'[u] = IF u = w THEN t ELSE tasks[u]
  BY <1>1 DEF TypeInv, TypeOK, Tasks
<1>3. QED
  BY <1>2 DEF TypeInv, WellFormed

LEMMA BeginType ==
    ASSUME NEW pc \in {"process", "loop"}, NEW item \in DepItem \cup JobItem \cup AllWork,
           NEW dep \in DepItem \cup {Absent}, NEW todo, todo \subseteq Servers
    PROVE  /\ Begin(pc, item, dep, todo) \in Task
           /\ Begin(pc, item, dep, todo).item = item /\ Begin(pc, item, dep, todo).pc = pc
           /\ Begin(pc, item, dep, todo).dep = dep /\ Begin(pc, item, dep, todo).over = {}
<1>1. AllWork \subseteq [src : Identities, at : Clusters]
  BY DEF AllWork
<1>2. QED
  BY <1>1 DEF Begin, Task

LEMMA KnownType ==
    ASSUME TypeOK, NEW item, item.src \in Clients
    PROVE  Known(item) \in [Servers -> SUBSET Clients]
  BY DEF Known, TypeOK

LEMMA TakeDependencyType ==
    ASSUME TypeInv, TakeDependency
    PROVE  TypeInv'
<1> DEFINE item == Head(depQ)
<1>1. /\ depQ # << >> /\ depQ' = Tail(depQ) /\ Starting
      /\ outdated' = (outdated \/ (item.tries > 0 /\ ~IsLatest(item)))
      /\ UNCHANGED <<wanted, home, jobs, clock, entries, phase, workQ, jobQ, workCache,
                     identityCluster, sourceToDestinations, cnameDependents, served, asked,
                     skipped, dropped>>
  BY DEF TakeDependency, world
<1>2. item \in DepItem /\ depQ' \in Seq(DepItem)
  BY <1>1 DEF TypeInv, TypeOK
<1>3. /\ item.src \in Clients /\ item.dests \subseteq Servers
      /\ [dests |-> item.dests, rev |-> item.rev] \in Record /\ item # Absent
  BY <1>2, DependencyAssumption DEF DepItem, Record
<1>4. budget' \in Budget /\ raced' \in BOOLEAN
  BY <1>1, StartingType DEF TypeInv
<1>5. /\ depCache' \in [Clients -> Record \cup {Absent}]
      /\ identityDependency' \in [Servers -> SUBSET Clients]
  <2>1. /\ \/ depCache' = [depCache EXCEPT ![item.src] = Absent]
           \/ depCache' = [depCache EXCEPT ![item.src] = [dests |-> item.dests, rev |-> item.rev]]
        /\ UNCHANGED identityDependency \/ identityDependency' = Known(item)
    BY DEF TakeDependency
  <2>2. Known(item) \in [Servers -> SUBSET Clients]
    BY <1>3, KnownType DEF TypeInv
  <2>3. QED
    BY <1>3, <2>1, <2>2 DEF TypeInv, TypeOK
<1>6. tasks' \in [Workers -> Tasks] /\ WellFormed'
  <2>1. CASE UNCHANGED tasks
    BY <2>1 DEF TypeInv, TypeOK, Tasks, WellFormed
  <2>2. CASE tasks' = [tasks EXCEPT !["dependency"] = Begin("process", item, item, {})]
    <3>1. Shape("dependency", Begin("process", item, item, {}))
      BY <1>2, <1>3, BeginType DEF Shape
    <3>2. QED
      BY <2>2, <3>1, TaskStep DEF Workers
  <2>3. QED
    BY <2>1, <2>2 DEF TakeDependency
<1>7. QED
  BY <1>1, <1>2, <1>4, <1>5, <1>6 DEF TypeInv, TypeOK, Tasks

LEMMA TakeJobType ==
    ASSUME TypeInv, TakeJob
    PROVE  TypeInv'
<1> DEFINE item == Head(jobQ)
           record == depCache[item.src]
           dep == [type |-> "Add", src |-> item.src, dests |-> record.dests,
                   rev |-> record.rev, tries |-> 0]
<1>1. /\ jobQ # << >> /\ Starting
      /\ identityCluster' = [identityCluster EXCEPT ![item.src] = @ \cup {item.at}]
      /\ UNCHANGED <<wanted, home, jobs, clock, entries, phase, depQ, workQ, depCache, workCache,
                     sourceToDestinations, cnameDependents, served, asked, skipped, outdated,
                     dropped>>
  BY DEF TakeJob, world
<1>2. /\ \/ jobQ' = Tail(jobQ)
         \/ jobQ' = Append(Tail(jobQ), [item EXCEPT !.tries = @ + 1])
      /\ \/ UNCHANGED <<identityDependency, tasks>>
         \/ /\ record # Absent /\ identityDependency' = Known(dep)
            /\ tasks' = [tasks EXCEPT !["job"] = Begin("process", item, dep, {})]
  BY DEF TakeJob
<1>3. item \in JobItem /\ Tail(jobQ) \in Seq(JobItem)
  BY <1>1 DEF TypeInv, TypeOK
<1>4. item.src \in Clients /\ item.at \in Clusters /\ [item EXCEPT !.tries = @ + 1] \in JobItem
  BY <1>3 DEF JobItem
<1>5. jobQ' \in Seq(JobItem)
  <2>1. \A x \in JobItem : Append(Tail(jobQ), x) \in Seq(JobItem)
    BY <1>3
  <2>2. QED
    BY <1>2, <1>3, <1>4, <2>1
<1>6. budget' \in Budget /\ raced' \in BOOLEAN
  BY <1>1, StartingType DEF TypeInv
<1>7. identityCluster' \in [Identities -> SUBSET Clusters]
  BY <1>1, <1>4 DEF TypeInv, TypeOK, Identities
<1>8. record # Absent => dep \in DepItem /\ dep # Absent /\ dep.src \in Clients
  <2>1. record # Absent => record \in Record
    BY <1>4 DEF TypeInv, TypeOK
  <2>2. QED
    BY <1>4, <2>1, DependencyAssumption DEF DepItem, Record
<1>9. identityDependency' \in [Servers -> SUBSET Clients]
  BY <1>2, <1>8, KnownType DEF TypeInv, TypeOK
<1>10. tasks' \in [Workers -> Tasks] /\ WellFormed'
  <2>1. CASE UNCHANGED tasks
    BY <2>1 DEF TypeInv, TypeOK, Tasks, WellFormed
  <2>2. CASE record # Absent /\ tasks' = [tasks EXCEPT !["job"] = Begin("process", item, dep, {})]
    <3>1. Shape("job", Begin("process", item, dep, {}))
      BY <1>3, <1>8, <2>2, BeginType DEF Shape
    <3>2. QED
      BY <2>2, <3>1, TaskStep DEF Workers
  <2>3. QED
    BY <1>2, <2>1, <2>2
<1>11. QED
  BY <1>1, <1>5, <1>6, <1>7, <1>9, <1>10 DEF TypeInv, TypeOK, Tasks

LEMMA TakeWorkloadType ==
    ASSUME TypeInv, TakeWorkload
    PROVE  TypeInv'
<1>1. PICK e \in workQ :
         /\ workQ' = workQ \ {e} /\ workCache' = workCache \cup {e}
         /\ identityCluster' = [identityCluster EXCEPT ![e.src] = @ \cup {e.at}]
         /\ tasks' = [tasks EXCEPT !["workload"] =
                        Begin("loop", e, Absent,
                              IF e.src \in Servers THEN {e.src} ELSE ClientTodo(e.src, e.at))]
         /\ skipped' \in BOOLEAN
  BY DEF TakeWorkload
<1> DEFINE todo == IF e.src \in Servers THEN {e.src} ELSE ClientTodo(e.src, e.at)
<1>2. Starting /\ UNCHANGED <<wanted, home, jobs, clock, entries, phase, depQ, jobQ, depCache,
                              identityDependency, sourceToDestinations, cnameDependents, served,
                              asked, outdated, dropped>>
  BY DEF TakeWorkload, world
<1>3. e \in AllWork /\ e.src \in Identities /\ e.at \in Clusters
  BY <1>1 DEF TypeInv, TypeOK, AllWork
<1>4. todo \subseteq Servers
  BY <1>3 DEF ClientTodo, ClientDestinations, TypeInv, TypeOK, Identities
<1>5. budget' \in Budget /\ raced' \in BOOLEAN
  BY <1>2, StartingType DEF TypeInv
<1>6. identityCluster' \in [Identities -> SUBSET Clusters]
  BY <1>1, <1>3 DEF TypeInv, TypeOK
<1>7. tasks' \in [Workers -> Tasks] /\ WellFormed'
  <2>1. Shape("workload", Begin("loop", e, Absent, todo))
    BY <1>3, <1>4, BeginType DEF Shape
  <2>2. QED
    BY <1>1, <2>1, TaskStep DEF Workers
<1>8. workQ' \subseteq AllWork /\ workCache' \subseteq AllWork
  BY <1>1, <1>3 DEF TypeInv, TypeOK
<1>9. QED
  BY <1>1, <1>2, <1>5, <1>6, <1>7, <1>8 DEF TypeInv, TypeOK, Tasks

LEMMA RunType ==
    ASSUME TypeInv, NEW w \in Workers,
           \/ Process(w) \/ Put(w) \/ NextServer(w) \/ NoMoreServers(w)
           \/ Write(w) \/ WriteFails(w) \/ WriteSkipped(w)
    PROVE  TypeInv'
<1>1. tasks[w].pc \in {"process", "loop", "write", "put"}
  BY DEF Process, Put, NextServer, NoMoreServers, Write, WriteFails, WriteSkipped
<1>2. /\ Shape(w, tasks[w]) /\ tasks[w] \in Task
      /\ tasks[w].dep \in DepItem \cup {Absent} /\ tasks[w].todo \subseteq Servers
      /\ tasks[w].over \subseteq Clusters /\ tasks[w].now \in Servers \cup {Absent}
      /\ tasks[w].left \subseteq Clusters /\ tasks[w].err \in BOOLEAN
      /\ tasks[w].dep # Absent => tasks[w].dep.src \in Clients
                                  /\ tasks[w].dep.dests \subseteq Servers
      /\ tasks \in [Workers -> Tasks]
  BY <1>1, BusyType DEF TypeInv, TypeOK, Tasks
<1>3. CASE Process(w)
  <2>1. /\ tasks[w].pc = "process" /\ skipped' \in BOOLEAN
        /\ UNCHANGED <<wanted, home, jobs, clock, entries, phase, queues, depCache, workCache,
                       identityDependency, identityCluster, sourceToDestinations, cnameDependents,
                       served, asked, raced, outdated, dropped, budget>>
    BY <1>3 DEF Process, world, caches, TypeInv, TypeOK
  <2>2. tasks[w].dep # Absent /\ tasks[w].dep \in DepItem
    BY <1>2, <2>1 DEF Shape
  <2>3. tasks' \in [Workers -> Tasks] /\ WellFormed'
    <3>1. CASE tasks' = [tasks EXCEPT ![w].pc = "put"]
      <4> DEFINE t == [tasks[w] EXCEPT !.pc = "put"]
      <4>1. tasks' = [tasks EXCEPT ![w] = t]
        BY <1>2, <3>1
      <4>2. t \in Task /\ t.item = tasks[w].item /\ t.dep = tasks[w].dep /\ t.pc = "put"
        BY <1>2 DEF Task
      <4> HIDE DEF t
      <4>3. Shape(w, t)
        BY <1>2, <2>2, <4>2 DEF Shape
      <4>4. QED
        BY <4>1, <4>3, TaskStep
    <3>2. ASSUME NEW todo, NEW over, todo \subseteq Servers, over \subseteq Clusters,
                 tasks' = [tasks EXCEPT ![w].pc = "loop", ![w].over = over, ![w].todo = todo]
          PROVE  tasks' \in [Workers -> Tasks] /\ WellFormed'
      <4> DEFINE t == [tasks[w] EXCEPT !.pc = "loop", !.over = over, !.todo = todo]
      <4>1. tasks' = [tasks EXCEPT ![w] = t]
        BY <1>2, <3>2
      <4>2. t \in Task /\ t.item = tasks[w].item /\ t.dep = tasks[w].dep /\ t.pc = "loop"
        BY <1>2, <3>2 DEF Task
      <4> HIDE DEF t
      <4>3. Shape(w, t)
        BY <1>2, <4>2 DEF Shape
      <4>4. QED
        BY <4>1, <4>3, TaskStep
    <3>3. /\ {d \in Destinations(tasks[w].dep) : identityCluster[d] # {}} \subseteq Servers
          /\ identityCluster[tasks[w].dep.src] \subseteq Clusters
      BY <1>2, <2>2 DEF Destinations, TypeInv, TypeOK, Identities
    <3>4. QED
      BY <1>3, <3>1, <3>2, <3>3 DEF Process
  <2>4. QED
    BY <2>1, <2>3 DEF TypeInv, TypeOK, Tasks, queues
<1>4. CASE Put(w)
  <2>1. /\ tasks[w].pc = "put" /\ tasks' = [tasks EXCEPT ![w].pc = "end"]
        /\ UNCHANGED <<wanted, home, jobs, clock, entries, phase, queues, depCache, workCache,
                       identityDependency, identityCluster, cnameDependents, served, history, budget>>
    BY <1>4 DEF Put, world
  <2>2. tasks[w].dep # Absent
    BY <1>2, <2>1 DEF Shape
  <2>3. sourceToDestinations' \in [Clients -> SUBSET Servers]
    BY <1>2, <1>4, <2>2 DEF Put, TypeInv, TypeOK
  <2> DEFINE t == [tasks[w] EXCEPT !.pc = "end"]
  <2>4. tasks' = [tasks EXCEPT ![w] = t]
    BY <1>2, <2>1
  <2>5. t \in Task /\ t.item = tasks[w].item /\ t.pc = "end"
    BY <1>2 DEF Task
  <2> HIDE DEF t
  <2>6. Shape(w, t)
    BY <1>2, <2>5 DEF Shape
  <2>7. tasks' \in [Workers -> Tasks] /\ WellFormed'
    BY <2>4, <2>6, TaskStep
  <2>8. QED
    BY <2>1, <2>3, <2>7 DEF TypeInv, TypeOK, Tasks, queues, history
<1>5. CASE NextServer(w)
  <2>1. UNCHANGED <<wanted, home, jobs, clock, entries, phase, queues, depCache, workCache,
                    identityDependency, identityCluster, sourceToDestinations, served, history,
                    budget>>
    BY <1>5 DEF NextServer, world
  <2>2. PICK d \in tasks[w].todo :
           /\ cnameDependents' = [cnameDependents EXCEPT ![d] = Dependents(d)]
           /\ tasks' = [tasks EXCEPT ![w].pc = "write", ![w].todo = @ \ {d}, ![w].now = d,
                                     ![w].left = Targets(d, tasks[w].over)]
    BY <1>5 DEF NextServer
  <2>3. d \in Servers /\ d # Absent /\ d \in Identities
    BY <1>2, <2>2, DependencyAssumption DEF Identities
  <2>4. Dependents(d) \subseteq Clusters \X Clients
    BY <2>3 DEF Dependents, TypeInv, TypeOK
  <2>5. cnameDependents' \in [Servers -> SUBSET (Clusters \X Clients)]
    BY <2>2, <2>3, <2>4 DEF TypeInv, TypeOK
  <2>6. Targets(d, tasks[w].over) \subseteq Clusters
    <3>1. identityCluster[d] \subseteq Clusters
      BY <2>3 DEF TypeInv, TypeOK
    <3>2. \A p \in Dependents(d) : p[1] \in Clusters
      BY <2>4
    <3>3. QED
      BY <1>2, <3>1, <3>2 DEF Targets
  <2> DEFINE t == [tasks[w] EXCEPT !.pc = "write", !.todo = @ \ {d}, !.now = d,
                                   !.left = Targets(d, tasks[w].over)]
  <2>7. tasks' = [tasks EXCEPT ![w] = t]
    BY <1>2, <2>2
  <2>8. t \in Task /\ t.item = tasks[w].item /\ t.pc = "write" /\ t.now = d
    BY <1>2, <2>3, <2>6 DEF Task
  <2> HIDE DEF t
  <2>9. Shape(w, t)
    BY <1>2, <2>3, <2>8 DEF Shape
  <2>10. tasks' \in [Workers -> Tasks] /\ WellFormed'
    BY <2>7, <2>9, TaskStep
  <2>11. QED
    BY <2>1, <2>5, <2>10 DEF TypeInv, TypeOK, Tasks, queues, history
<1>6. CASE NoMoreServers(w)
  <2>1. UNCHANGED <<wanted, home, jobs, clock, entries, phase, queues, caches, history, budget>>
    BY <1>6 DEF NoMoreServers, world
  <2>2. PICK pc \in {"end", "put"} : /\ tasks' = [tasks EXCEPT ![w].pc = pc]
                                     /\ pc = "put" => tasks[w].dep # Absent
    BY <1>6 DEF NoMoreServers
  <2> DEFINE t == [tasks[w] EXCEPT !.pc = pc]
  <2>3. tasks' = [tasks EXCEPT ![w] = t]
    BY <1>2, <2>2
  <2>4. t \in Task /\ t.item = tasks[w].item /\ t.pc = pc /\ t.dep = tasks[w].dep
    BY <1>2, <2>2 DEF Task
  <2> HIDE DEF t
  <2>5. Shape(w, t)
    BY <1>2, <2>2, <2>4 DEF Shape
  <2>6. tasks' \in [Workers -> Tasks] /\ WellFormed'
    BY <2>3, <2>5, TaskStep
  <2>7. QED
    BY <2>1, <2>6 DEF TypeInv, TypeOK, Tasks, queues, caches, history
<1>7. CASE Write(w) \/ WriteFails(w) \/ WriteSkipped(w)
  <2>1. /\ tasks[w].pc = "write"
        /\ UNCHANGED <<wanted, home, jobs, clock, phase, queues, depCache, workCache,
                       identityDependency, identityCluster, sourceToDestinations, cnameDependents,
                       asked, raced, skipped, outdated>>
        /\ UNCHANGED dropped \/ dropped' = TRUE
    BY <1>7 DEF Write, WriteFails, WriteSkipped, world, caches, history
  <2>2. tasks[w].now \in Servers
    BY <1>2, <2>1 DEF Shape
  <2>3. budget' \in Budget
    BY <1>7, SpendType DEF Write, WriteFails, WriteSkipped, TypeInv, TypeOK
  <2>4. entries' \subseteq Clusters \X Servers
    <3>1. UNCHANGED entries \/ \E c \in tasks[w].left : entries' = entries \cup {<<c, tasks[w].now>>}
      BY <1>7 DEF Write, WriteFails, WriteSkipped
    <3>2. \A c \in tasks[w].left : <<c, tasks[w].now>> \in Clusters \X Servers
      BY <1>2, <2>2
    <3>3. entries \subseteq Clusters \X Servers
      BY DEF TypeInv, TypeOK
    <3>4. QED
      BY <3>1, <3>2, <3>3
  <2>5. served' \subseteq Clusters \X Clients \X Servers
    <3>1. \A c \in Clusters : Serve(c, tasks[w].now) \subseteq Clusters \X Clients \X Servers
      BY <2>2 DEF Serve, TypeInv, TypeOK
    <3>2. QED
      BY <1>2, <1>7, <3>1 DEF Write, WriteFails, WriteSkipped, caches, TypeInv, TypeOK
  <2>6. PICK c \in tasks[w].left, err \in BOOLEAN : Wrote(w, c, err)
    BY <1>7 DEF Write, WriteFails, WriteSkipped
  <2>7. PICK pc \in {"loop", "write"} :
           tasks' = [tasks EXCEPT ![w].left = @ \ {c}, ![w].err = @ \/ err, ![w].pc = pc]
    BY <2>6 DEF Wrote
  <2> DEFINE t == [tasks[w] EXCEPT !.left = @ \ {c}, !.err = @ \/ err, !.pc = pc]
  <2>8. tasks' = [tasks EXCEPT ![w] = t]
    BY <1>2, <2>7
  <2>9. t \in Task /\ t.item = tasks[w].item /\ t.pc = pc /\ t.now = tasks[w].now
    BY <1>2, <2>6, <2>7 DEF Task
  <2> HIDE DEF t
  <2>10. Shape(w, t)
    BY <1>2, <2>1, <2>7, <2>9 DEF Shape
  <2>11. tasks' \in [Workers -> Tasks] /\ WellFormed'
    BY <2>8, <2>10, TaskStep
  <2>12. QED
    BY <2>1, <2>3, <2>4, <2>5, <2>11 DEF TypeInv, TypeOK, Tasks, queues, history
<1>8. QED
  BY <1>3, <1>4, <1>5, <1>6, <1>7

LEMMA EndType ==
    ASSUME TypeInv, NEW w \in Workers, End(w)
    PROVE  TypeInv'
<1> DEFINE item == tasks[w].item
<1>1. /\ tasks[w].pc = "end" /\ tasks' = [tasks EXCEPT ![w] = Idle]
      /\ UNCHANGED <<wanted, home, jobs, clock, entries, phase, caches, asked, raced, skipped,
                     outdated, budget>>
  BY DEF End, world
<1>2. Shape(w, tasks[w]) /\ tasks[w].err \in BOOLEAN
  BY <1>1, BusyType
<1>3. tasks' \in [Workers -> Tasks] /\ WellFormed'
  BY <1>1, TaskStep
<1>4. dropped' \in BOOLEAN
  BY <1>2 DEF End, TypeInv, TypeOK, Workers, queues
<1>5. workQ' \subseteq AllWork
  BY <1>2 DEF End, TypeInv, TypeOK, Workers, queues, Shape
<1>6. jobQ' \in Seq(JobItem)
  <2>1. UNCHANGED jobQ \/ (w = "job" /\ jobQ' = Append(jobQ, [item EXCEPT !.tries = @ + 1]))
    BY <1>2 DEF End, Workers, queues
  <2>2. w = "job" => [item EXCEPT !.tries = @ + 1] \in JobItem
    BY <1>2 DEF Shape, JobItem
  <2>3. \A x \in JobItem : Append(jobQ, x) \in Seq(JobItem)
    BY DEF TypeInv, TypeOK
  <2>4. QED
    BY <2>1, <2>2, <2>3 DEF TypeInv, TypeOK
<1>7. depQ' \in Seq(DepItem)
  <2>1. UNCHANGED depQ \/ (w = "dependency" /\ depQ' = Append(depQ, [item EXCEPT !.tries = @ + 1]))
    BY <1>2 DEF End, Workers, queues
  <2>2. w = "dependency" => [item EXCEPT !.tries = @ + 1] \in DepItem
    BY <1>2 DEF Shape, DepItem
  <2>3. \A x \in DepItem : Append(depQ, x) \in Seq(DepItem)
    BY DEF TypeInv, TypeOK
  <2>4. QED
    BY <2>1, <2>2, <2>3 DEF TypeInv, TypeOK
<1>8. QED
  BY <1>1, <1>3, <1>4, <1>5, <1>6, <1>7 DEF TypeInv, TypeOK, Tasks, caches

\* The events that are listed at a start
LEMMA BootQueues ==
    ASSUME TypeInv, Boot(home, wanted, jobs)
    PROVE  /\ depQ' \in Seq(DepItem) /\ jobQ' \in Seq(JobItem)
           /\ \A n \in 1 .. Len(depQ') :
                 \E s \in Clients : /\ wanted[s] # Absent /\ depQ'[n].src = s
                                    /\ depQ'[n].dests = wanted[s].dests
           /\ \A n \in 1 .. Len(jobQ') : <<jobQ'[n].src, jobQ'[n].at>> \in jobs
<1> DEFINE asking == {c \in Clients : wanted[c] # Absent}
<1>1. IsFiniteSet(asking) /\ IsFiniteSet(jobs)
  <2>1. IsFiniteSet(Clients \X Clusters)
    BY DependencyAssumption, FS_Product
  <2>2. QED
    BY <2>1, DependencyAssumption, FS_Subset DEF TypeInv, TypeOK
<1>2. Cardinality(asking) \in Nat /\ Cardinality(jobs) \in Nat
  BY <1>1, FS_CardinalityType
<1>3. PICK s \in [1 .. Cardinality(asking) -> asking] :
         depQ' = [n \in DOMAIN s |-> [type |-> "Add", src |-> s[n], dests |-> wanted[s[n]].dests,
                                      rev |-> wanted[s[n]].rev, tries |-> 0]]
  BY DEF Boot
<1>4. PICK j \in [1 .. Cardinality(jobs) -> jobs] :
         jobQ' = [n \in DOMAIN j |-> [src |-> j[n][1], at |-> j[n][2], tries |-> 0]]
  BY DEF Boot
<1>5. \A n \in 1 .. Cardinality(asking) :
         [type |-> "Add", src |-> s[n], dests |-> wanted[s[n]].dests,
          rev |-> wanted[s[n]].rev, tries |-> 0] \in DepItem
  BY <1>3 DEF TypeInv, TypeOK, DepItem, Record
<1>6. \A n \in 1 .. Cardinality(jobs) :
         /\ [src |-> j[n][1], at |-> j[n][2], tries |-> 0] \in JobItem
         /\ <<j[n][1], j[n][2]>> \in jobs
  <2>1. \A p \in jobs : p \in Clients \X Clusters
    BY DEF TypeInv, TypeOK
  <2>2. \A p \in jobs : p[1] \in Clients /\ p[2] \in Clusters /\ <<p[1], p[2]>> = p
    BY <2>1
  <2>3. \A n \in 1 .. Cardinality(jobs) : j[n] \in jobs
    BY <1>4
  <2>4. QED
    BY <2>2, <2>3 DEF JobItem
<1>7. depQ' \in [1 .. Cardinality(asking) -> DepItem] /\ jobQ' \in [1 .. Cardinality(jobs) -> JobItem]
  BY <1>3, <1>4, <1>5, <1>6
<1>8. depQ' \in Seq(DepItem) /\ jobQ' \in Seq(JobItem)
  <2>1. /\ depQ' \in UNION {[1 .. n -> DepItem] : n \in Nat}
        /\ jobQ' \in UNION {[1 .. n -> JobItem] : n \in Nat}
    BY <1>2, <1>7
  <2>2. QED
    BY <2>1, SeqDef
<1>9. Len(depQ') = Cardinality(asking) /\ Len(jobQ') = Cardinality(jobs)
  BY <1>2, <1>7, <1>8
<1>10. QED
  BY <1>3, <1>4, <1>6, <1>8, <1>9

LEMMA EnvironmentType ==
    ASSUME TypeInv, Environment \/ WarmedUp
    PROVE  TypeInv'
<1>1. ASSUME NEW s \in Clients, Ask(s)
      PROVE  TypeInv'
  <2>1. budget' \in Budget /\ clock' \in Nat
    BY <1>1, SpendType DEF Ask, TypeInv, TypeOK
  <2>2. PICK dests \in Requests, type \in {"Add", "Update"} :
           /\ wanted' = [wanted EXCEPT ![s] = [dests |-> dests, rev |-> clock']]
           /\ Emit(type, s, [dests |-> dests, rev |-> clock'])
           /\ asked' = asked \cup ({s} \X dests)
    BY <1>1 DEF Ask
  <2>3. dests \subseteq Servers /\ [dests |-> dests, rev |-> clock'] \in Record
    BY <2>1, <2>2, DependencyAssumption DEF Record
  <2>4. wanted' \in [Clients -> Record \cup {Absent}] /\ asked' \subseteq Clients \X Servers
    BY <2>2, <2>3 DEF TypeInv, TypeOK
  <2>5. depQ' \in Seq(DepItem)
    BY <2>1, <2>2, <2>3 DEF Emit, TypeInv, TypeOK, DepItem
  <2>6. QED
    BY <1>1, <2>1, <2>4, <2>5 DEF Ask, TypeInv, TypeOK, WellFormed, caches
<1>2. ASSUME NEW s \in Clients, Withdraw(s)
      PROVE  TypeInv'
  <2>1. budget' \in Budget
    BY <1>2, SpendType DEF Withdraw, TypeInv
  <2>2. /\ wanted[s] \in Record /\ wanted' = [wanted EXCEPT ![s] = Absent]
        /\ Emit("Delete", s, wanted[s])
    BY <1>2 DEF Withdraw, TypeInv, TypeOK
  <2>3. wanted[s].dests \subseteq Servers /\ wanted[s].rev \in Nat
    BY <2>2 DEF Record
  <2>4. depQ' \in Seq(DepItem)
    BY <2>2, <2>3 DEF Emit, TypeInv, TypeOK, DepItem
  <2>5. QED
    BY <1>2, <2>1, <2>2, <2>4 DEF Withdraw, TypeInv, TypeOK, WellFormed, caches, history
<1>3. ASSUME NEW i \in Identities, NEW c \in Clusters, Deploy(i, c)
      PROVE  TypeInv'
  <2>1. budget' \in Budget
    BY <1>3, SpendType DEF Deploy, TypeInv
  <2>2. workQ' \subseteq AllWork
    BY <1>3 DEF Deploy, TypeInv, TypeOK, AllWork
  <2>3. QED
    BY <1>3, <2>1, <2>2 DEF Deploy, TypeInv, TypeOK, WellFormed, caches, history
<1>4. ASSUME NEW s \in Clients, NEW c \in Clusters, StartJob(s, c)
      PROVE  TypeInv'
  <2>1. budget' \in Budget
    BY <1>4, SpendType DEF StartJob, TypeInv
  <2>2. jobQ' \in Seq(JobItem)
    BY <1>4 DEF StartJob, TypeInv, TypeOK, JobItem
  <2>3. QED
    BY <1>4, <2>1, <2>2 DEF StartJob, TypeInv, TypeOK, WellFormed, caches, history
<1>5. CASE Restart
  <2>1. budget' \in Budget
    BY <1>5, SpendType DEF Restart, TypeInv
  <2>2. depQ' \in Seq(DepItem) /\ jobQ' \in Seq(JobItem)
    BY <1>5, BootQueues DEF Restart
  <2>3. tasks' = [w \in Workers |-> Idle]
    BY <1>5 DEF Restart, Boot
  <2>4. tasks' \in [Workers -> Tasks] /\ WellFormed'
    BY <2>3 DEF Tasks, WellFormed
  <2>5. /\ depCache' = [s \in Clients |-> Absent] /\ workCache' = {} /\ served' = {}
        /\ identityDependency' = [d \in Servers |-> {}]
        /\ identityCluster' = [i \in Identities |-> {}]
        /\ sourceToDestinations' = [s \in Clients |-> {}]
        /\ cnameDependents' = [d \in Servers |-> {}]
        /\ phase' = "warm" /\ workQ' \subseteq AllWork
        /\ UNCHANGED <<wanted, home, jobs, clock, entries, history>>
    BY <1>5 DEF Restart, Boot, world
  <2>6. QED
    BY <2>1, <2>2, <2>4, <2>5 DEF TypeInv, TypeOK, Tasks, history
<1>6. CASE WarmedUp
  BY <1>6 DEF WarmedUp, TypeInv, TypeOK, WellFormed, world, queues, caches, history
<1>7. QED
  BY <1>1, <1>2, <1>3, <1>4, <1>5, <1>6 DEF Environment

LEMMA TypeStep == TypeInv /\ [Next]_vars => TypeInv'
<1> SUFFICES ASSUME TypeInv, [Next]_vars
             PROVE  TypeInv'
  OBVIOUS
<1>1. CASE DropDependency
  <2>1. depQ' \in Seq(DepItem) /\ dropped' \in BOOLEAN
    BY <1>1 DEF DropDependency, TypeInv, TypeOK
  <2>2. QED
    BY <1>1, <2>1 DEF DropDependency, TypeInv, TypeOK, WellFormed, world, caches
<1>2. CASE RegisterWorkload
  <2>1. PICK e \in workQ :
           /\ workCache' = workCache \cup {e}
           /\ identityCluster' = [identityCluster EXCEPT ![e.src] = @ \cup {e.at}]
    BY <1>2 DEF RegisterWorkload
  <2>2. e \in AllWork /\ e.src \in Identities /\ e.at \in Clusters
    BY <2>1 DEF TypeInv, TypeOK, AllWork
  <2>3. /\ workCache' \subseteq AllWork /\ identityCluster' \in [Identities -> SUBSET Clusters]
    BY <2>1, <2>2 DEF TypeInv, TypeOK
  <2>4. QED
    BY <1>2, <2>3 DEF RegisterWorkload, TypeInv, TypeOK, WellFormed, world, queues, history
<1>3. ASSUME NEW w \in Workers, Step(w)
      PROVE  TypeInv'
  BY <1>1, <1>2, <1>3, TakeDependencyType, TakeJobType, TakeWorkloadType, RunType, EndType DEF Step
<1>4. CASE UNCHANGED vars
  BY <1>4 DEF vars, world, queues, caches, history, TypeInv, TypeOK, WellFormed
<1>5. QED
  BY <1>3, <1>4, EnvironmentType DEF Next

\* The events, the caches and the tasks of the three workers keep their types:
\* in particular a worker that is about to process or record a Dependency has
\* one, and one that writes has a server to write.
THEOREM DependenciesTypeCorrect == Spec => []TypeInv
  BY TypeInit, TypeStep, PTL DEF Spec

-----------------------------------------------------------------------------
(***************************************************************************)
(* Where entries may go.  Whatever a run is told to write comes from events*)
(* and caches, so that each of them must hold only what has its reason in  *)
(* the world: a workload or a job that is there, a dependency that has     *)
(* been there.                                                             *)
(***************************************************************************)

\* An identity runs, as a workload or a job, in a cluster
Runs(i, c) == c \in home[i] \/ <<i, c>> \in jobs

Needed(c, d) == c \in home[d] \/ \E s \in Clients : <<s, d>> \in asked /\ Runs(s, c)

Asked(s, dests) == \A d \in dests : <<s, d>> \in asked

EventsSound ==
    /\ \A s \in Clients : wanted[s] # Absent => Asked(s, wanted[s].dests)
    /\ \A n \in 1 .. Len(depQ) : Asked(depQ[n].src, depQ[n].dests)
    /\ \A n \in 1 .. Len(jobQ) : <<jobQ[n].src, jobQ[n].at>> \in jobs
    /\ \A e \in workQ : e.at \in home[e.src]

CachesSound ==
    /\ \A s \in Clients : depCache[s] # Absent => Asked(s, depCache[s].dests)
    /\ \A d \in Servers, s \in Clients : s \in identityDependency[d] => <<s, d>> \in asked
    /\ \A i \in Identities : \A c \in identityCluster[i] : Runs(i, c)
    /\ \A d \in Servers : \A p \in cnameDependents[d] : <<p[2], d>> \in asked /\ Runs(p[2], p[1])

\* The task t of worker w
Sound(w, t) ==
    /\ w = "dependency" => Asked(t.item.src, t.item.dests)
    /\ w = "job" => <<t.item.src, t.item.at>> \in jobs
    /\ w = "workload" => t.item.at \in home[t.item.src]
    /\ t.dep # Absent => Asked(t.dep.src, t.dep.dests)
    /\ t.over # {} => /\ t.dep # Absent /\ t.todo \subseteq t.dep.dests
                      /\ \A c \in t.over : Runs(t.dep.src, c)
    /\ t.pc = "write" => \A c \in t.left : Needed(c, t.now)

TasksSound == \A w \in Workers : tasks[w] # Idle => Sound(w, tasks[w])

EntriesSound == \A p \in entries : Needed(p[1], p[2])

NeedInv == TypeInv /\ EventsSound /\ CachesSound /\ TasksSound /\ EntriesSound

\* The worker w gets the task t, and the world is as it was
LEMMA SoundStep ==
    ASSUME NeedInv, UNCHANGED <<home, jobs, asked>>, NEW w \in Workers, NEW t,
           tasks' = [tasks EXCEPT ![w] = t], t # Idle => Sound(w, t)
    PROVE  TasksSound'
<1>1. \A u \in Workers : tasks'[u] = IF u = w THEN t ELSE tasks[u]
  BY DEF NeedInv, TypeInv, TypeOK
<1>2. \A u \in Workers : \A x : Sound(u, x) => Sound(u, x)'
  BY DEF Sound, Asked, Needed, Runs
<1>3. SUFFICES ASSUME NEW u \in Workers, tasks'[u] # Idle
               PROVE  Sound(u, tasks[u])'
  BY DEF TasksSound
<1>4. PICK x : x = tasks'[u]
  OBVIOUS
<1>5. Sound(u, x)
  BY <1>1, <1>3, <1>4 DEF NeedInv, TasksSound
<1>6. Sound(u, x)'
  BY <1>2, <1>5
<1>7. QED
  BY <1>4, <1>6 DEF Sound, Asked, Needed, Runs

\* A task that has just begun
LEMMA SoundBegin ==
    ASSUME NEW w \in Workers, NEW pc \in {"process", "loop"}, NEW item, NEW dep, NEW todo,
           w = "dependency" => Asked(item.src, item.dests),
           w = "job" => <<item.src, item.at>> \in jobs,
           w = "workload" => item.at \in home[item.src],
           dep # Absent => Asked(dep.src, dep.dests)
    PROVE  Sound(w, Begin(pc, item, dep, todo))
  BY DEF Sound, Begin

\* What is known of the clients of each server stays so when a dependency is
\* added to it that has been asked for
LEMMA SoundKnown ==
    ASSUME NeedInv, NEW item, Asked(item.src, item.dests), UNCHANGED asked,
           identityDependency' = Known(item)
    PROVE  \A d \in Servers, s \in Clients : s \in identityDependency'[d] => <<s, d>> \in asked'
<1>1. \A d \in Servers : identityDependency'[d] = identityDependency[d]
                           \cup (IF d \in item.dests THEN {item.src} ELSE {})
  BY DEF Known
<1>2. \A d \in Servers, s \in Clients : s \in identityDependency[d] => <<s, d>> \in asked
  BY DEF NeedInv, CachesSound
<1>3. QED
  BY <1>1, <1>2 DEF Asked

\* A workload or job is found in the cluster in which it runs
LEMMA SoundPlace ==
    ASSUME NeedInv, NEW i \in Identities, NEW c \in Clusters, Runs(i, c), UNCHANGED <<home, jobs>>,
           identityCluster' = [identityCluster EXCEPT ![i] = @ \cup {c}]
    PROVE  \A j \in Identities : \A b \in identityCluster'[j] : Runs(j, b)'
<1>1. \A j \in Identities :
         identityCluster'[j] = IF j = i THEN identityCluster[i] \cup {c} ELSE identityCluster[j]
  BY DEF NeedInv, TypeInv, TypeOK
<1>2. \A j \in Identities : \A b \in identityCluster[j] : Runs(j, b)
  BY DEF NeedInv, CachesSound
<1>3. ASSUME NEW j \in Identities, NEW b \in identityCluster'[j]
      PROVE  Runs(j, b)
  <2>1. CASE b \in identityCluster[j]
    BY <1>2, <2>1
  <2>2. CASE j = i /\ b = c
    BY <2>2
  <2>3. QED
    BY <1>1, <1>3, <2>1, <2>2
<1>4. \A j, b : Runs(j, b) => Runs(j, b)'
  BY DEF Runs
<1>5. QED
  BY <1>3, <1>4

LEMMA NeedTakeDependency ==
    ASSUME NeedInv, TakeDependency
    PROVE  EventsSound' /\ CachesSound' /\ TasksSound' /\ EntriesSound'
<1>1. PICK item : item = Head(depQ)
  OBVIOUS
<1>2. /\ depQ # << >> /\ depQ' = Tail(depQ)
      /\ UNCHANGED <<wanted, home, jobs, entries, workQ, jobQ, identityCluster, cnameDependents,
                     asked>>
  BY DEF TakeDependency, world
<1>3. /\ \/ depCache' = [depCache EXCEPT ![item.src] = Absent]
         \/ depCache' = [depCache EXCEPT ![item.src] = [dests |-> item.dests, rev |-> item.rev]]
      /\ \/ UNCHANGED <<identityDependency, tasks>>
         \/ /\ identityDependency' = Known(item)
            /\ tasks' = [tasks EXCEPT !["dependency"] = Begin("process", item, item, {})]
  BY <1>1 DEF TakeDependency
<1>4. depQ \in Seq(DepItem) /\ item = depQ[1] /\ 1 \in 1 .. Len(depQ)
  BY <1>1, <1>2 DEF NeedInv, TypeInv, TypeOK
<1>5. Asked(item.src, item.dests) /\ item.src \in Clients
  <2>1. item \in DepItem
    BY <1>4
  <2>2. Asked(depQ[1].src, depQ[1].dests)
    BY <1>4 DEF NeedInv, EventsSound
  <2>3. QED
    BY <1>4, <2>1, <2>2 DEF DepItem
<1>6. EventsSound'
  <2>1. \A n \in 1 .. Len(depQ') : n + 1 \in 1 .. Len(depQ) /\ depQ'[n] = depQ[n + 1]
    BY <1>2, <1>4
  <2>2. \A n \in 1 .. Len(depQ') : Asked(depQ'[n].src, depQ'[n].dests)
    BY <2>1 DEF NeedInv, EventsSound
  <2>3. QED
    BY <1>2, <2>2 DEF NeedInv, EventsSound, Asked
<1>7. CachesSound'
  <2>1. \A s \in Clients : depCache'[s] # Absent => Asked(s, depCache'[s].dests)
    <3>1. \A s \in Clients : s # item.src => depCache'[s] = depCache[s]
      BY <1>3 DEF NeedInv, TypeInv, TypeOK
    <3>2. depCache'[item.src] # Absent => depCache'[item.src].dests = item.dests
      BY <1>3, <1>5 DEF NeedInv, TypeInv, TypeOK
    <3>3. QED
      BY <1>5, <3>1, <3>2 DEF NeedInv, CachesSound
  <2>2. \A d \in Servers, s \in Clients : s \in identityDependency'[d] => <<s, d>> \in asked'
    BY <1>2, <1>3, <1>5, SoundKnown DEF NeedInv, CachesSound
  <2>3. QED
    BY <1>2, <2>1, <2>2 DEF NeedInv, CachesSound, Asked, Runs
<1>8. TasksSound'
  <2>1. CASE UNCHANGED tasks
    BY <1>2, <2>1 DEF NeedInv, TasksSound, Sound, Asked, Needed, Runs
  <2>2. CASE tasks' = [tasks EXCEPT !["dependency"] = Begin("process", item, item, {})]
    <3>1. Sound("dependency", Begin("process", item, item, {}))
      BY <1>5, SoundBegin DEF Workers
    <3>2. QED
      BY <1>2, <2>2, <3>1, SoundStep DEF Workers
  <2>3. QED
    BY <1>3, <2>1, <2>2
<1>9. EntriesSound'
  BY <1>2 DEF NeedInv, EntriesSound, Needed, Runs
<1>10. QED
  BY <1>6, <1>7, <1>8, <1>9

LEMMA NeedTakeJob ==
    ASSUME NeedInv, TakeJob
    PROVE  EventsSound' /\ CachesSound' /\ TasksSound' /\ EntriesSound'
<1>1. PICK item, record : item = Head(jobQ) /\ record = depCache[item.src]
  OBVIOUS
<1> DEFINE dep == [type |-> "Add", src |-> item.src, dests |-> record.dests,
                   rev |-> record.rev, tries |-> 0]
<1>2. /\ jobQ # << >>
      /\ identityCluster' = [identityCluster EXCEPT ![item.src] = @ \cup {item.at}]
      /\ UNCHANGED <<wanted, home, jobs, entries, depQ, workQ, depCache, cnameDependents, asked>>
  BY <1>1 DEF TakeJob, world
<1>3. /\ \/ jobQ' = Tail(jobQ)
         \/ jobQ' = Append(Tail(jobQ), [item EXCEPT !.tries = @ + 1])
      /\ \/ UNCHANGED <<identityDependency, tasks>>
         \/ /\ record # Absent /\ identityDependency' = Known(dep)
            /\ tasks' = [tasks EXCEPT !["job"] = Begin("process", item, dep, {})]
  BY <1>1 DEF TakeJob
<1>4. jobQ \in Seq(JobItem) /\ item = jobQ[1] /\ 1 \in 1 .. Len(jobQ)
  BY <1>1, <1>2 DEF NeedInv, TypeInv, TypeOK
<1>5. /\ <<item.src, item.at>> \in jobs /\ item.src \in Clients /\ item.at \in Clusters
      /\ [item EXCEPT !.tries = @ + 1] \in JobItem
      /\ [item EXCEPT !.tries = @ + 1].src = item.src /\ [item EXCEPT !.tries = @ + 1].at = item.at
  <2>1. item \in JobItem
    BY <1>4
  <2>2. <<jobQ[1].src, jobQ[1].at>> \in jobs
    BY <1>4 DEF NeedInv, EventsSound
  <2>3. QED
    BY <1>4, <2>1, <2>2 DEF JobItem
<1>6. record # Absent => Asked(dep.src, dep.dests)
  BY <1>1, <1>5 DEF NeedInv, CachesSound
<1> HIDE DEF dep
<1>7. EventsSound'
  <2>1. PICK q : q = Tail(jobQ)
    OBVIOUS
  <2>2. /\ q \in Seq(JobItem)
        /\ \A n \in 1 .. Len(q) : n + 1 \in 1 .. Len(jobQ) /\ q[n] = jobQ[n + 1]
    BY <1>2, <1>4, <2>1
  <2>3. \A n \in 1 .. Len(q) : <<q[n].src, q[n].at>> \in jobs
    BY <2>2 DEF NeedInv, EventsSound
  <2>4. PICK x \in JobItem : x = [item EXCEPT !.tries = @ + 1]
    BY <1>5
  <2>5. \A n \in 1 .. Len(Append(q, x)) :
           <<Append(q, x)[n].src, Append(q, x)[n].at>> \in jobs
    BY <1>5, <2>2, <2>3, <2>4
  <2>6. \A n \in 1 .. Len(jobQ') : <<jobQ'[n].src, jobQ'[n].at>> \in jobs
    BY <1>3, <2>1, <2>3, <2>4, <2>5
  <2>7. QED
    BY <1>2, <2>6 DEF NeedInv, EventsSound, Asked
<1>8. CachesSound'
  <2>1. \A i \in Identities : \A c \in identityCluster'[i] : Runs(i, c)'
    <3>1. item.src \in Identities /\ Runs(item.src, item.at)
      BY <1>5 DEF Identities, Runs
    <3>2. QED
      BY <1>2, <1>5, <3>1, SoundPlace
  <2>2. \A d \in Servers, s \in Clients : s \in identityDependency'[d] => <<s, d>> \in asked'
    <3>1. CASE UNCHANGED identityDependency
      BY <1>2, <3>1 DEF NeedInv, CachesSound
    <3>2. CASE record # Absent /\ identityDependency' = Known(dep)
      BY <1>2, <1>6, <3>2, SoundKnown
    <3>3. QED
      BY <1>3, <3>1, <3>2
  <2>3. QED
    BY <1>2, <2>1, <2>2 DEF NeedInv, CachesSound, Asked, Runs
<1>9. TasksSound'
  <2>1. CASE UNCHANGED tasks
    BY <1>2, <2>1 DEF NeedInv, TasksSound, Sound, Asked, Needed, Runs
  <2>2. CASE record # Absent /\ tasks' = [tasks EXCEPT !["job"] = Begin("process", item, dep, {})]
    <3>1. Sound("job", Begin("process", item, dep, {}))
      BY <1>5, <1>6, <2>2, SoundBegin DEF Workers
    <3>2. QED
      BY <1>2, <2>2, <3>1, SoundStep DEF Workers
  <2>3. QED
    BY <1>3, <2>1, <2>2
<1>10. EntriesSound'
  BY <1>2 DEF NeedInv, EntriesSound, Needed, Runs
<1>11. QED
  BY <1>7, <1>8, <1>9, <1>10

LEMMA NeedWorkload ==
    ASSUME NeedInv, RegisterWorkload \/ TakeWorkload
    PROVE  EventsSound' /\ CachesSound' /\ TasksSound' /\ EntriesSound'
<1>1. PICK e \in workQ :
         /\ workQ' \subseteq workQ
         /\ identityCluster' = [identityCluster EXCEPT ![e.src] = @ \cup {e.at}]
         /\ \/ UNCHANGED tasks
            \/ \E todo : tasks' = [tasks EXCEPT !["workload"] = Begin("loop", e, Absent, todo)]
  BY DEF RegisterWorkload, TakeWorkload, queues
<1>2. UNCHANGED <<wanted, home, jobs, entries, depQ, jobQ, depCache, identityDependency,
                  cnameDependents, asked>>
  BY DEF RegisterWorkload, TakeWorkload, world, queues, history
<1>3. /\ e.src \in Identities /\ e.at \in Clusters /\ e.at \in home[e.src]
  BY <1>1 DEF NeedInv, TypeInv, TypeOK, AllWork, EventsSound
<1>4. EventsSound'
  BY <1>1, <1>2 DEF NeedInv, EventsSound, Asked
<1>5. CachesSound'
  <2>1. \A i \in Identities : \A c \in identityCluster'[i] : Runs(i, c)'
    <3>1. Runs(e.src, e.at)
      BY <1>3 DEF Runs
    <3>2. QED
      BY <1>1, <1>2, <1>3, <3>1, SoundPlace
  <2>2. QED
    BY <1>2, <2>1 DEF NeedInv, CachesSound, Asked, Runs
<1>6. TasksSound'
  <2>1. CASE UNCHANGED tasks
    BY <1>2, <2>1 DEF NeedInv, TasksSound, Sound, Asked, Needed, Runs
  <2>2. ASSUME NEW todo,
               tasks' = [tasks EXCEPT !["workload"] = Begin("loop", e, Absent, todo)]
        PROVE  TasksSound'
    <3>1. Sound("workload", Begin("loop", e, Absent, todo))
      BY <1>3, SoundBegin DEF Workers
    <3>2. QED
      BY <1>2, <2>2, <3>1, SoundStep DEF Workers
  <2>3. QED
    BY <1>1, <2>1, <2>2
<1>7. EntriesSound'
  BY <1>2 DEF NeedInv, EntriesSound, Needed, Runs
<1>8. QED
  BY <1>4, <1>5, <1>6, <1>7

\* Where a server runs, it runs as a workload: only clients have jobs
LEMMA ServerRuns ==
    ASSUME TypeInv, NEW d \in Servers, NEW c, Runs(d, c)
    PROVE  c \in home[d]
<1>1. <<d, c>> \notin jobs
  <2>1. jobs \subseteq Clients \X Clusters /\ d \notin Clients
    BY DependencyAssumption DEF TypeInv, TypeOK
  <2>2. QED
    BY <2>1
<1>2. QED
  BY <1>1 DEF Runs

\* The dependents that a run notes down have asked for the server
LEMMA DependentsSound ==
    ASSUME NeedInv, NEW d \in Servers, NEW p \in Dependents(d)
    PROVE  p[2] \in Clients /\ <<p[2], d>> \in asked /\ Runs(p[2], p[1])
<1>1. CASE p \in cnameDependents[d]
  BY <1>1 DEF NeedInv, CachesSound, TypeInv, TypeOK
<1>2. CASE p \in Clusters \X Clients /\ p[2] \in identityDependency[d]
           /\ p[1] \in identityCluster[p[2]]
  <2>1. p[2] \in Clients /\ p[2] \in Identities
    BY <1>2 DEF Identities
  <2>2. QED
    BY <1>2, <2>1 DEF NeedInv, CachesSound
<1>3. QED
  BY <1>1, <1>2 DEF Dependents

\* A run is sent only to clusters that need the entries
LEMMA TargetsNeeded ==
    ASSUME NeedInv, NEW w \in Workers, Shape(w, tasks[w]), Sound(w, tasks[w]),
           NEW d \in tasks[w].todo, d \in Servers, NEW c \in Targets(d, tasks[w].over)
    PROVE  Needed(c, d)
<1>1. CASE c \in identityCluster[d]
  <2>1. Runs(d, c)
    BY <1>1 DEF NeedInv, CachesSound, Identities
  <2>2. QED
    BY <2>1, ServerRuns DEF NeedInv, Needed
<1>2. CASE tasks[w].over # {} /\ c \in tasks[w].over
  <2>1. /\ tasks[w].dep # Absent /\ d \in tasks[w].dep.dests /\ Runs(tasks[w].dep.src, c)
        /\ Asked(tasks[w].dep.src, tasks[w].dep.dests)
    BY <1>2 DEF Sound
  <2>2. tasks[w].dep.src \in Clients
    <3>1. tasks[w].dep \in DepItem
      BY <2>1 DEF Shape, Task
    <3>2. QED
      BY <3>1 DEF DepItem
  <2>3. <<tasks[w].dep.src, d>> \in asked
    BY <2>1 DEF Asked
  <2>4. QED
    BY <2>1, <2>2, <2>3 DEF Needed
<1>3. ASSUME NEW p \in Dependents(d), c = p[1]
      PROVE  Needed(c, d)
  BY <1>3, DependentsSound DEF Needed
<1>4. QED
  BY <1>1, <1>2, <1>3 DEF Targets

LEMMA NeedRun ==
    ASSUME NeedInv, NEW w \in Workers,
           \/ Process(w) \/ Put(w) \/ NextServer(w) \/ NoMoreServers(w)
           \/ Write(w) \/ WriteFails(w) \/ WriteSkipped(w)
    PROVE  EventsSound' /\ CachesSound' /\ TasksSound' /\ EntriesSound'
<1>1. tasks[w].pc \in {"process", "loop", "write", "put"}
  BY DEF Process, Put, NextServer, NoMoreServers, Write, WriteFails, WriteSkipped
<1>2. /\ Shape(w, tasks[w]) /\ tasks[w] \in Task /\ tasks[w] # Idle
      /\ tasks[w].todo \subseteq Servers /\ tasks \in [Workers -> Tasks]
  BY <1>1, BusyType DEF NeedInv, TypeInv, TypeOK, Tasks
<1>3. Sound(w, tasks[w])
  BY <1>2 DEF NeedInv, TasksSound
<1>4. UNCHANGED <<wanted, home, jobs, depQ, workQ, jobQ, depCache, identityDependency,
                  identityCluster, asked>>
  BY DEF Process, Put, NextServer, NoMoreServers, Write, WriteFails, WriteSkipped,
         world, queues, caches, history
<1>5. EventsSound'
  BY <1>4 DEF NeedInv, EventsSound, Asked
<1>6. ASSUME UNCHANGED cnameDependents
      PROVE  CachesSound'
  BY <1>4, <1>6 DEF NeedInv, CachesSound, Asked, Runs
<1>7. ASSUME UNCHANGED entries
      PROVE  EntriesSound'
  BY <1>4, <1>7 DEF NeedInv, EntriesSound, Needed, Runs
<1>8. CASE Process(w)
  <2>1. UNCHANGED <<cnameDependents, entries>> /\ tasks[w].pc = "process"
    BY <1>8 DEF Process, caches
  <2>2. tasks[w].dep # Absent /\ tasks[w].dep \in DepItem
    BY <1>2, <2>1 DEF Shape, Task
  <2>3. CASE tasks' = [tasks EXCEPT ![w].pc = "put"]
    <3> DEFINE t == [tasks[w] EXCEPT !.pc = "put"]
    <3>1. tasks' = [tasks EXCEPT ![w] = t]
      BY <1>2, <2>3
    <3>2. /\ t.pc = "put" /\ t.item = tasks[w].item /\ t.dep = tasks[w].dep
          /\ t.over = tasks[w].over /\ t.todo = tasks[w].todo
      BY <1>2 DEF Task
    <3> HIDE DEF t
    <3>3. Sound(w, t)
      BY <1>3, <3>2 DEF Sound
    <3>4. QED
      BY <1>4, <1>5, <1>6, <1>7, <2>1, <3>1, <3>3, SoundStep
  <2>4. ASSUME NEW over, NEW todo, over = identityCluster[tasks[w].dep.src],
               todo \subseteq tasks[w].dep.dests,
               tasks' = [tasks EXCEPT ![w].pc = "loop", ![w].over = over, ![w].todo = todo]
        PROVE  TasksSound'
    <3> DEFINE t == [tasks[w] EXCEPT !.pc = "loop", !.over = over, !.todo = todo]
    <3>1. tasks' = [tasks EXCEPT ![w] = t]
      BY <1>2, <2>4
    <3>2. /\ t.pc = "loop" /\ t.item = tasks[w].item /\ t.dep = tasks[w].dep
          /\ t.over = over /\ t.todo = todo
      BY <1>2 DEF Task
    <3> HIDE DEF t
    <3>3. \A c \in over : Runs(tasks[w].dep.src, c)
      BY <2>2, <2>4 DEF NeedInv, CachesSound, DepItem, Identities
    <3>4. Sound(w, t)
      BY <1>3, <2>2, <2>4, <3>2, <3>3 DEF Sound
    <3>5. QED
      BY <1>4, <3>1, <3>4, SoundStep
  <2>5. {d \in Destinations(tasks[w].dep) : identityCluster[d] # {}} \subseteq tasks[w].dep.dests
    BY DEF Destinations
  <2>6. QED
    BY <1>5, <1>6, <1>7, <1>8, <2>1, <2>3, <2>4, <2>5 DEF Process
<1>9. CASE Put(w) \/ NoMoreServers(w)
  <2>1. UNCHANGED <<cnameDependents, entries>>
    BY <1>9 DEF Put, NoMoreServers, caches
  <2>2. PICK pc \in {"end", "put"} : tasks' = [tasks EXCEPT ![w].pc = pc]
    BY <1>9 DEF Put, NoMoreServers
  <2> DEFINE t == [tasks[w] EXCEPT !.pc = pc]
  <2>3. tasks' = [tasks EXCEPT ![w] = t]
    BY <1>2, <2>2
  <2>4. /\ t.pc # "write" /\ t.item = tasks[w].item /\ t.dep = tasks[w].dep
        /\ t.over = tasks[w].over /\ t.todo = tasks[w].todo
    BY <1>2 DEF Task
  <2> HIDE DEF t
  <2>5. Sound(w, t)
    BY <1>3, <2>4 DEF Sound
  <2>6. QED
    BY <1>4, <1>5, <1>6, <1>7, <2>1, <2>3, <2>5, SoundStep
<1>10. CASE NextServer(w)
  <2>1. PICK d \in tasks[w].todo :
           /\ cnameDependents' = [cnameDependents EXCEPT ![d] = Dependents(d)]
           /\ tasks' = [tasks EXCEPT ![w].pc = "write", ![w].todo = @ \ {d}, ![w].now = d,
                                     ![w].left = Targets(d, tasks[w].over)]
    BY <1>10 DEF NextServer
  <2>2. d \in Servers /\ UNCHANGED entries
    BY <1>2, <1>10, <2>1 DEF NextServer
  <2>3. CachesSound'
    <3>1. \A b \in Servers :
             cnameDependents'[b] = IF b = d THEN Dependents(d) ELSE cnameDependents[b]
      BY <2>1, <2>2 DEF NeedInv, TypeInv, TypeOK
    <3>2. \A b \in Servers : \A p \in cnameDependents'[b] :
             <<p[2], b>> \in asked /\ Runs(p[2], p[1])
      BY <2>2, <3>1, DependentsSound DEF NeedInv, CachesSound
    <3>3. QED
      BY <1>4, <3>2 DEF NeedInv, CachesSound, Asked, Runs
  <2> DEFINE t == [tasks[w] EXCEPT !.pc = "write", !.todo = @ \ {d}, !.now = d,
                                   !.left = Targets(d, tasks[w].over)]
  <2>4. tasks' = [tasks EXCEPT ![w] = t]
    BY <1>2, <2>1
  <2>5. /\ t.item = tasks[w].item /\ t.dep = tasks[w].dep /\ t.over = tasks[w].over
        /\ t.todo \subseteq tasks[w].todo /\ t.now = d /\ t.left = Targets(d, tasks[w].over)
    BY <1>2 DEF Task
  <2> HIDE DEF t
  <2>6. \A c \in t.left : Needed(c, t.now)
    BY <1>2, <1>3, <2>2, <2>5, TargetsNeeded
  <2>7. Sound(w, t)
    BY <1>3, <2>5, <2>6 DEF Sound
  <2>8. QED
    BY <1>4, <1>5, <1>7, <2>2, <2>3, <2>4, <2>7, SoundStep
<1>11. CASE Write(w) \/ WriteFails(w) \/ WriteSkipped(w)
  <2>1. UNCHANGED cnameDependents /\ tasks[w].pc = "write"
    BY <1>11 DEF Write, WriteFails, WriteSkipped, caches
  <2>2. PICK c \in tasks[w].left, err \in BOOLEAN :
           /\ Wrote(w, c, err)
           /\ UNCHANGED entries \/ entries' = entries \cup {<<c, tasks[w].now>>}
    BY <1>11 DEF Write, WriteFails, WriteSkipped
  <2>3. Needed(c, tasks[w].now)
    BY <1>3, <2>1, <2>2 DEF Sound
  <2>4. EntriesSound'
    <3>1. ASSUME NEW p \in entries'
          PROVE  Needed(p[1], p[2])
      BY <2>2, <2>3, <3>1 DEF NeedInv, EntriesSound
    <3>2. QED
      BY <1>4, <3>1 DEF EntriesSound, Needed, Runs
  <2>5. PICK pc \in {"loop", "write"} :
           tasks' = [tasks EXCEPT ![w].left = @ \ {c}, ![w].err = @ \/ err, ![w].pc = pc]
    BY <2>2 DEF Wrote
  <2> DEFINE t == [tasks[w] EXCEPT !.left = @ \ {c}, !.err = @ \/ err, !.pc = pc]
  <2>6. tasks' = [tasks EXCEPT ![w] = t]
    BY <1>2, <2>5
  <2>7. /\ t.item = tasks[w].item /\ t.dep = tasks[w].dep /\ t.over = tasks[w].over
        /\ t.todo = tasks[w].todo /\ t.now = tasks[w].now /\ t.left \subseteq tasks[w].left
    BY <1>2 DEF Task
  <2> HIDE DEF t
  <2>8. Sound(w, t)
    BY <1>3, <2>1, <2>7 DEF Sound
  <2>9. QED
    BY <1>4, <1>5, <1>6, <2>1, <2>4, <2>6, <2>8, SoundStep
<1>12. QED
  BY <1>8, <1>9, <1>10, <1>11

LEMMA NeedEnd ==
    ASSUME NeedInv, NEW w \in Workers, End(w)
    PROVE  EventsSound' /\ CachesSound' /\ TasksSound' /\ EntriesSound'
<1>1. PICK item : item = tasks[w].item
  OBVIOUS
<1>2. /\ tasks[w].pc = "end" /\ tasks' = [tasks EXCEPT ![w] = Idle]
      /\ UNCHANGED <<wanted, home, jobs, entries, depCache, identityDependency, identityCluster,
                     cnameDependents, asked>>
  BY DEF End, world, caches
<1>3. Shape(w, tasks[w]) /\ tasks[w] # Idle /\ tasks[w].err \in BOOLEAN
  BY <1>2, BusyType DEF NeedInv
<1>4. Sound(w, tasks[w])
  BY <1>3 DEF NeedInv, TasksSound
<1>5. /\ workQ' = workQ \/ (w = "workload" /\ workQ' = workQ \cup {item})
      /\ jobQ' = jobQ \/ (w = "job" /\ jobQ' = Append(jobQ, [item EXCEPT !.tries = @ + 1]))
      /\ depQ' = depQ \/ (w = "dependency" /\ depQ' = Append(depQ, [item EXCEPT !.tries = @ + 1]))
  BY <1>1, <1>3 DEF End, Workers, queues
<1>6. \A e \in workQ' : e.at \in home[e.src]
  BY <1>1, <1>4, <1>5 DEF NeedInv, EventsSound, Sound
<1>7. \A n \in 1 .. Len(jobQ') : <<jobQ'[n].src, jobQ'[n].at>> \in jobs
  <2>1. CASE jobQ' = jobQ
    BY <2>1 DEF NeedInv, EventsSound
  <2>2. CASE w = "job" /\ jobQ' = Append(jobQ, [item EXCEPT !.tries = @ + 1])
    <3>1. PICK x \in JobItem : x = [item EXCEPT !.tries = @ + 1] /\ x.src = item.src /\ x.at = item.at
      BY <1>1, <1>3, <2>2 DEF Shape, JobItem
    <3>2. <<x.src, x.at>> \in jobs
      BY <1>1, <1>4, <2>2, <3>1 DEF Sound
    <3>3. jobQ \in Seq(JobItem) /\ \A n \in 1 .. Len(jobQ) : <<jobQ[n].src, jobQ[n].at>> \in jobs
      BY DEF NeedInv, TypeInv, TypeOK, EventsSound
    <3>4. jobQ' = Append(jobQ, x)
      BY <2>2, <3>1
    <3>5. QED
      BY <3>2, <3>3, <3>4
  <2>3. QED
    BY <1>5, <2>1, <2>2
<1>8. \A n \in 1 .. Len(depQ') : Asked(depQ'[n].src, depQ'[n].dests)
  <2>1. CASE depQ' = depQ
    BY <2>1 DEF NeedInv, EventsSound
  <2>2. CASE w = "dependency" /\ depQ' = Append(depQ, [item EXCEPT !.tries = @ + 1])
    <3>1. PICK x \in DepItem : /\ x = [item EXCEPT !.tries = @ + 1]
                               /\ x.src = item.src /\ x.dests = item.dests
      BY <1>1, <1>3, <2>2 DEF Shape, DepItem
    <3>2. Asked(x.src, x.dests)
      BY <1>1, <1>4, <2>2, <3>1 DEF Sound
    <3>3. /\ depQ \in Seq(DepItem)
          /\ \A n \in 1 .. Len(depQ) : Asked(depQ[n].src, depQ[n].dests)
      BY DEF NeedInv, TypeInv, TypeOK, EventsSound
    <3>4. depQ' = Append(depQ, x)
      BY <2>2, <3>1
    <3>5. QED
      BY <3>2, <3>3, <3>4
  <2>3. QED
    BY <1>5, <2>1, <2>2
<1>9. EventsSound'
  BY <1>2, <1>6, <1>7, <1>8 DEF NeedInv, EventsSound, Asked
<1>10. TasksSound'
  BY <1>2, SoundStep
<1>11. CachesSound' /\ EntriesSound'
  BY <1>2 DEF NeedInv, CachesSound, EntriesSound, Asked, Needed, Runs
<1>12. QED
  BY <1>9, <1>10, <1>11

\* The world only comes to give more reasons
LEMMA NeedGrows ==
    ASSUME NeedInv, \A i \in Identities : home[i] \subseteq home'[i],
           jobs \subseteq jobs', asked \subseteq asked',
           UNCHANGED <<entries, depCache, identityDependency, identityCluster, cnameDependents,
                       tasks>>
    PROVE  CachesSound' /\ TasksSound' /\ EntriesSound'
<1>1. Clients \subseteq Identities /\ Servers \subseteq Identities
  BY DEF Identities
<1>2. /\ \A i \in Identities : \A c : Runs(i, c) => Runs(i, c)'
      /\ \A s, dests : Asked(s, dests) => Asked(s, dests)'
  BY DEF Runs, Asked
<1>3. \A d \in Servers : \A c : Needed(c, d) => Needed(c, d)'
  BY <1>1 DEF Needed, Runs
<1>4. CachesSound'
  <2>1. \A s \in Clients : depCache'[s] # Absent => Asked(s, depCache[s].dests)'
    BY DEF NeedInv, CachesSound, Asked
  <2>2. \A d \in Servers, s \in Clients : s \in identityDependency'[d] => <<s, d>> \in asked'
    BY DEF NeedInv, CachesSound
  <2>3. \A i \in Identities : \A c \in identityCluster'[i] : Runs(i, c)'
    BY DEF NeedInv, CachesSound, Runs
  <2>4. \A d \in Servers : \A p \in cnameDependents'[d] :
           <<p[2], d>> \in asked' /\ Runs(p[2], p[1])'
    <3>1. \A d \in Servers : \A p \in cnameDependents[d] :
             p[2] \in Identities /\ <<p[2], d>> \in asked /\ Runs(p[2], p[1])
      <4>1. \A d \in Servers : \A p \in cnameDependents[d] : p[2] \in Clients
        BY DEF NeedInv, TypeInv, TypeOK
      <4>2. QED
        BY <1>1, <4>1 DEF NeedInv, CachesSound
    <3>2. QED
      BY <3>1 DEF Runs
  <2>5. QED
    BY <2>1, <2>2, <2>3, <2>4 DEF CachesSound
<1>5. EntriesSound'
  <2>1. \A p \in entries : p[2] \in Servers /\ Needed(p[1], p[2])
    BY DEF NeedInv, EntriesSound, TypeInv, TypeOK
  <2>2. QED
    BY <1>1, <2>1 DEF EntriesSound, Needed, Runs
<1>6. TasksSound'
  <2>1. SUFFICES ASSUME NEW w \in Workers, tasks[w] # Idle
                 PROVE  Sound(w, tasks[w])'
    BY DEF TasksSound
  <2>2. PICK t : t = tasks[w] /\ t = tasks'[w]
    OBVIOUS
  <2>3. Shape(w, t) /\ Sound(w, t)
    BY <2>1, <2>2 DEF NeedInv, TypeInv, WellFormed, TasksSound
  <2>4. /\ w = "workload" => t.item.src \in Identities
        /\ t.dep # Absent => t.dep.src \in Identities
        /\ t.pc = "write" => t.now \in Servers
    BY <1>1, <2>3 DEF Shape, Task, AllWork, DepItem
  <2>5. Sound(w, t)'
    <3>1. /\ w = "dependency" => Asked(t.item.src, t.item.dests)'
          /\ w = "job" => <<t.item.src, t.item.at>> \in jobs'
          /\ w = "workload" => t.item.at \in home'[t.item.src]
          /\ t.dep # Absent => Asked(t.dep.src, t.dep.dests)'
      BY <1>2, <2>3, <2>4 DEF Sound
    <3>2. t.over # {} => /\ t.dep # Absent /\ t.todo \subseteq t.dep.dests
                         /\ \A c \in t.over : Runs(t.dep.src, c)'
      BY <1>2, <2>3, <2>4 DEF Sound
    <3>3. t.pc = "write" => \A c \in t.left : Needed(c, t.now)'
      BY <1>3, <2>3, <2>4 DEF Sound
    <3>4. QED
      BY <3>1, <3>2, <3>3 DEF Sound
  <2>6. QED
    BY <2>2, <2>5 DEF Sound, Asked, Needed, Runs
<1>7. QED
  BY <1>4, <1>5, <1>6

LEMMA NeedEnvironment ==
    ASSUME NeedInv, Environment \/ WarmedUp
    PROVE  EventsSound' /\ CachesSound' /\ TasksSound' /\ EntriesSound'
<1>1. ASSUME NEW s \in Clients, Ask(s)
      PROVE  EventsSound' /\ CachesSound' /\ TasksSound' /\ EntriesSound'
  <2>1. PICK dests \in Requests, type \in {"Add", "Update"}, rev \in Nat :
           /\ wanted' = [wanted EXCEPT ![s] = [dests |-> dests, rev |-> rev]]
           /\ Emit(type, s, [dests |-> dests, rev |-> rev])
           /\ asked' = asked \cup ({s} \X dests)
    <3>1. clock' = clock + 1 /\ clock + 1 \in Nat
      BY <1>1 DEF Ask, NeedInv, TypeInv, TypeOK
    <3>2. PICK dests \in Requests, type \in {"Add", "Update"} :
             /\ wanted' = [wanted EXCEPT ![s] = [dests |-> dests, rev |-> clock']]
             /\ Emit(type, s, [dests |-> dests, rev |-> clock'])
             /\ asked' = asked \cup ({s} \X dests)
      BY <1>1 DEF Ask
    <3>3. QED
      BY <3>1, <3>2
  <2>2. UNCHANGED <<home, jobs, entries, workQ, jobQ, depCache, identityDependency, identityCluster,
                    cnameDependents, tasks>>
    BY <1>1 DEF Ask, caches
  <2>3. /\ asked \subseteq asked' /\ \A d \in dests : <<s, d>> \in asked'
    BY <2>1
  <2>4. \A r \in Clients : wanted'[r] # Absent => Asked(r, wanted[r].dests)'
    <3>1. \A r \in Clients : IF r = s THEN wanted'[r].dests = dests ELSE wanted'[r] = wanted[r]
      BY <2>1 DEF NeedInv, TypeInv, TypeOK
    <3>2. QED
      BY <2>3, <3>1 DEF NeedInv, EventsSound, Asked
  <2>5. \A n \in 1 .. Len(depQ') : Asked(depQ[n].src, depQ[n].dests)'
    <3>1. PICK x \in DepItem : x.src = s /\ x.dests = dests /\ depQ' = Append(depQ, x)
      BY <2>1, DependencyAssumption DEF Emit, DepItem
    <3>2. /\ depQ \in Seq(DepItem)
          /\ \A n \in 1 .. Len(depQ) : Asked(depQ[n].src, depQ[n].dests)
      BY DEF NeedInv, TypeInv, TypeOK, EventsSound
    <3>3. \A n \in 1 .. Len(depQ') : depQ'[n] = x \/ (n \in 1 .. Len(depQ) /\ depQ'[n] = depQ[n])
      BY <3>1, <3>2
    <3>4. QED
      BY <2>3, <3>1, <3>2, <3>3 DEF Asked
  <2>6. EventsSound'
    BY <2>2, <2>4, <2>5 DEF NeedInv, EventsSound
  <2>7. QED
    BY <2>2, <2>3, <2>6, NeedGrows
<1>2. ASSUME NEW s \in Clients, Withdraw(s)
      PROVE  EventsSound' /\ CachesSound' /\ TasksSound' /\ EntriesSound'
  <2>1. /\ wanted[s] \in Record /\ wanted[s] # Absent /\ wanted' = [wanted EXCEPT ![s] = Absent]
        /\ Emit("Delete", s, wanted[s])
        /\ UNCHANGED <<home, jobs, entries, workQ, jobQ, depCache, identityDependency,
                       identityCluster, cnameDependents, tasks, asked>>
    BY <1>2 DEF Withdraw, caches, history, NeedInv, TypeInv, TypeOK
  <2>2. \A r \in Clients : wanted'[r] # Absent => wanted'[r] = wanted[r]
    BY <2>1 DEF NeedInv, TypeInv, TypeOK
  <2>3. \A n \in 1 .. Len(depQ') : Asked(depQ[n].src, depQ[n].dests)'
    <3>1. PICK x \in DepItem : x.src = s /\ x.dests = wanted[s].dests /\ depQ' = Append(depQ, x)
      BY <2>1 DEF Emit, DepItem, Record
    <3>2. /\ depQ \in Seq(DepItem)
          /\ \A n \in 1 .. Len(depQ) : Asked(depQ[n].src, depQ[n].dests)
      BY DEF NeedInv, TypeInv, TypeOK, EventsSound
    <3>3. \A n \in 1 .. Len(depQ') : depQ'[n] = x \/ (n \in 1 .. Len(depQ) /\ depQ'[n] = depQ[n])
      BY <3>1, <3>2
    <3>4. Asked(x.src, x.dests)
      BY <2>1, <3>1 DEF NeedInv, EventsSound
    <3>5. QED
      BY <2>1, <3>2, <3>3, <3>4 DEF Asked
  <2>4. EventsSound'
    BY <2>1, <2>2, <2>3 DEF NeedInv, EventsSound, Asked
  <2>5. QED
    BY <2>1, <2>4, NeedGrows
<1>3. ASSUME NEW i \in Identities, NEW c \in Clusters, Deploy(i, c)
      PROVE  EventsSound' /\ CachesSound' /\ TasksSound' /\ EntriesSound'
  <2>1. /\ home' = [home EXCEPT ![i] = @ \cup {c}] /\ workQ' = workQ \cup {[src |-> i, at |-> c]}
        /\ UNCHANGED <<wanted, jobs, entries, depQ, jobQ, depCache, identityDependency,
                       identityCluster, cnameDependents, tasks, asked>>
    BY <1>3 DEF Deploy, caches, history
  <2>2. /\ \A j \in Identities : home[j] \subseteq home'[j] /\ c \in home'[i]
    BY <2>1 DEF NeedInv, TypeInv, TypeOK
  <2>3. \A e \in workQ' : e.at \in home'[e.src]
    <3>1. \A e \in workQ : e.src \in Identities /\ e.at \in home[e.src]
      BY DEF NeedInv, TypeInv, TypeOK, AllWork, EventsSound
    <3>2. QED
      BY <2>1, <2>2, <3>1
  <2>4. EventsSound'
    BY <2>1, <2>3 DEF NeedInv, EventsSound, Asked
  <2>5. QED
    BY <2>1, <2>2, <2>4, NeedGrows
<1>4. ASSUME NEW s \in Clients, NEW c \in Clusters, StartJob(s, c)
      PROVE  EventsSound' /\ CachesSound' /\ TasksSound' /\ EntriesSound'
  <2>1. /\ jobs' = jobs \cup {<<s, c>>}
        /\ jobQ' = Append(jobQ, [src |-> s, at |-> c, tries |-> 0])
        /\ UNCHANGED <<wanted, home, entries, depQ, workQ, depCache, identityDependency,
                       identityCluster, cnameDependents, tasks, asked>>
    BY <1>4 DEF StartJob, caches, history
  <2>2. \A n \in 1 .. Len(jobQ') : <<jobQ'[n].src, jobQ'[n].at>> \in jobs'
    <3>1. PICK x \in JobItem : x.src = s /\ x.at = c /\ jobQ' = Append(jobQ, x)
      BY <2>1 DEF JobItem
    <3>2. jobQ \in Seq(JobItem) /\ \A n \in 1 .. Len(jobQ) : <<jobQ[n].src, jobQ[n].at>> \in jobs
      BY DEF NeedInv, TypeInv, TypeOK, EventsSound
    <3>3. \A n \in 1 .. Len(jobQ') : jobQ'[n] = x \/ (n \in 1 .. Len(jobQ) /\ jobQ'[n] = jobQ[n])
      BY <3>1, <3>2
    <3>4. QED
      BY <2>1, <3>1, <3>2, <3>3
  <2>3. EventsSound'
    BY <2>1, <2>2 DEF NeedInv, EventsSound, Asked
  <2>4. jobs \subseteq jobs'
    BY <2>1
  <2>5. QED
    BY <2>1, <2>3, <2>4, NeedGrows
<1>5. CASE Restart
  <2>1. Boot(home, wanted, jobs) /\ UNCHANGED <<wanted, home, jobs, entries, asked>>
    BY <1>5 DEF Restart, world, history
  <2>2. /\ \A n \in 1 .. Len(depQ') :
              \E s \in Clients : /\ wanted[s] # Absent /\ depQ'[n].src = s
                                 /\ depQ'[n].dests = wanted[s].dests
        /\ \A n \in 1 .. Len(jobQ') : <<jobQ'[n].src, jobQ'[n].at>> \in jobs
    BY <2>1, BootQueues DEF NeedInv
  <2>3. EventsSound'
    <3>1. \A n \in 1 .. Len(depQ') : Asked(depQ[n].src, depQ[n].dests)'
      BY <2>1, <2>2 DEF NeedInv, EventsSound, Asked
    <3>2. \A e \in workQ' : e.at \in home[e.src]
      BY <2>1 DEF Boot
    <3>3. QED
      BY <2>1, <2>2, <3>1, <3>2 DEF NeedInv, EventsSound, Asked
  <2>4. /\ \A s \in Clients : depCache'[s] = Absent /\ \A d \in Servers : identityDependency'[d] = {}
        /\ \A i \in Identities : identityCluster'[i] = {}
        /\ \A d \in Servers : cnameDependents'[d] = {}
        /\ \A w \in Workers : tasks'[w] = Idle
    BY <2>1 DEF Boot
  <2>5. CachesSound' /\ TasksSound'
    BY <2>4 DEF CachesSound, TasksSound
  <2>6. EntriesSound'
    BY <2>1 DEF NeedInv, EntriesSound, Needed, Runs
  <2>7. QED
    BY <2>3, <2>5, <2>6
<1>6. CASE WarmedUp
  <2>1. UNCHANGED <<wanted, home, jobs, entries, depQ, jobQ, workQ, depCache, identityDependency,
                    identityCluster, cnameDependents, tasks, asked>>
    BY <1>6 DEF WarmedUp, world, queues, caches, history
  <2>2. EventsSound'
    BY <2>1 DEF NeedInv, EventsSound, Asked
  <2>3. QED
    BY <2>1, <2>2, NeedGrows
<1>7. QED
  BY <1>1, <1>2, <1>3, <1>4, <1>5, <1>6 DEF Environment

LEMMA NeedInit == Init => NeedInv
<1> SUFFICES ASSUME Init
             PROVE  NeedInv
  OBVIOUS
<1>1. TypeInv
  BY TypeInit
<1>2. /\ wanted = [s \in Clients |-> Absent] /\ depCache = [s \in Clients |-> Absent]
      /\ Len(depQ) = 0 /\ Len(jobQ) = 0 /\ entries = {}
      /\ identityDependency = [d \in Servers |-> {}] /\ identityCluster = [i \in Identities |-> {}]
      /\ cnameDependents = [d \in Servers |-> {}] /\ tasks = [w \in Workers |-> Idle]
      /\ \A e \in workQ : e.at \in home[e.src]
  BY DEF Init
<1>3. QED
  BY <1>1, <1>2 DEF NeedInv, EventsSound, CachesSound, TasksSound, EntriesSound

LEMMA NeedStep == NeedInv /\ [Next]_vars => NeedInv'
<1> SUFFICES ASSUME NeedInv, [Next]_vars
             PROVE  NeedInv'
  OBVIOUS
<1>1. TypeInv'
  BY TypeStep DEF NeedInv
<1>2. CASE DropDependency
  <2>1. /\ depQ # << >> /\ depQ' = Tail(depQ)
        /\ UNCHANGED <<wanted, home, jobs, entries, workQ, jobQ, depCache, identityDependency,
                       identityCluster, cnameDependents, tasks, asked>>
    BY <1>2 DEF DropDependency, world, caches
  <2>2. \A n \in 1 .. Len(depQ') : n + 1 \in 1 .. Len(depQ) /\ depQ'[n] = depQ[n + 1]
    BY <2>1 DEF NeedInv, TypeInv, TypeOK
  <2>3. EventsSound'
    BY <2>1, <2>2 DEF NeedInv, EventsSound, Asked
  <2>4. QED
    BY <1>1, <2>1, <2>3, NeedGrows DEF NeedInv
<1>3. ASSUME NEW w \in Workers, Step(w)
      PROVE  NeedInv'
  BY <1>1, <1>2, <1>3, NeedTakeDependency, NeedTakeJob, NeedWorkload, NeedRun, NeedEnd
     DEF Step, NeedInv
<1>4. CASE UNCHANGED vars
  <2>1. UNCHANGED <<wanted, home, jobs, entries, depQ, jobQ, workQ, depCache, identityDependency,
                    identityCluster, cnameDependents, tasks, asked>>
    BY <1>4 DEF vars, world, queues, caches, history
  <2>2. EventsSound'
    BY <2>1 DEF NeedInv, EventsSound, Asked
  <2>3. QED
    BY <1>1, <2>1, <2>2, NeedGrows DEF NeedInv
<1>5. QED
  BY <1>1, <1>3, <1>4, NeedEnvironment DEF Next, NeedInv

\* However the events of dependencies, workloads and jobs are ordered and
\* repeated, whatever fails and however often Admiral restarts, a cluster has
\* the entries of a server only if the server runs there or a client does that
\* has asked for it.
THEOREM OnlyNeeded == Spec => []OnlyWhereNeeded
<1>1. NeedInv => OnlyWhereNeeded
  BY DEF NeedInv, EntriesSound, Needed, Runs, OnlyWhereNeeded
<1>2. QED
  BY <1>1, NeedInit, NeedStep, PTL DEF Spec

-----------------------------------------------------------------------------
(* What the clients' cache of served servers claims                        *)

\* The cache that spares clients a run holds no server whose entries are not
\* there, unless entries were left out without an error
ServedIsWritten == \A p \in served : <<p[1], p[3]>> \in entries

ServedInv == TypeInv /\ (~dropped => ServedIsWritten)

LEMMA ServedStep == ServedInv /\ [Next]_vars => ServedInv'
<1> SUFFICES ASSUME ServedInv, [Next]_vars
             PROVE  ServedInv'
  OBVIOUS
<1>1. TypeInv'
  BY TypeStep DEF ServedInv
<1> SUFFICES ASSUME ~dropped'
             PROVE  ServedIsWritten'
  BY <1>1 DEF ServedInv
<1>2. ASSUME NEW w \in Workers, Write(w)
      PROVE  ServedIsWritten'
  <2> DEFINE d == tasks[w].now
  <2>1. PICK c \in tasks[w].left : /\ entries' = entries \cup {<<c, d>>}
                                   /\ served' = served \cup Serve(c, d)
    BY <1>2 DEF Write
  <2>2. UNCHANGED dropped
    BY <1>2 DEF Write, history
  <2> HIDE DEF d
  <2>3. \A p \in Serve(c, d) : p[1] = c /\ p[3] = d
    BY DEF Serve
  <2>4. QED
    BY <2>1, <2>2, <2>3 DEF ServedInv, ServedIsWritten
<1>3. ASSUME Restart
      PROVE  ServedIsWritten'
  BY <1>3 DEF Restart, Boot, ServedIsWritten
<1>4. ASSUME UNCHANGED <<entries, served>>, dropped => dropped'
      PROVE  ServedIsWritten'
  BY <1>4 DEF ServedInv, ServedIsWritten
<1>5. ASSUME NEW w \in Workers, Step(w)
      PROVE  Write(w) \/ (UNCHANGED <<entries, served>> /\ (dropped => dropped'))
  <2>1. CASE End(w)
    BY <1>5, <2>1 DEF End, caches, Workers
  <2>2. CASE WriteSkipped(w)
    BY <2>2 DEF WriteSkipped
  <2>3. QED
    BY <1>5, <2>1, <2>2
       DEF Step, TakeDependency, DropDependency, TakeJob, RegisterWorkload, TakeWorkload,
           Process, Put, NextServer, NoMoreServers, WriteFails, caches, history
<1>6. Environment \/ WarmedUp => Restart \/ UNCHANGED <<entries, served, dropped>>
  BY DEF Environment, WarmedUp, Ask, Withdraw, Deploy, StartJob, caches, history
<1>7. UNCHANGED vars => UNCHANGED <<entries, served, dropped>>
  BY DEF vars, caches, history
<1>8. QED
  BY <1>2, <1>3, <1>4, <1>5, <1>6, <1>7 DEF Next

-----------------------------------------------------------------------------
(***************************************************************************)
(* Once all events are handled, the clients have what they need.  The      *)
(* argument follows what is missing: for each client in each cluster, each *)
(* server it depends on is there, or an event that is queued or being      *)
(* handled is going to write it.  Which event that is depends on what came *)
(* last, so that the queue of Dependency events, their cache and the       *)
(* recorded destinations have to be tied together.                         *)
(***************************************************************************)

\* Every Dependency names a destination: the handler does not record an empty list
NonEmpty == {} \notin Requests

\* An event of client s that has not been tried yet, and one to be repeated
Fresh(i, s)    == depQ[i].tries = 0 /\ depQ[i].src = s
Repeated(i, s) == depQ[i].tries > 0 /\ depQ[i].src = s

RecordOk(r) == r # Absent => r.rev <= clock /\ r.dests # {}

\* Nothing that has been heard of is newer than the world, or empty
RevsBounded ==
    /\ \A s \in Clients : RecordOk(wanted[s]) /\ RecordOk(depCache[s])
    /\ \A i \in DOMAIN depQ : /\ RecordOk(depQ[i])
                              /\ depQ[i].tries > 0 => depQ[i].type # "Delete"

\* What a task has that is at work for a worker
Formed(w, t) ==
    /\ w = "dependency" => t.dep = t.item
    /\ w = "job" => t.dep.src = t.item.src /\ t.dep.type = "Add"
    /\ IF w = "workload" THEN t.dep = Absent /\ t.over = {}
       ELSE t.dep # Absent /\ t.dep.type # "Delete" /\ RecordOk(t.dep)
    /\ t.pc \in {"process", "put"} => ~t.err

TasksFormed == \A w \in Workers : tasks[w] # Idle => Formed(w, tasks[w])

JobQueued(s, c) == \E i \in DOMAIN jobQ : jobQ[i].src = s /\ jobQ[i].at = c

\* An event of a server is queued
Announced(d) == \E e \in workQ : e.src = d

\* What the world holds is known or queued
WorldHeard ==
    /\ \A i \in Identities : \A c \in home[i] :
          [src |-> i, at |-> c] \in workQ \/ c \in identityCluster[i]
    /\ \A s \in Clients, c \in Clusters :
          <<s, c>> \in jobs => c \in identityCluster[s] \/ JobQueued(s, c)
    /\ \A e \in workCache : e.at \in identityCluster[e.src]
    /\ \A s \in Clients : depCache[s] # Absent =>
          \A d \in depCache[s].dests : s \in identityDependency[d]
    /\ phase = "warm" => \A d \in Servers : identityCluster[d] # {} => Announced(d)

HeardInv == ServedInv /\ RevsBounded /\ TasksFormed /\ WorldHeard

\* One event at a time
Alone == \A u, w \in Workers : tasks[u] # Idle /\ tasks[w] # Idle => u = w

\* The cache holds what an event says
Holds(item) == /\ depCache[item.src] # Absent /\ depCache[item.src].dests = item.dests
               /\ depCache[item.src].rev = item.rev

TasksHold == \A w \in Workers \ {"workload"} : tasks[w] # Idle => Holds(tasks[w].dep)

\* An event says what is wanted
Says(item) == IF wanted[item.src] = Absent THEN item.type = "Delete"
              ELSE /\ item.type # "Delete" /\ item.dests = wanted[item.src].dests
                   /\ item.rev = wanted[item.src].rev

\* The last event of a client says what is wanted; without one the cache does
LastIsWanted ==
    \A s \in Clients :
       /\ \A i \in DOMAIN depQ :
             Fresh(i, s) /\ (\A j \in DOMAIN depQ : j > i => ~Fresh(j, s)) => Says(depQ[i])
       /\ (\A i \in DOMAIN depQ : ~Fresh(i, s)) => depCache[s] = wanted[s]

\* An event that says what is wanted is not followed by another
LatestIsLast ==
    /\ \A i, j \in DOMAIN depQ :
          depQ[i].type # "Delete" /\ IsLatest(depQ[i]) /\ Fresh(j, depQ[i].src) =>
             depQ[i].tries = 0 /\ j <= i
    /\ tasks["dependency"] # Idle /\ IsLatest(tasks["dependency"].item) =>
          \A j \in DOMAIN depQ : ~Fresh(j, tasks["dependency"].item.src)

\* A failed event that says what is wanted is what the cache holds
RepeatedIsCached ==
    \A i \in DOMAIN depQ : depQ[i].tries > 0 /\ IsLatest(depQ[i]) => Holds(depQ[i])

\* An update changes something that is in the cache
UpdateFollows ==
    \A s \in Clients : \A i \in DOMAIN depQ : Fresh(i, s) /\ depQ[i].type = "Update" =>
       /\ \A j \in DOMAIN depQ : j < i /\ Fresh(j, s) /\ depQ[j].type = "Delete" =>
             \E k \in DOMAIN depQ : j < k /\ k < i /\ Fresh(k, s)
       /\ (\A j \in DOMAIN depQ : j < i => ~Fresh(j, s)) => depCache[s] # Absent

QueueInv == LastIsWanted /\ LatestIsLast /\ RepeatedIsCached /\ UpdateFollows

\* The event of client s at work will record its destinations, or come again
Redoes(s) ==
    LET t == tasks["dependency"] IN
    t # Idle /\ t.item.src = s /\ (t.pc # "end" \/ t.err)

\* The recorded destinations are those of the cache, or the event comes again
RecordFollows ==
    \A s \in Clients : depCache[s] # Absent =>
       \/ sourceToDestinations[s] = depCache[s].dests
       \/ \E i \in DOMAIN depQ : Repeated(i, s)
       \/ Redoes(s)

\* Client s is in cluster c, server d is known, and there is no entry of it
Missing(s, c, d) == /\ c \in identityCluster[s] /\ identityCluster[d] # {}
                    /\ <<c, d>> \notin entries

\* A task is going to write the entry, or has failed to write one
Writing(t, c, d) ==
    \/ t.err
    \/ t.pc \in {"loop", "write"} /\ d \in t.todo
    \/ t.pc = "write" /\ t.now = d /\ c \in t.left

\* The destinations that a task for a Dependency has to serve
Serves(t, d) ==
    /\ d \in t.dep.dests
    /\ t.dep.type = "Add" \/ d \notin sourceToDestinations[t.dep.src]

\* It is up to a task, or to the event it goes back to, to write the entry
Owns(w, t, s, c, d) ==
    /\ w = "dependency" => t.item.src = s /\ Serves(t, d)
    /\ w = "job" => /\ t.item.src = s /\ t.item.at = c
                    /\ [src |-> s, at |-> c] \notin workCache
    /\ w = "workload" => \/ t.item.src = d
                         \/ t.item = [src |-> s, at |-> c] /\ d \in sourceToDestinations[s]

Underway(s, c, d) ==
    \E w \in Workers :
       /\ tasks[w] # Idle /\ Owns(w, tasks[w], s, c, d)
       /\ tasks[w].pc = "process" \/ Writing(tasks[w], c, d)

\* The repetition of a failed event serves the destination, unless it is outdated
Repeats(s, d) ==
    \E i \in DOMAIN depQ :
       /\ Repeated(i, s)
       /\ depQ[i].type = "Add" \/ d \notin sourceToDestinations[s] \/ ~IsLatest(depQ[i])

\* An event that is queued will have the entry written
ToCome(s, c, d) ==
    \/ Announced(d)
    \/ [src |-> s, at |-> c] \in workQ
    \/ [src |-> s, at |-> c] \notin workCache /\ JobQueued(s, c)
    \/ Repeats(s, d)

MissingIsServed ==
    \A s \in Clients : depCache[s] # Absent =>
       \A c \in Clusters, d \in depCache[s].dests :
          Missing(s, c, d) => ToCome(s, c, d) \/ Underway(s, c, d)

\* A task that is to record the destinations has served them, or is about to
TasksServe ==
    \A w \in Workers \ {"workload"} :
       tasks[w] # Idle /\ tasks[w].pc \in {"loop", "write", "put"} =>
         \A c \in Clusters, d \in Servers :
            Serves(tasks[w], d) /\ Missing(tasks[w].dep.src, c, d) =>
               Announced(d) \/ Writing(tasks[w], c, d)

\* A task for a Dependency writes to all clusters of the client
OverAll ==
    \A w \in Workers \ {"workload"} :
       tasks[w] # Idle /\ tasks[w].pc \in {"loop", "write"} =>
         /\ tasks[w].over = identityCluster[tasks[w].dep.src] /\ tasks[w].over # {}
         /\ phase = "ready"

Covering == /\ Alone /\ TasksHold /\ QueueInv /\ RecordFollows /\ MissingIsServed
            /\ TasksServe /\ OverAll

CoverInv == HeardInv /\ (ClientInitiated /\ Undisturbed => Covering)

LEMMA CoveredAtRest == CoverInv => SettledCovered
<1> SUFFICES ASSUME CoverInv, ClientInitiated, Quiet, Undisturbed
             PROVE  Covered
  BY DEF SettledCovered
<1> SUFFICES ASSUME NEW s \in Clients, wanted[s] # Absent, NEW d \in wanted[s].dests, home[d] # {},
                    NEW c \in home[s] \cup {p[2] : p \in {q \in jobs : q[1] = s}}
             PROVE  <<c, d>> \in entries
  BY DEF Covered
<1>1. /\ LastIsWanted /\ MissingIsServed /\ WorldHeard /\ TypeInv
      /\ depQ = << >> /\ jobQ = << >> /\ workQ = {} /\ \A w \in Workers : tasks[w] = Idle
  BY DEF CoverInv, Covering, QueueInv, HeardInv, ServedInv, Quiet
<1>2. DOMAIN depQ = {} /\ DOMAIN jobQ = {}
  BY <1>1
<1>3. depCache[s] = wanted[s]
  BY <1>1, <1>2 DEF LastIsWanted
<1>4. wanted[s] \in Record /\ d \in Servers /\ s \in Identities /\ d \in Identities
  BY <1>1 DEF TypeInv, TypeOK, Record, Identities
<1>5. c \in identityCluster[s] /\ c \in Clusters
  <2>1. CASE c \in home[s]
    BY <1>1, <1>4, <2>1 DEF WorldHeard, TypeInv, TypeOK
  <2>2. CASE c \in {p[2] : p \in {q \in jobs : q[1] = s}}
    <3>1. PICK p \in jobs : p[1] = s /\ p[2] = c
      BY <2>2
    <3>2. p \in Clients \X Clusters
      BY <1>1 DEF TypeInv, TypeOK
    <3>3. <<s, c>> \in jobs /\ c \in Clusters
      BY <3>1, <3>2
    <3>4. QED
      BY <1>1, <1>2, <3>3 DEF WorldHeard, JobQueued
  <2>3. QED
    BY <2>1, <2>2
<1>6. identityCluster[d] # {}
  BY <1>1, <1>4 DEF WorldHeard
<1>7. ~ToCome(s, c, d) /\ ~Underway(s, c, d)
  BY <1>1, <1>2 DEF ToCome, Underway, Announced, JobQueued, Repeats
<1>8. QED
  BY <1>1, <1>3, <1>5, <1>6, <1>7 DEF MissingIsServed, Missing
-----------------------------------------------------------------------------
(* What the steps of a task do                                             *)

Aside == <<wanted, home, jobs, clock, phase, depQ, workQ, jobQ, depCache, workCache,
           identityDependency, identityCluster>>

\* Worker w goes on with its event, and the others wait
Goes(w) ==
    /\ UNCHANGED Aside /\ \A u \in Workers \ {w} : tasks'[u] = tasks[u]
    /\ tasks[w] # Idle /\ tasks'[w] # Idle
    /\ tasks'[w].item = tasks[w].item /\ tasks'[w].dep = tasks[w].dep

LEMMA BusyDomain ==
    ASSUME TypeInv, NEW w \in Workers,
           tasks[w].pc \in {"process", "loop", "write", "put", "end"}
    PROVE  /\ tasks \in [Workers -> Tasks] /\ tasks[w] \in Task /\ tasks[w] # Idle
           /\ DOMAIN tasks[w] = {"pc", "item", "dep", "todo", "over", "now", "left", "err"}
<1>1. tasks \in [Workers -> Tasks] /\ tasks[w] \in Task /\ tasks[w] # Idle
  BY BusyType DEF TypeInv, TypeOK, Tasks
<1>2. QED
  BY <1>1 DEF Task

LEMMA ProcessFacts ==
    ASSUME TypeInv, NEW w \in Workers, Process(w)
    PROVE  /\ tasks[w].pc = "process" /\ Goes(w)
           /\ UNCHANGED <<entries, sourceToDestinations>>
           /\ tasks'[w].err = tasks[w].err
           /\ LET dep == tasks[w].dep IN
              \/ /\ tasks'[w].pc = "put" /\ tasks'[w].over = tasks[w].over
                 /\ skipped' = (skipped \/ Unserved(dep.dests, identityCluster[dep.src]))
              \/ /\ tasks'[w].pc = "loop" /\ phase = "ready"
                 /\ identityCluster[dep.src] # {} /\ tasks'[w].over = identityCluster[dep.src]
                 /\ tasks'[w].todo = {d \in Destinations(dep) : identityCluster[d] # {}}
<1> DEFINE dep == tasks[w].dep
           clusters == identityCluster[dep.src]
           todo == {d \in Destinations(dep) : identityCluster[d] # {}}
<1>1. /\ tasks[w].pc = "process" /\ UNCHANGED Aside /\ UNCHANGED <<entries, sourceToDestinations>>
  BY DEF Process, Aside, world, queues, caches
<1>2. /\ tasks \in [Workers -> Tasks] /\ tasks[w] \in Task /\ tasks[w] # Idle
      /\ DOMAIN tasks[w] = {"pc", "item", "dep", "todo", "over", "now", "left", "err"}
  BY <1>1, BusyDomain
<1>3. CASE phase # "ready" \/ ~DependencyProcessing \/ clusters = {}
  <2> DEFINE t == [tasks[w] EXCEPT !.pc = "put"]
  <2>1. /\ tasks' = [tasks EXCEPT ![w].pc = "put"]
        /\ skipped' = (skipped \/ Unserved(dep.dests, clusters))
    BY <1>3 DEF Process
  <2>2. tasks' = [tasks EXCEPT ![w] = t]
    BY <1>2, <2>1
  <2>3. /\ t.pc = "put" /\ t.item = tasks[w].item /\ t.dep = tasks[w].dep /\ t.err = tasks[w].err
        /\ t.over = tasks[w].over
    BY <1>2
  <2> HIDE DEF t
  <2>4. tasks'[w] = t /\ \A u \in Workers \ {w} : tasks'[u] = tasks[u]
    BY <1>2, <2>2
  <2>5. QED
    BY <1>1, <1>2, <2>1, <2>3, <2>4 DEF Goes, Idle
<1>4. CASE ~(phase # "ready" \/ ~DependencyProcessing \/ clusters = {})
  <2> HIDE DEF todo, clusters
  <2> DEFINE t == [tasks[w] EXCEPT !.pc = "loop", !.over = clusters, !.todo = todo]
  <2>1. tasks' = [tasks EXCEPT ![w].pc = "loop", ![w].over = clusters, ![w].todo = todo]
    BY <1>4 DEF Process, todo, clusters
  <2>2. tasks' = [tasks EXCEPT ![w] = t]
    BY <1>2, <2>1
  <2>3. /\ t.pc = "loop" /\ t.item = tasks[w].item /\ t.dep = tasks[w].dep /\ t.err = tasks[w].err
        /\ t.over = clusters /\ t.todo = todo
    BY <1>2
  <2> HIDE DEF t
  <2>4. tasks'[w] = t /\ \A u \in Workers \ {w} : tasks'[u] = tasks[u]
    BY <1>2, <2>2
  <2>5. Goes(w)
    BY <1>1, <1>2, <2>3, <2>4 DEF Goes, Idle
  <2>6. QED
    BY <1>1, <1>4, <2>3, <2>4, <2>5 DEF todo, clusters
<1>5. QED
  BY <1>3, <1>4

LEMMA PutFacts ==
    ASSUME TypeInv, NEW w \in Workers, Put(w)
    PROVE  /\ tasks[w].pc = "put" /\ tasks'[w].pc = "end" /\ Goes(w)
           /\ UNCHANGED entries /\ tasks'[w].err = tasks[w].err /\ tasks'[w].over = tasks[w].over
           /\ tasks[w].dep.dests # {} =>
                sourceToDestinations' =
                  [sourceToDestinations EXCEPT ![tasks[w].dep.src] = tasks[w].dep.dests]
<1>1. /\ tasks[w].pc = "put" /\ UNCHANGED Aside /\ UNCHANGED entries
      /\ tasks' = [tasks EXCEPT ![w].pc = "end"]
      /\ tasks[w].dep.dests # {} =>
           sourceToDestinations' =
             [sourceToDestinations EXCEPT ![tasks[w].dep.src] = tasks[w].dep.dests]
  BY DEF Put, Aside, world, queues
<1>2. /\ tasks \in [Workers -> Tasks] /\ tasks[w] \in Task /\ tasks[w] # Idle
      /\ DOMAIN tasks[w] = {"pc", "item", "dep", "todo", "over", "now", "left", "err"}
  BY <1>1, BusyDomain
<1> DEFINE t == [tasks[w] EXCEPT !.pc = "end"]
<1>3. tasks' = [tasks EXCEPT ![w] = t]
  BY <1>1, <1>2
<1>4. /\ t.pc = "end" /\ t.item = tasks[w].item /\ t.dep = tasks[w].dep /\ t.err = tasks[w].err
      /\ t.over = tasks[w].over
  BY <1>2
<1> HIDE DEF t
<1>5. tasks'[w] = t /\ \A u \in Workers \ {w} : tasks'[u] = tasks[u]
  BY <1>2, <1>3
<1>6. QED
  BY <1>1, <1>2, <1>4, <1>5 DEF Goes, Idle

LEMMA NextServerFacts ==
    ASSUME TypeInv, NEW w \in Workers, NextServer(w)
    PROVE  /\ tasks[w].pc = "loop" /\ tasks'[w].pc = "write" /\ Goes(w)
           /\ UNCHANGED <<entries, sourceToDestinations>>
           /\ tasks'[w].err = tasks[w].err /\ tasks'[w].over = tasks[w].over
           /\ \E d \in tasks[w].todo : /\ tasks'[w].todo = tasks[w].todo \ {d} /\ tasks'[w].now = d
                                       /\ tasks'[w].left = Targets(d, tasks[w].over)
<1>1. /\ tasks[w].pc = "loop" /\ UNCHANGED Aside /\ UNCHANGED <<entries, sourceToDestinations>>
  BY DEF NextServer, Aside, world, queues
<1>2. /\ tasks \in [Workers -> Tasks] /\ tasks[w] \in Task /\ tasks[w] # Idle
      /\ DOMAIN tasks[w] = {"pc", "item", "dep", "todo", "over", "now", "left", "err"}
  BY <1>1, BusyDomain
<1>3. PICK d \in tasks[w].todo :
         tasks' = [tasks EXCEPT ![w].pc = "write", ![w].todo = @ \ {d}, ![w].now = d,
                                ![w].left = Targets(d, tasks[w].over)]
  BY DEF NextServer
<1> DEFINE t == [tasks[w] EXCEPT !.pc = "write", !.todo = @ \ {d}, !.now = d,
                                 !.left = Targets(d, tasks[w].over)]
<1>4. tasks' = [tasks EXCEPT ![w] = t]
  BY <1>2, <1>3
<1>5. /\ t.pc = "write" /\ t.item = tasks[w].item /\ t.dep = tasks[w].dep /\ t.err = tasks[w].err
      /\ t.over = tasks[w].over /\ t.todo = tasks[w].todo \ {d} /\ t.now = d
      /\ t.left = Targets(d, tasks[w].over)
  BY <1>2
<1> HIDE DEF t
<1>6. tasks'[w] = t /\ \A u \in Workers \ {w} : tasks'[u] = tasks[u]
  BY <1>2, <1>4
<1>7. Goes(w)
  BY <1>1, <1>2, <1>5, <1>6 DEF Goes, Idle
<1>8. QED
  BY <1>1, <1>5, <1>6, <1>7

LEMMA NoMoreFacts ==
    ASSUME TypeInv, NEW w \in Workers, NoMoreServers(w)
    PROVE  /\ tasks[w].pc = "loop" /\ tasks[w].todo = {} /\ Goes(w)
           /\ UNCHANGED <<entries, sourceToDestinations>>
           /\ tasks'[w].err = tasks[w].err /\ tasks'[w].over = tasks[w].over
           /\ \/ tasks'[w].pc = "end" /\ (tasks[w].dep = Absent \/ tasks[w].err)
              \/ tasks'[w].pc = "put" /\ tasks[w].dep # Absent /\ ~tasks[w].err
<1>1. /\ tasks[w].pc = "loop" /\ tasks[w].todo = {}
      /\ UNCHANGED Aside /\ UNCHANGED <<entries, sourceToDestinations>>
  BY DEF NoMoreServers, Aside, world, queues, caches
<1>2. /\ tasks \in [Workers -> Tasks] /\ tasks[w] \in Task /\ tasks[w] # Idle
      /\ DOMAIN tasks[w] = {"pc", "item", "dep", "todo", "over", "now", "left", "err"}
  BY <1>1, BusyDomain
<1>3. PICK pc \in {"end", "put"} : /\ tasks' = [tasks EXCEPT ![w].pc = pc]
                                   /\ pc = "end" => tasks[w].dep = Absent \/ tasks[w].err
                                   /\ pc = "put" => tasks[w].dep # Absent /\ ~tasks[w].err
  BY DEF NoMoreServers
<1> DEFINE t == [tasks[w] EXCEPT !.pc = pc]
<1>4. tasks' = [tasks EXCEPT ![w] = t]
  BY <1>2, <1>3
<1>5. /\ t.pc = pc /\ t.item = tasks[w].item /\ t.dep = tasks[w].dep /\ t.err = tasks[w].err
      /\ t.over = tasks[w].over
  BY <1>2
<1> HIDE DEF t
<1>6. tasks'[w] = t /\ \A u \in Workers \ {w} : tasks'[u] = tasks[u]
  BY <1>2, <1>4
<1>7. Goes(w)
  BY <1>1, <1>2, <1>5, <1>6 DEF Goes, Idle
<1>8. QED
  BY <1>1, <1>3, <1>5, <1>6, <1>7

LEMMA WriteFacts ==
    ASSUME TypeInv, NEW w \in Workers, Write(w) \/ WriteFails(w) \/ WriteSkipped(w)
    PROVE  /\ tasks[w].pc = "write" /\ Goes(w) /\ UNCHANGED sourceToDestinations
           /\ tasks'[w].over = tasks[w].over /\ tasks'[w].todo = tasks[w].todo
           /\ tasks'[w].now = tasks[w].now
           /\ \E c \in tasks[w].left :
                /\ tasks'[w].left = tasks[w].left \ {c}
                /\ \/ tasks'[w].pc = "loop" /\ tasks[w].left = {c}
                   \/ tasks'[w].pc = "write" /\ tasks[w].left # {c}
                /\ \/ /\ entries' = entries \cup {<<c, tasks[w].now>>}
                      /\ tasks'[w].err = tasks[w].err
                   \/ UNCHANGED entries /\ tasks'[w].err = TRUE
                   \/ dropped' /\ UNCHANGED entries
<1>1. tasks[w].pc = "write" /\ UNCHANGED Aside /\ UNCHANGED sourceToDestinations
  BY DEF Write, WriteFails, WriteSkipped, Aside, world, queues, caches
<1>2. /\ tasks \in [Workers -> Tasks] /\ tasks[w] \in Task /\ tasks[w] # Idle
      /\ DOMAIN tasks[w] = {"pc", "item", "dep", "todo", "over", "now", "left", "err"}
      /\ tasks[w].err \in BOOLEAN
  BY <1>1, BusyDomain, BusyType
<1>3. PICK c \in tasks[w].left, err \in BOOLEAN :
         /\ Wrote(w, c, err)
         /\ \/ entries' = entries \cup {<<c, tasks[w].now>>} /\ err = FALSE
            \/ UNCHANGED entries /\ err = TRUE
            \/ dropped' /\ UNCHANGED entries
  BY DEF Write, WriteFails, WriteSkipped
<1>4. PICK pc \in {"loop", "write"} :
         /\ tasks' = [tasks EXCEPT ![w].left = @ \ {c}, ![w].err = @ \/ err, ![w].pc = pc]
         /\ pc = "loop" <=> tasks[w].left = {c}
  BY <1>3 DEF Wrote
<1> DEFINE t == [tasks[w] EXCEPT !.left = @ \ {c}, !.err = @ \/ err, !.pc = pc]
<1>5. tasks' = [tasks EXCEPT ![w] = t]
  BY <1>2, <1>4
<1>6. /\ t.pc = pc /\ t.item = tasks[w].item /\ t.dep = tasks[w].dep
      /\ t.err = (tasks[w].err \/ err) /\ t.over = tasks[w].over /\ t.todo = tasks[w].todo
      /\ t.now = tasks[w].now /\ t.left = tasks[w].left \ {c}
  BY <1>2
<1> HIDE DEF t
<1>7. tasks'[w] = t /\ \A u \in Workers \ {w} : tasks'[u] = tasks[u]
  BY <1>2, <1>5
<1>8. Goes(w)
  BY <1>1, <1>2, <1>4, <1>6, <1>7 DEF Goes, Idle
<1>9. /\ err = FALSE => t.err = tasks[w].err
      /\ err = TRUE => t.err = TRUE
  BY <1>2, <1>6
<1>10. QED
  BY <1>1, <1>3, <1>4, <1>6, <1>7, <1>8, <1>9

RunStep(w) ==
    \/ Process(w) \/ NextServer(w) \/ NoMoreServers(w)
    \/ Write(w) \/ WriteFails(w) \/ WriteSkipped(w)

LEMMA RunFacts ==
    ASSUME TypeInv, TasksFormed, NEW w \in Workers, RunStep(w) \/ Put(w)
    PROVE  /\ Goes(w) /\ tasks'[w].pc # "process"
           /\ tasks'[w].pc = "put" => ~tasks'[w].err
           /\ w = "workload" => tasks'[w].over = tasks[w].over
           /\ entries \subseteq entries'
           /\ RunStep(w) => UNCHANGED sourceToDestinations
<1>1. tasks[w] # Idle => Formed(w, tasks[w])
  BY DEF TasksFormed
<1>2. CASE Process(w)
  <2>1. Goes(w) /\ tasks[w].pc = "process" /\ w # "workload"
    BY <1>1, <1>2, ProcessFacts, BusyType DEF Goes, Formed, Shape
  <2>2. ~tasks[w].err
    BY <1>1, <2>1 DEF Goes, Formed
  <2>3. QED
    BY <1>2, <2>1, <2>2, ProcessFacts
<1>3. CASE Put(w)
  BY <1>3, PutFacts DEF RunStep, Process, NextServer, NoMoreServers, Write, WriteFails, WriteSkipped
<1>4. CASE NextServer(w)
  BY <1>4, NextServerFacts
<1>5. CASE NoMoreServers(w)
  BY <1>5, NoMoreFacts
<1>6. CASE Write(w) \/ WriteFails(w) \/ WriteSkipped(w)
  <2>1. PICK c \in tasks[w].left : UNCHANGED entries \/ entries' = entries \cup {<<c, tasks[w].now>>}
    BY <1>6, WriteFacts
  <2>2. entries \subseteq entries'
    BY <2>1
  <2>3. tasks'[w].pc \in {"loop", "write"}
    BY <1>6, WriteFacts
  <2>4. QED
    BY <1>6, <2>2, <2>3, WriteFacts
<1>7. QED
  BY <1>2, <1>3, <1>4, <1>5, <1>6 DEF RunStep

LEMMA GoesHeard ==
    ASSUME RevsBounded, TasksFormed, WorldHeard, NEW w \in Workers, Goes(w),
           tasks'[w].pc # "process", tasks'[w].pc = "put" => ~tasks'[w].err,
           w = "workload" => tasks'[w].over = tasks[w].over
    PROVE  RevsBounded' /\ TasksFormed' /\ WorldHeard'
<1>1. UNCHANGED Aside /\ tasks[w] # Idle /\ Formed(w, tasks[w])
  BY DEF Goes, TasksFormed
<1>2. RevsBounded'
  BY <1>1 DEF RevsBounded, RecordOk, Aside
<1>3. TasksFormed'
  <2>1. Formed(w, tasks[w])'
    BY <1>1 DEF Goes, Formed, RecordOk, Aside
  <2>2. \A u \in Workers \ {w} : tasks[u] # Idle => Formed(u, tasks[u])'
    BY <1>1 DEF Goes, Formed, RecordOk, TasksFormed, Aside
  <2>3. QED
    BY <2>1, <2>2 DEF TasksFormed, Goes
<1>4. WorldHeard'
  BY <1>1 DEF WorldHeard, JobQueued, Announced, Aside
<1>5. QED
  BY <1>2, <1>3, <1>4

LEMMA QueueSame ==
    ASSUME UNCHANGED <<wanted, depQ, depCache>>, QueueInv,
           tasks'["dependency"] # Idle =>
              tasks["dependency"] # Idle /\ tasks'["dependency"].item = tasks["dependency"].item
    PROVE  QueueInv'
<1>1. /\ \A item : IsLatest(item)' <=> IsLatest(item)
      /\ \A item : Says(item)' <=> Says(item)
      /\ \A item : Holds(item)' <=> Holds(item)
      /\ \A i, s : Fresh(i, s)' <=> Fresh(i, s)
  BY DEF IsLatest, Says, Holds, Fresh
<1>2. LastIsWanted'
  BY <1>1 DEF QueueInv, LastIsWanted
<1>3. LatestIsLast'
  BY <1>1 DEF QueueInv, LatestIsLast
<1>4. RepeatedIsCached'
  BY <1>1 DEF QueueInv, RepeatedIsCached
<1>5. UpdateFollows'
  BY <1>1 DEF QueueInv, UpdateFollows
<1>6. QED
  BY <1>2, <1>3, <1>4, <1>5 DEF QueueInv

LEMMA GoesQueue ==
    ASSUME Alone, TasksHold, QueueInv, NEW w \in Workers, Goes(w)
    PROVE  Alone' /\ TasksHold' /\ QueueInv'
<1>1. Alone'
  BY DEF Alone, Goes
<1>2. TasksHold'
  BY DEF TasksHold, Goes, Holds, Aside
<1>3. QueueInv'
  <2>1. tasks'["dependency"] # Idle =>
           tasks["dependency"] # Idle /\ tasks'["dependency"].item = tasks["dependency"].item
    BY DEF Goes, Workers
  <2>2. QED
    BY <2>1, QueueSame DEF Goes, Aside
<1>4. QED
  BY <1>1, <1>2, <1>3

\* The task that is to write an entry for a client serves its Dependency
LEMMA OwnsServes ==
    ASSUME TasksFormed, TasksHold, NEW w \in Workers \ {"workload"}, tasks[w] # Idle,
           NEW s, NEW c, NEW d, Owns(w, tasks[w], s, c, d), d \in depCache[s].dests
    PROVE  tasks[w].dep.src = s /\ Serves(tasks[w], d)
<1>1. Formed(w, tasks[w]) /\ Holds(tasks[w].dep)
  BY DEF TasksFormed, TasksHold
<1>2. CASE w = "dependency"
  BY <1>1, <1>2 DEF Formed, Owns
<1>3. CASE w = "job"
  BY <1>1, <1>3 DEF Formed, Owns, Serves, Holds
<1>4. QED
  BY <1>2, <1>3 DEF Workers

\* A step of the only task at work that records nothing
LEMMA RunServes ==
    ASSUME TypeInv, TasksFormed, Alone, MissingIsServed, NEW w \in Workers, RunStep(w),
           \A s \in Clients, c \in Clusters, d \in Servers :
              /\ depCache[s] # Absent /\ d \in depCache[s].dests /\ Missing(s, c, d)'
              /\ Owns(w, tasks[w], s, c, d) /\ (tasks[w].pc = "process" \/ Writing(tasks[w], c, d))
              => Announced(d) \/ Writing(tasks'[w], c, d)
    PROVE  MissingIsServed'
<1>1. /\ Goes(w) /\ entries \subseteq entries' /\ UNCHANGED sourceToDestinations
  BY RunFacts
<1>2. UNCHANGED Aside
  BY <1>1 DEF Goes
<1> SUFFICES ASSUME NEW s \in Clients, depCache[s] # Absent, NEW c \in Clusters,
                    NEW d \in depCache[s].dests, Missing(s, c, d)'
             PROVE  ToCome(s, c, d)' \/ Underway(s, c, d)'
  BY <1>2 DEF MissingIsServed, Aside
<1>3. d \in Servers
  BY DEF TypeInv, TypeOK, Record
<1>4. Missing(s, c, d)
  BY <1>1, <1>2 DEF Missing, Aside
<1>5. ToCome(s, c, d) => ToCome(s, c, d)'
  BY <1>1, <1>2 DEF ToCome, Announced, JobQueued, Repeats, Repeated, IsLatest, Aside
<1>6. ASSUME NEW u \in Workers, tasks[u] # Idle, Owns(u, tasks[u], s, c, d),
             tasks[u].pc = "process" \/ Writing(tasks[u], c, d)
      PROVE  ToCome(s, c, d)' \/ Underway(s, c, d)'
  <2>1. u = w
    BY <1>1, <1>6 DEF Goes, Alone
  <2>2. Announced(d) \/ Writing(tasks'[w], c, d)
    BY <1>3, <1>6, <2>1
  <2>3. Owns(w, tasks[w], s, c, d)'
    BY <1>1, <1>2, <1>6, <2>1 DEF Owns, Serves, Goes, Aside
  <2>4. Announced(d) => ToCome(s, c, d)'
    BY <1>2 DEF ToCome, Announced, Aside
  <2>5. Writing(tasks'[w], c, d) => Writing(tasks[w], c, d)'
    BY DEF Writing
  <2>6. QED
    BY <1>1, <2>2, <2>3, <2>4, <2>5 DEF Underway, Goes
<1>7. QED
  BY <1>4, <1>5, <1>6 DEF MissingIsServed, Underway

\* Who is at work is the only one, so that nothing else changes
LEMMA OthersIdle ==
    ASSUME Alone, NEW w \in Workers, Goes(w)
    PROVE  \A u \in Workers \ {w} : tasks[u] = Idle /\ tasks'[u] = Idle
  BY DEF Alone, Goes

LEMMA ProcessCovers ==
    ASSUME HeardInv, Covering, NEW w \in Workers, Process(w), ~skipped'
    PROVE  RecordFollows' /\ MissingIsServed' /\ TasksServe' /\ OverAll'
<1>1. /\ TypeInv /\ TasksFormed /\ TasksHold /\ Alone /\ RecordFollows /\ MissingIsServed
      /\ tasks[w].pc = "process" /\ Goes(w) /\ UNCHANGED Aside
  BY ProcessFacts DEF HeardInv, ServedInv, Covering, Goes
<1>2. /\ UNCHANGED <<entries, sourceToDestinations>> /\ tasks'[w].err = tasks[w].err
      /\ Formed(w, tasks[w]) /\ tasks[w] # Idle /\ tasks'[w] # Idle /\ tasks'[w].dep = tasks[w].dep
      /\ \A u \in Workers \ {w} : tasks[u] = Idle /\ tasks'[u] = Idle
  BY <1>1, ProcessFacts, OthersIdle DEF TasksFormed, Goes
<1>3. w # "workload"
  BY <1>1, <1>2, BusyType DEF Formed, Shape
<1> DEFINE dep == tasks[w].dep
<1>4. \A d : Serves(tasks[w], d) <=> d \in Destinations(dep)
  <2>1. dep.type \in {"Add", "Update"}
    BY <1>1, <1>2, <1>3, BusyType DEF Formed, DepItem
  <2>2. QED
    BY <2>1 DEF Serves, Destinations
<1>5. \A d : Serves(tasks[w], d)' <=> Serves(tasks[w], d)
  BY <1>2 DEF Serves
<1>6. ASSUME NEW c \in Clusters, NEW d \in Servers, Serves(tasks[w], d), Missing(dep.src, c, d)
      PROVE  Announced(d) \/ Writing(tasks'[w], c, d)
  <2>1. CASE tasks'[w].pc = "loop"
    <3>1. d \in tasks'[w].todo
      BY <1>1, <1>4, <1>6, <2>1, ProcessFacts DEF Missing
    <3>2. QED
      BY <2>1, <3>1 DEF Writing
  <2>2. CASE tasks'[w].pc # "loop"
    <3>1. ~Unserved(dep.dests, identityCluster[dep.src])
      BY <1>1, <2>2, ProcessFacts
    <3>2. d \in dep.dests
      BY <1>6 DEF Serves
    <3>3. QED
      BY <1>6, <3>1, <3>2 DEF Unserved, Missing, Announced
  <2>3. QED
    BY <2>1, <2>2
<1>7. \A s, c, d : Missing(s, c, d)' <=> Missing(s, c, d)
  BY <1>1, <1>2 DEF Missing, Aside
<1>8. TasksServe'
  <2> SUFFICES ASSUME NEW c \in Clusters, NEW d \in Servers, Serves(tasks[w], d)',
                      Missing(dep.src, c, d)
               PROVE  Announced(d)' \/ Writing(tasks[w], c, d)'
    BY <1>2, <1>7 DEF TasksServe
  <2>1. Announced(d) \/ Writing(tasks'[w], c, d)
    BY <1>5, <1>6
  <2>2. Announced(d)' <=> Announced(d)
    BY <1>1 DEF Announced, Aside
  <2>3. Writing(tasks'[w], c, d) => Writing(tasks[w], c, d)'
    BY DEF Writing
  <2>4. QED
    BY <2>1, <2>2, <2>3
<1>9. MissingIsServed'
  <2>1. ASSUME NEW s \in Clients, NEW c \in Clusters, NEW d \in Servers, d \in depCache[s].dests,
               Missing(s, c, d)', Owns(w, tasks[w], s, c, d)
        PROVE  Announced(d) \/ Writing(tasks'[w], c, d)
    <3>1. dep.src = s /\ Serves(tasks[w], d)
      BY <1>1, <1>2, <1>3, <2>1, OwnsServes
    <3>2. QED
      BY <1>6, <1>7, <2>1, <3>1
  <2>2. QED
    BY <1>1, <2>1, RunServes DEF RunStep
<1>10. OverAll'
  BY <1>1, <1>2, ProcessFacts DEF OverAll, Aside
<1>11. RecordFollows'
  <2>1. \A s : Redoes(s) => Redoes(s)'
    BY <1>1, <1>2, ProcessFacts DEF Redoes, Goes, Workers
  <2>2. QED
    BY <1>1, <1>2, <2>1 DEF RecordFollows, Repeated, Aside
<1>12. QED
  BY <1>8, <1>9, <1>10, <1>11

LEMMA NextServerCovers ==
    ASSUME HeardInv, Covering, NEW w \in Workers, NextServer(w)
    PROVE  RecordFollows' /\ MissingIsServed' /\ TasksServe' /\ OverAll'
<1>1. /\ TypeInv /\ TasksFormed /\ TasksHold /\ Alone /\ RecordFollows /\ MissingIsServed
      /\ TasksServe /\ OverAll /\ WorldHeard
      /\ tasks[w].pc = "loop" /\ tasks'[w].pc = "write" /\ Goes(w) /\ UNCHANGED Aside
  BY NextServerFacts DEF HeardInv, ServedInv, Covering, Goes
<1>2. /\ UNCHANGED <<entries, sourceToDestinations>> /\ tasks'[w].err = tasks[w].err
      /\ Formed(w, tasks[w]) /\ tasks[w] # Idle /\ tasks'[w] # Idle /\ tasks'[w].dep = tasks[w].dep
      /\ tasks'[w].over = tasks[w].over
      /\ \A u \in Workers \ {w} : tasks[u] = Idle /\ tasks'[u] = Idle
  BY <1>1, NextServerFacts, OthersIdle DEF TasksFormed, Goes
<1>3. PICK d0 \in tasks[w].todo : /\ tasks'[w].todo = tasks[w].todo \ {d0} /\ tasks'[w].now = d0
                                  /\ tasks'[w].left = Targets(d0, tasks[w].over)
  BY NextServerFacts, <1>1
<1>4. \A s, c, d : Missing(s, c, d)' <=> Missing(s, c, d)
  BY <1>1, <1>2 DEF Missing, Aside
<1>5. ASSUME NEW c, NEW d, Writing(tasks[w], c, d), c \in Targets(d, tasks[w].over)
      PROVE  Writing(tasks'[w], c, d)
  <2>1. tasks[w].err \/ d \in tasks[w].todo
    BY <1>1, <1>5 DEF Writing
  <2>2. QED
    BY <1>1, <1>2, <1>3, <1>5, <2>1 DEF Writing
<1>6. ASSUME w # "workload", NEW c, NEW d, Missing(tasks[w].dep.src, c, d)
      PROVE  c \in Targets(d, tasks[w].over)
  BY <1>1, <1>2, <1>6 DEF OverAll, Missing, Targets
<1>7. ASSUME w = "workload", NEW s \in Clients, NEW c \in Clusters, NEW d, depCache[s] # Absent,
             d \in depCache[s].dests, Missing(s, c, d)
      PROVE  c \in Targets(d, tasks[w].over)
  <2>1. tasks[w].over = {} /\ s \in identityDependency[d] /\ c \in identityCluster[s]
    BY <1>1, <1>2, <1>7 DEF Formed, WorldHeard, Missing
  <2>2. <<c, s>> \in Dependents(d)
    BY <2>1 DEF Dependents
  <2>3. QED
    BY <2>1, <2>2 DEF Targets
<1>8. TasksServe'
  <2> SUFFICES ASSUME NEW c \in Clusters, NEW d \in Servers, Serves(tasks[w], d)',
                      Missing(tasks[w].dep.src, c, d), w # "workload"
               PROVE  Announced(d)' \/ Writing(tasks[w], c, d)'
    BY <1>2, <1>4 DEF TasksServe
  <2>1. Serves(tasks[w], d)
    BY <1>2 DEF Serves
  <2>2. Announced(d) \/ Writing(tasks[w], c, d)
    BY <1>1, <1>2, <2>1 DEF TasksServe
  <2>3. Announced(d)' <=> Announced(d)
    BY <1>1 DEF Announced, Aside
  <2>4. Writing(tasks'[w], c, d) => Writing(tasks[w], c, d)'
    BY DEF Writing
  <2>5. QED
    BY <1>5, <1>6, <2>2, <2>3, <2>4
<1>9. MissingIsServed'
  <2>1. ASSUME NEW s \in Clients, NEW c \in Clusters, NEW d \in Servers, depCache[s] # Absent,
               d \in depCache[s].dests, Missing(s, c, d)', Owns(w, tasks[w], s, c, d),
               Writing(tasks[w], c, d)
        PROVE  Writing(tasks'[w], c, d)
    <3>1. CASE w = "workload"
      BY <1>4, <1>5, <1>7, <2>1, <3>1
    <3>2. CASE w # "workload"
      <4>1. tasks[w].dep.src = s
        BY <1>1, <1>2, <2>1, <3>2, OwnsServes
      <4>2. QED
        BY <1>4, <1>5, <1>6, <2>1, <3>2, <4>1
    <3>3. QED
      BY <3>1, <3>2
  <2>2. QED
    BY <1>1, <2>1, RunServes DEF RunStep
<1>10. OverAll'
  BY <1>1, <1>2 DEF OverAll, Aside
<1>11. RecordFollows'
  <2>1. \A s : Redoes(s) => Redoes(s)'
    BY <1>1, <1>2 DEF Redoes, Goes, Workers
  <2>2. QED
    BY <1>1, <1>2, <2>1 DEF RecordFollows, Repeated, Aside
<1>12. QED
  BY <1>8, <1>9, <1>10, <1>11

LEMMA NoMoreCovers ==
    ASSUME HeardInv, Covering, NEW w \in Workers, NoMoreServers(w)
    PROVE  RecordFollows' /\ MissingIsServed' /\ TasksServe' /\ OverAll'
<1>1. /\ TypeInv /\ TasksFormed /\ TasksHold /\ Alone /\ RecordFollows /\ MissingIsServed
      /\ TasksServe /\ OverAll
      /\ tasks[w].pc = "loop" /\ tasks[w].todo = {} /\ Goes(w) /\ UNCHANGED Aside
  BY NoMoreFacts DEF HeardInv, ServedInv, Covering, Goes
<1>2. /\ UNCHANGED <<entries, sourceToDestinations>> /\ tasks'[w].err = tasks[w].err
      /\ Formed(w, tasks[w]) /\ tasks[w] # Idle /\ tasks'[w] # Idle /\ tasks'[w].dep = tasks[w].dep
      /\ \A u \in Workers \ {w} : tasks[u] = Idle /\ tasks'[u] = Idle
      /\ \/ tasks'[w].pc = "end" /\ (tasks[w].dep = Absent \/ tasks[w].err)
         \/ tasks'[w].pc = "put" /\ tasks[w].dep # Absent /\ ~tasks[w].err
  BY <1>1, NoMoreFacts, OthersIdle DEF TasksFormed, Goes
<1>3. \A c, d : Writing(tasks[w], c, d) => tasks[w].err
  BY <1>1 DEF Writing
<1>4. \A s, c, d : Missing(s, c, d)' <=> Missing(s, c, d)
  BY <1>1, <1>2 DEF Missing, Aside
<1>5. TasksServe'
  <2> SUFFICES ASSUME NEW c \in Clusters, NEW d \in Servers, Serves(tasks[w], d)',
                      Missing(tasks[w].dep.src, c, d), w # "workload"
               PROVE  Announced(d)' \/ Writing(tasks[w], c, d)'
    BY <1>2, <1>4 DEF TasksServe
  <2>1. Serves(tasks[w], d)
    BY <1>2 DEF Serves
  <2>2. Announced(d) \/ tasks[w].err
    BY <1>1, <1>2, <1>3, <2>1 DEF TasksServe
  <2>3. Announced(d)' <=> Announced(d)
    BY <1>1 DEF Announced, Aside
  <2>4. QED
    BY <1>2, <2>2, <2>3 DEF Writing
<1>6. MissingIsServed'
  <2>1. ASSUME NEW c \in Clusters, NEW d \in Servers, Writing(tasks[w], c, d)
        PROVE  Writing(tasks'[w], c, d)
    BY <1>2, <1>3, <2>1 DEF Writing
  <2>2. QED
    BY <1>1, <2>1, RunServes DEF RunStep
<1>7. OverAll'
  BY <1>1, <1>2 DEF OverAll, Aside
<1>8. RecordFollows'
  <2>1. \A s : Redoes(s) => Redoes(s)'
    BY <1>1, <1>2 DEF Redoes, Goes, Workers, Formed
  <2>2. QED
    BY <1>1, <1>2, <2>1 DEF RecordFollows, Repeated, Aside
<1>9. QED
  BY <1>5, <1>6, <1>7, <1>8

LEMMA WriteCovers ==
    ASSUME HeardInv, Covering, NEW w \in Workers, Write(w) \/ WriteFails(w) \/ WriteSkipped(w),
           ~dropped'
    PROVE  RecordFollows' /\ MissingIsServed' /\ TasksServe' /\ OverAll'
<1>1. /\ TypeInv /\ TasksFormed /\ TasksHold /\ Alone /\ RecordFollows /\ MissingIsServed
      /\ TasksServe /\ OverAll
      /\ tasks[w].pc = "write" /\ Goes(w) /\ UNCHANGED Aside
  BY WriteFacts DEF HeardInv, ServedInv, Covering, Goes
<1>2. /\ UNCHANGED sourceToDestinations
      /\ tasks[w] # Idle /\ tasks'[w] # Idle /\ tasks'[w].dep = tasks[w].dep
      /\ \A u \in Workers \ {w} : tasks[u] = Idle /\ tasks'[u] = Idle
      /\ tasks'[w].over = tasks[w].over /\ tasks'[w].todo = tasks[w].todo
      /\ tasks'[w].now = tasks[w].now
  BY <1>1, WriteFacts, OthersIdle DEF Goes
<1>3. PICK c0 \in tasks[w].left :
         /\ tasks'[w].left = tasks[w].left \ {c0}
         /\ \/ tasks'[w].pc = "loop" /\ tasks[w].left = {c0}
            \/ tasks'[w].pc = "write" /\ tasks[w].left # {c0}
         /\ \/ /\ entries' = entries \cup {<<c0, tasks[w].now>>}
               /\ tasks'[w].err = tasks[w].err
            \/ UNCHANGED entries /\ tasks'[w].err = TRUE
  BY <1>1, WriteFacts
<1>4. \A s, c, d : Missing(s, c, d)' => Missing(s, c, d)
  BY <1>1, <1>3 DEF Missing, Aside
<1>5. ASSUME NEW s, NEW c, NEW d, Writing(tasks[w], c, d), Missing(s, c, d)'
      PROVE  Writing(tasks'[w], c, d)
  <2>1. CASE tasks[w].err
    BY <1>3, <2>1 DEF Writing
  <2>2. CASE d \in tasks[w].todo
    BY <1>2, <1>3, <2>2 DEF Writing
  <2>3. CASE tasks[w].now = d /\ c \in tasks[w].left /\ c # c0
    BY <1>2, <1>3, <2>3 DEF Writing
  <2>4. CASE tasks[w].now = d /\ c = c0
    BY <1>3, <1>5, <2>4 DEF Writing, Missing
  <2>5. QED
    BY <1>1, <1>5, <2>1, <2>2, <2>3, <2>4 DEF Writing
<1>6. TasksServe'
  <2> SUFFICES ASSUME NEW c \in Clusters, NEW d \in Servers, Serves(tasks[w], d)',
                      Missing(tasks[w].dep.src, c, d)', w # "workload"
               PROVE  Announced(d)' \/ Writing(tasks[w], c, d)'
    BY <1>2 DEF TasksServe
  <2>1. Serves(tasks[w], d)
    BY <1>2 DEF Serves
  <2>2. \E s : s = tasks[w].dep.src /\ Missing(s, c, d)'
    BY <1>2
  <2>3. Announced(d) \/ Writing(tasks[w], c, d)
    BY <1>1, <1>2, <1>4, <2>1, <2>2 DEF TasksServe
  <2>4. Announced(d)' <=> Announced(d)
    BY <1>1 DEF Announced, Aside
  <2>5. Writing(tasks'[w], c, d) => Writing(tasks[w], c, d)'
    BY DEF Writing
  <2>6. QED
    BY <1>5, <2>2, <2>3, <2>4, <2>5
<1>7. MissingIsServed'
  <2>1. ASSUME NEW s \in Clients, NEW c \in Clusters, NEW d \in Servers, Missing(s, c, d)',
               Writing(tasks[w], c, d)
        PROVE  Writing(tasks'[w], c, d)
    BY <1>5, <2>1
  <2>2. QED
    BY <1>1, <2>1, RunServes DEF RunStep
<1>8. OverAll'
  BY <1>1, <1>2 DEF OverAll, Aside
<1>9. RecordFollows'
  <2>1. \A s : Redoes(s) => Redoes(s)'
    BY <1>1, <1>2, <1>3 DEF Redoes, Goes, Workers
  <2>2. QED
    BY <1>1, <1>2, <2>1 DEF RecordFollows, Repeated, Aside
<1>10. QED
  BY <1>6, <1>7, <1>8, <1>9

LEMMA PutCovers ==
    ASSUME HeardInv, Covering, NEW w \in Workers, Put(w)
    PROVE  RecordFollows' /\ MissingIsServed' /\ TasksServe' /\ OverAll'
<1>1. /\ TypeInv /\ TasksFormed /\ TasksHold /\ Alone /\ RecordFollows /\ MissingIsServed
      /\ TasksServe
      /\ tasks[w].pc = "put" /\ tasks'[w].pc = "end" /\ Goes(w) /\ UNCHANGED Aside
  BY PutFacts DEF HeardInv, ServedInv, Covering, Goes
<1>2. /\ UNCHANGED entries /\ tasks'[w].err = tasks[w].err
      /\ tasks[w] # Idle /\ Formed(w, tasks[w]) /\ ~tasks[w].err /\ w # "workload"
      /\ \A u \in Workers \ {w} : tasks[u] = Idle /\ tasks'[u] = Idle
  <2>1. w # "workload"
    BY <1>1, BusyType DEF Goes, TasksFormed, Formed, Shape
  <2>2. QED
    BY <1>1, <2>1, PutFacts, OthersIdle DEF TasksFormed, Formed, Goes
<1>3. PICK s0, dests : /\ s0 = tasks[w].dep.src /\ dests = tasks[w].dep.dests /\ s0 \in Clients
                       /\ sourceToDestinations' = [sourceToDestinations EXCEPT ![s0] = dests]
                       /\ depCache[s0] # Absent /\ depCache[s0].dests = dests
  <2>1. tasks[w].dep # Absent /\ tasks[w].dep.dests # {} /\ tasks[w].dep.src \in Clients
    BY <1>1, <1>2, BusyType DEF Formed, RecordOk
  <2>2. Holds(tasks[w].dep)
    BY <1>1, <1>2 DEF TasksHold
  <2>3. QED
    BY <1>1, <2>1, <2>2, PutFacts DEF Holds
<1>4. /\ sourceToDestinations'[s0] = dests
      /\ \A s \in Clients : s # s0 => sourceToDestinations'[s] = sourceToDestinations[s]
  BY <1>1, <1>3 DEF TypeInv, TypeOK
<1>5. TasksServe' /\ OverAll'
  BY <1>1, <1>2 DEF TasksServe, OverAll
<1>6. RecordFollows'
  <2>1. ASSUME NEW s \in Clients, s # s0
        PROVE  ~Redoes(s)
    BY <1>2, <1>3, <2>1 DEF Redoes, Formed, Workers
  <2>2. QED
    BY <1>1, <1>3, <1>4, <2>1 DEF RecordFollows, Repeated, Aside
<1>7. MissingIsServed'
  <2> SUFFICES ASSUME NEW s \in Clients, depCache[s] # Absent, NEW c \in Clusters,
                      NEW d \in depCache[s].dests, Missing(s, c, d)
               PROVE  ToCome(s, c, d)'
    BY <1>1, <1>2 DEF MissingIsServed, Missing, Aside
  <2>1. ~Underway(s, c, d)
    BY <1>1, <1>2 DEF Underway, Writing
  <2>2. ToCome(s, c, d)
    BY <1>1, <2>1 DEF MissingIsServed
  <2>3. /\ Announced(d)' <=> Announced(d)
        /\ JobQueued(s, c)' <=> JobQueued(s, c)
        /\ \A i : Repeated(i, s)' <=> Repeated(i, s)
        /\ \A item : IsLatest(item)' <=> IsLatest(item)
        /\ UNCHANGED <<workQ, workCache, depQ>>
    BY <1>1 DEF Announced, JobQueued, Repeated, IsLatest, Aside
  <2>4. CASE s # s0
    <3>1. Repeats(s, d)' <=> Repeats(s, d)
      BY <1>4, <2>3, <2>4 DEF Repeats
    <3>2. QED
      BY <2>2, <2>3, <3>1 DEF ToCome
  <2>5. CASE s = s0 /\ Serves(tasks[w], d)
    <3>1. d \in Servers
      BY <1>1 DEF TypeInv, TypeOK, Record
    <3>2. Announced(d)
      BY <1>1, <1>2, <1>3, <2>5, <3>1 DEF TasksServe, Writing
    <3>3. QED
      BY <2>3, <3>2 DEF ToCome
  <2>6. CASE s = s0 /\ ~Serves(tasks[w], d)
    <3>1. d \in sourceToDestinations[s]
      BY <1>3, <2>6 DEF Serves
    <3>2. Repeats(s, d) => Repeats(s, d)'
      BY <2>3, <3>1 DEF Repeats
    <3>3. QED
      BY <2>2, <2>3, <3>2 DEF ToCome
  <2>7. QED
    BY <2>4, <2>5, <2>6
<1>8. QED
  BY <1>5, <1>6, <1>7

-----------------------------------------------------------------------------
(* The end of an event                                                     *)

LEMMA QueueAppend ==
    ASSUME NEW S, NEW q \in Seq(S), NEW x \in S
    PROVE  /\ DOMAIN Append(q, x) = DOMAIN q \cup {Len(q) + 1} /\ Len(q) \in Nat
           /\ Len(q) + 1 \notin DOMAIN q /\ Append(q, x)[Len(q) + 1] = x
           /\ \A i \in DOMAIN q : i \in Nat /\ i < Len(q) + 1 /\ Append(q, x)[i] = q[i]
  OBVIOUS

LEMMA QueueTail ==
    ASSUME NEW S, NEW q \in Seq(S), q # << >>
    PROVE  /\ Head(q) = q[1] /\ 1 \in DOMAIN q /\ Head(q) \in S
           /\ DOMAIN q \subseteq Nat \ {0} /\ DOMAIN Tail(q) \subseteq Nat \ {0}
           /\ \A i \in DOMAIN Tail(q) : i + 1 \in DOMAIN q /\ Tail(q)[i] = q[i + 1]
           /\ \A i \in DOMAIN q : i # 1 => i - 1 \in DOMAIN Tail(q) /\ Tail(q)[i - 1] = q[i]
<1>1. Len(q) \in Nat /\ Len(q) # 0 /\ DOMAIN q = 1 .. Len(q)
  OBVIOUS
<1>2. /\ Len(Tail(q)) = Len(q) - 1 /\ DOMAIN Tail(q) = 1 .. Len(q) - 1
      /\ \A i \in 1 .. Len(q) - 1 : Tail(q)[i] = q[i + 1]
  BY <1>1
<1>3. QED
  BY <1>1, <1>2

LEMMA EndFacts ==
    ASSUME TypeInv, NEW w \in Workers, End(w)
    PROVE  /\ tasks[w].pc = "end" /\ tasks[w] # Idle /\ tasks'[w] = Idle
           /\ \A u \in Workers \ {w} : tasks'[u] = tasks[u]
           /\ UNCHANGED <<wanted, home, jobs, clock, phase, depCache, workCache,
                          identityDependency, identityCluster, entries, sourceToDestinations>>
           /\ \/ ~tasks[w].err /\ UNCHANGED <<depQ, workQ, jobQ>>
              \/ tasks[w].err /\ dropped' = TRUE /\ UNCHANGED <<depQ, workQ, jobQ>>
              \/ /\ w = "workload" /\ workQ' = workQ \cup {tasks[w].item}
                 /\ UNCHANGED <<depQ, jobQ>>
              \/ /\ w = "job" /\ UNCHANGED <<depQ, workQ>>
                 /\ \E x \in JobItem : /\ jobQ' = Append(jobQ, x)
                                       /\ x.src = tasks[w].item.src /\ x.at = tasks[w].item.at
              \/ /\ w = "dependency" /\ UNCHANGED <<workQ, jobQ>>
                 /\ \E x \in DepItem :
                      /\ depQ' = Append(depQ, x) /\ x.tries > 0
                      /\ x.type = tasks[w].item.type /\ x.src = tasks[w].item.src
                      /\ x.dests = tasks[w].item.dests /\ x.rev = tasks[w].item.rev
<1>1. /\ tasks[w].pc = "end" /\ tasks' = [tasks EXCEPT ![w] = Idle]
      /\ UNCHANGED <<wanted, home, jobs, clock, phase, depCache, workCache,
                     identityDependency, identityCluster, entries, sourceToDestinations>>
  BY DEF End, world, caches
<1>2. tasks[w] # Idle /\ tasks \in [Workers -> Tasks] /\ Shape(w, tasks[w]) /\ tasks[w].err \in BOOLEAN
  BY <1>1, BusyType DEF TypeInv, TypeOK, Tasks
<1>3. tasks'[w] = Idle /\ \A u \in Workers \ {w} : tasks'[u] = tasks[u]
  BY <1>1, <1>2
<1> DEFINE item == tasks[w].item
<1>4. CASE ~tasks[w].err
  BY <1>1, <1>2, <1>3, <1>4 DEF End, queues
<1>5. CASE tasks[w].err /\ w = "workload"
  BY <1>1, <1>2, <1>3, <1>5 DEF End
<1>6. CASE tasks[w].err /\ w = "job"
  <2> DEFINE x == [item EXCEPT !.tries = @ + 1]
  <2>1. UNCHANGED <<depQ, workQ>>
    BY <1>6 DEF End
  <2>2. \/ jobQ' = Append(jobQ, x)
        \/ UNCHANGED jobQ /\ dropped' = TRUE
    <3>1. /\ jobQ' = IF item.tries < MaxRetries THEN Append(jobQ, x) ELSE jobQ
          /\ dropped' = (dropped \/ item.tries >= MaxRetries)
      BY <1>6 DEF End
    <3>2. item.tries \in Nat
      BY <1>2, <1>6 DEF Shape, JobItem
    <3>3. ~(item.tries < MaxRetries) => item.tries >= MaxRetries
      BY <3>2, DependencyAssumption
    <3>4. QED
      BY <3>1, <3>3
  <2>3. x \in JobItem /\ x.src = item.src /\ x.at = item.at
    BY <1>2, <1>6 DEF Shape, JobItem
  <2> HIDE DEF x
  <2>4. QED
    BY <1>1, <1>2, <1>3, <1>6, <2>1, <2>2, <2>3
<1>7. CASE tasks[w].err /\ w = "dependency"
  <2> DEFINE x == [item EXCEPT !.tries = @ + 1]
  <2>1. /\ UNCHANGED <<workQ, jobQ>>
        /\ depQ' = Append(depQ, x) \/ (UNCHANGED depQ /\ dropped' = TRUE)
    BY <1>7 DEF End
  <2>2. /\ x \in DepItem /\ x.tries > 0 /\ x.src = item.src /\ x.type = item.type
        /\ x.dests = item.dests /\ x.rev = item.rev
    BY <1>2, <1>7 DEF Shape, DepItem
  <2> HIDE DEF x
  <2>3. QED
    BY <1>1, <1>2, <1>3, <1>7, <2>1, <2>2
<1>8. QED
  BY <1>2, <1>4, <1>5, <1>6, <1>7 DEF Workers

\* A job is queued beside the others
LEMMA JobAppend ==
    ASSUME TypeInv, NEW x \in JobItem, jobQ' = Append(jobQ, x)
    PROVE  /\ \A s, c : JobQueued(s, c) => JobQueued(s, c)'
           /\ JobQueued(x.src, x.at)'
<1>1. /\ DOMAIN jobQ' = DOMAIN jobQ \cup {Len(jobQ) + 1} /\ jobQ'[Len(jobQ) + 1] = x
      /\ \A i \in DOMAIN jobQ : jobQ'[i] = jobQ[i]
  BY QueueAppend DEF TypeInv, TypeOK
<1>2. QED
  BY <1>1 DEF JobQueued

LEMMA EndHeard ==
    ASSUME TypeInv, RevsBounded, TasksFormed, WorldHeard, NEW w \in Workers, End(w)
    PROVE  RevsBounded' /\ TasksFormed' /\ WorldHeard'
<1>1. /\ tasks[w] # Idle /\ tasks'[w] = Idle /\ \A u \in Workers \ {w} : tasks'[u] = tasks[u]
      /\ UNCHANGED <<wanted, home, jobs, clock, phase, depCache, workCache,
                     identityDependency, identityCluster>>
  BY EndFacts
<1>2. TasksFormed'
  BY <1>1 DEF TasksFormed, Formed, RecordOk
<1>3. RevsBounded'
  <2>1. CASE UNCHANGED depQ
    BY <1>1, <2>1 DEF RevsBounded, RecordOk
  <2>2. CASE ~UNCHANGED depQ
    <3>1. PICK x \in DepItem :
             /\ depQ' = Append(depQ, x) /\ w = "dependency"
             /\ x.type = tasks[w].item.type
             /\ x.dests = tasks[w].item.dests /\ x.rev = tasks[w].item.rev
      BY <2>2, EndFacts
    <3>2. RecordOk(x) /\ x.type # "Delete"
      BY <1>1, <3>1 DEF TasksFormed, Formed, RecordOk
    <3>3. /\ DOMAIN depQ' = DOMAIN depQ \cup {Len(depQ) + 1} /\ depQ'[Len(depQ) + 1] = x
          /\ \A i \in DOMAIN depQ : depQ'[i] = depQ[i]
      BY <3>1, QueueAppend DEF TypeInv, TypeOK
    <3>4. \A i \in DOMAIN depQ' : RecordOk(depQ'[i]) /\ (depQ'[i].tries > 0 => depQ'[i].type # "Delete")
      BY <3>2, <3>3 DEF RevsBounded
    <3>5. QED
      BY <1>1, <3>4 DEF RevsBounded, RecordOk
  <2>3. QED
    BY <2>1, <2>2
<1>4. WorldHeard'
  <2>1. workQ \subseteq workQ' /\ \A s, c : JobQueued(s, c) => JobQueued(s, c)'
    <3>1. workQ \subseteq workQ'
      BY EndFacts
    <3>2. CASE UNCHANGED jobQ
      BY <3>1, <3>2 DEF JobQueued
    <3>3. CASE ~UNCHANGED jobQ
      <4>1. PICK x \in JobItem : jobQ' = Append(jobQ, x)
        BY <3>3, EndFacts
      <4>2. QED
        BY <3>1, <4>1, JobAppend
    <3>4. QED
      BY <3>2, <3>3
  <2>2. \A d : Announced(d) => Announced(d)'
    BY <2>1 DEF Announced
  <2>3. QED
    BY <1>1, <2>1, <2>2 DEF WorldHeard
<1>5. QED
  BY <1>2, <1>3, <1>4

\* An event that failed goes to the end of the queue
LEMMA QueueRepeats ==
    ASSUME TypeInv, QueueInv, NEW x \in DepItem, depQ' = Append(depQ, x), x.tries > 0,
           UNCHANGED <<wanted, depCache>>, tasks'["dependency"] = Idle,
           IsLatest(x) => Holds(x) /\ \A j \in DOMAIN depQ : ~Fresh(j, x.src)
    PROVE  QueueInv'
<1>1. PICK n \in Nat :
         /\ DOMAIN depQ' = DOMAIN depQ \cup {n} /\ depQ'[n] = x /\ n \notin DOMAIN depQ
         /\ \A i \in DOMAIN depQ : i \in Nat /\ i < n /\ depQ'[i] = depQ[i]
  <2> DEFINE m == Len(depQ) + 1
  <2>1. /\ m \in Nat /\ DOMAIN depQ' = DOMAIN depQ \cup {m} /\ depQ'[m] = x /\ m \notin DOMAIN depQ
        /\ \A i \in DOMAIN depQ : i \in Nat /\ i < m /\ depQ'[i] = depQ[i]
    BY QueueAppend DEF TypeInv, TypeOK
  <2> HIDE DEF m
  <2>2. QED
    BY <2>1
<1>2. /\ \A item : IsLatest(item)' <=> IsLatest(item)
      /\ \A item : Says(item)' <=> Says(item)
      /\ \A item : Holds(item)' <=> Holds(item)
  BY DEF IsLatest, Says, Holds
<1>3. /\ \A i \in DOMAIN depQ : \A s : Fresh(i, s)' <=> Fresh(i, s)
      /\ \A s : ~Fresh(n, s)'
  <2>1. x.tries # 0
    BY DEF DepItem
  <2>2. QED
    BY <1>1, <2>1 DEF Fresh
<1>4. LastIsWanted'
  <2>1. ASSUME NEW s \in Clients, NEW i \in DOMAIN depQ', Fresh(i, s)',
               \A j \in DOMAIN depQ' : j > i => ~Fresh(j, s)'
        PROVE  Says(depQ'[i])
    <3>1. i \in DOMAIN depQ /\ Fresh(i, s) /\ \A j \in DOMAIN depQ : j > i => ~Fresh(j, s)
      BY <1>1, <1>3, <2>1
    <3>2. QED
      BY <1>1, <3>1 DEF QueueInv, LastIsWanted
  <2>2. ASSUME NEW s \in Clients, \A i \in DOMAIN depQ' : ~Fresh(i, s)'
        PROVE  depCache[s] = wanted[s]
    <3>1. \A i \in DOMAIN depQ : ~Fresh(i, s)
      BY <1>1, <1>3, <2>2
    <3>2. QED
      BY <3>1 DEF QueueInv, LastIsWanted
  <2>3. QED
    BY <1>2, <2>1, <2>2 DEF LastIsWanted
<1>5. LatestIsLast'
  <2>1. ASSUME NEW i \in DOMAIN depQ', NEW j \in DOMAIN depQ', depQ'[i].type # "Delete",
               IsLatest(depQ'[i]), depQ'[j].tries = 0, depQ'[j].src = depQ'[i].src
        PROVE  depQ'[i].tries = 0 /\ j <= i
    <3>1. j \in DOMAIN depQ /\ Fresh(j, depQ'[i].src)
      BY <1>1, <2>1 DEF Fresh
    <3>2. i # n
      BY <1>1, <2>1, <3>1
    <3>3. QED
      BY <1>1, <2>1, <3>1, <3>2 DEF QueueInv, LatestIsLast
  <2>2. QED
    BY <2>1 DEF LatestIsLast, IsLatest, Fresh
<1>6. RepeatedIsCached'
  <2>1. \A i \in DOMAIN depQ' : depQ'[i].tries > 0 /\ IsLatest(depQ'[i]) => Holds(depQ'[i])
    BY <1>1 DEF QueueInv, RepeatedIsCached
  <2>2. QED
    BY <2>1 DEF RepeatedIsCached, IsLatest, Holds
<1>7. UpdateFollows'
  <2>1. ASSUME NEW s \in Clients, NEW i \in DOMAIN depQ', Fresh(i, s)', depQ'[i].type = "Update"
        PROVE  /\ \A j \in DOMAIN depQ' : j < i /\ Fresh(j, s)' /\ depQ'[j].type = "Delete" =>
                     \E k \in DOMAIN depQ' : j < k /\ k < i /\ Fresh(k, s)'
               /\ (\A j \in DOMAIN depQ' : j < i => ~Fresh(j, s)') => depCache[s] # Absent
    <3>1. i \in DOMAIN depQ /\ Fresh(i, s) /\ depQ[i].type = "Update"
      BY <1>1, <1>3, <2>1
    <3>2. ASSUME NEW j \in DOMAIN depQ', j < i, Fresh(j, s)', depQ'[j].type = "Delete"
          PROVE  \E k \in DOMAIN depQ' : j < k /\ k < i /\ Fresh(k, s)'
      <4>1. j \in DOMAIN depQ /\ Fresh(j, s) /\ depQ[j].type = "Delete"
        BY <1>1, <1>3, <3>2
      <4>2. PICK k \in DOMAIN depQ : j < k /\ k < i /\ Fresh(k, s)
        BY <3>1, <3>2, <4>1 DEF QueueInv, UpdateFollows
      <4>3. QED
        BY <1>1, <1>3, <4>2
    <3>3. ASSUME \A j \in DOMAIN depQ' : j < i => ~Fresh(j, s)'
          PROVE  depCache[s] # Absent
      <4>1. \A j \in DOMAIN depQ : j < i => ~Fresh(j, s)
        BY <1>1, <1>3, <3>3
      <4>2. QED
        BY <3>1, <4>1 DEF QueueInv, UpdateFollows
    <3>4. QED
      BY <3>2, <3>3
  <2>2. QED
    BY <2>1 DEF UpdateFollows
<1>8. QED
  BY <1>4, <1>5, <1>6, <1>7 DEF QueueInv

LEMMA EndCovers ==
    ASSUME HeardInv, Covering, NEW w \in Workers, End(w), ~dropped'
    PROVE  Covering'
<1>1. /\ TypeInv /\ TasksFormed /\ TasksHold /\ Alone /\ RecordFollows /\ MissingIsServed
      /\ TasksServe /\ OverAll /\ QueueInv
  BY DEF HeardInv, ServedInv, Covering
<1>2. /\ tasks[w].pc = "end" /\ tasks[w] # Idle /\ tasks'[w] = Idle /\ Formed(w, tasks[w])
      /\ \A u \in Workers : tasks'[u] = Idle
      /\ \A u \in Workers \ {w} : tasks[u] = Idle
      /\ UNCHANGED <<wanted, home, jobs, clock, phase, depCache, workCache,
                     identityDependency, identityCluster, entries, sourceToDestinations>>
  <2>1. /\ tasks[w].pc = "end" /\ tasks[w] # Idle /\ tasks'[w] = Idle
        /\ \A u \in Workers \ {w} : tasks'[u] = tasks[u]
        /\ UNCHANGED <<wanted, home, jobs, clock, phase, depCache, workCache,
                       identityDependency, identityCluster, entries, sourceToDestinations>>
    BY <1>1, EndFacts
  <2>2. \A u \in Workers \ {w} : tasks[u] = Idle
    BY <1>1, <2>1 DEF Alone
  <2>3. \A u \in Workers : tasks'[u] = Idle
    BY <2>1, <2>2
  <2>4. Formed(w, tasks[w])
    BY <1>1, <2>1 DEF TasksFormed
  <2>5. QED
    BY <2>1, <2>2, <2>3, <2>4
<1>3. /\ Alone' /\ TasksHold' /\ TasksServe' /\ OverAll'
  BY <1>2 DEF Alone, TasksHold, TasksServe, OverAll
<1>4. \A c, d : Writing(tasks[w], c, d) => tasks[w].err
  BY <1>2 DEF Writing
<1>5. ASSUME NEW s \in Clients, depCache'[s] # Absent, NEW c \in Clusters,
             NEW d \in depCache'[s].dests, Missing(s, c, d)'
      PROVE  \/ ToCome(s, c, d)
             \/ tasks[w].err /\ Owns(w, tasks[w], s, c, d)
  <2>1. Missing(s, c, d) /\ depCache[s] # Absent /\ d \in depCache[s].dests
    BY <1>2, <1>5 DEF Missing
  <2>2. ToCome(s, c, d) \/ Underway(s, c, d)
    BY <1>1, <2>1 DEF MissingIsServed
  <2>3. Underway(s, c, d) => tasks[w].err /\ Owns(w, tasks[w], s, c, d)
    BY <1>2, <1>4 DEF Underway
  <2>4. QED
    BY <2>2, <2>3
<1>6. \A item : IsLatest(item)' <=> IsLatest(item)
  BY <1>2 DEF IsLatest
<1>7. CASE ~tasks[w].err /\ UNCHANGED <<depQ, workQ, jobQ>>
  <2>1. QueueInv'
    BY <1>1, <1>2, <1>7, QueueSame DEF Workers
  <2>2. \A s, c, d : ToCome(s, c, d) => ToCome(s, c, d)'
    BY <1>2, <1>6, <1>7 DEF ToCome, Announced, JobQueued, Repeats, Repeated
  <2>3. MissingIsServed'
    BY <1>5, <1>7, <2>2 DEF MissingIsServed
  <2>4. \A s : ~Redoes(s)
    BY <1>2, <1>7 DEF Redoes, Workers
  <2>5. RecordFollows'
    BY <1>1, <1>2, <1>7, <2>4 DEF RecordFollows, Repeated
  <2>6. QED
    BY <1>3, <2>1, <2>3, <2>5 DEF Covering
<1>8. CASE w = "workload" /\ workQ' = workQ \cup {tasks[w].item} /\ UNCHANGED <<depQ, jobQ>>
  <2>1. QueueInv'
    BY <1>1, <1>2, <1>8, QueueSame DEF Workers
  <2>2. \A s, c, d : ToCome(s, c, d) => ToCome(s, c, d)'
    BY <1>2, <1>6, <1>8 DEF ToCome, Announced, JobQueued, Repeats, Repeated
  <2>3. \A s, c, d : Owns(w, tasks[w], s, c, d) => ToCome(s, c, d)'
    BY <1>8 DEF Owns, ToCome, Announced
  <2>4. MissingIsServed'
    BY <1>5, <2>2, <2>3 DEF MissingIsServed
  <2>5. \A s : ~Redoes(s)
    BY <1>2, <1>8 DEF Redoes, Workers
  <2>6. RecordFollows'
    BY <1>1, <1>2, <1>8, <2>5 DEF RecordFollows, Repeated
  <2>7. QED
    BY <1>3, <2>1, <2>4, <2>6 DEF Covering
<1>9. ASSUME w = "job", UNCHANGED <<depQ, workQ>>, NEW x \in JobItem, jobQ' = Append(jobQ, x),
             x.src = tasks[w].item.src, x.at = tasks[w].item.at
      PROVE  Covering'
  <2>1. QueueInv'
    BY <1>1, <1>2, <1>9, QueueSame DEF Workers
  <2>2. /\ \A s, c : JobQueued(s, c) => JobQueued(s, c)'
        /\ JobQueued(x.src, x.at)'
    BY <1>1, <1>9, JobAppend
  <2>3. \A s, c, d : ToCome(s, c, d) => ToCome(s, c, d)'
    BY <1>2, <1>6, <1>9, <2>2 DEF ToCome, Announced, Repeats, Repeated
  <2>4. \A s, c, d : Owns(w, tasks[w], s, c, d) => ToCome(s, c, d)'
    BY <1>2, <1>9, <2>2 DEF Owns, ToCome
  <2>5. MissingIsServed'
    BY <1>5, <2>3, <2>4 DEF MissingIsServed
  <2>6. \A s : ~Redoes(s)
    BY <1>2, <1>9 DEF Redoes, Workers
  <2>7. RecordFollows'
    BY <1>1, <1>2, <1>9, <2>6 DEF RecordFollows, Repeated
  <2>8. QED
    BY <1>3, <2>1, <2>5, <2>7 DEF Covering
<1>10. ASSUME w = "dependency", UNCHANGED <<workQ, jobQ>>, NEW x \in DepItem,
              depQ' = Append(depQ, x), x.tries > 0,
              x.type = tasks[w].item.type, x.src = tasks[w].item.src,
              x.dests = tasks[w].item.dests, x.rev = tasks[w].item.rev
       PROVE  Covering'
  <2>1. tasks[w].dep = tasks[w].item /\ Holds(tasks[w].item)
    BY <1>1, <1>2, <1>10 DEF Formed, TasksHold
  <2>2. /\ IsLatest(x) <=> IsLatest(tasks[w].item)
        /\ Holds(x)
    BY <1>10, <2>1 DEF IsLatest, Holds
  <2>3. IsLatest(x) => \A j \in DOMAIN depQ : ~Fresh(j, x.src)
    BY <1>1, <1>2, <1>10, <2>2 DEF QueueInv, LatestIsLast
  <2>4. QueueInv'
    BY <1>1, <1>2, <1>10, <2>2, <2>3, QueueRepeats
  <2>5. PICK n : /\ n \in DOMAIN depQ' /\ depQ'[n] = x
                 /\ \A i \in DOMAIN depQ : i \in DOMAIN depQ' /\ depQ'[i] = depQ[i]
    BY <1>1, <1>10, QueueAppend DEF TypeInv, TypeOK
  <2>6. \A s, d : Repeats(s, d) => Repeats(s, d)'
    BY <1>2, <1>6, <2>5 DEF Repeats, Repeated
  <2>7. \A s, c, d : ToCome(s, c, d) => ToCome(s, c, d)'
    BY <1>2, <1>10, <2>6 DEF ToCome, Announced, JobQueued
  <2>8. \A s, c, d : Owns(w, tasks[w], s, c, d) => ToCome(s, c, d)'
    <3>1. \A s, c, d : Owns(w, tasks[w], s, c, d) => x.src = s /\ (x.type = "Add" \/ d \notin sourceToDestinations[s])
      BY <1>10, <2>1 DEF Owns, Serves
    <3>2. \A s, d : x.src = s /\ (x.type = "Add" \/ d \notin sourceToDestinations[s]) => Repeats(s, d)'
      BY <1>2, <1>10, <2>5 DEF Repeats, Repeated
    <3>3. QED
      BY <3>1, <3>2 DEF ToCome
  <2>9. MissingIsServed'
    BY <1>5, <2>7, <2>8 DEF MissingIsServed
  <2>10. RecordFollows'
    <3>1. \A s : Redoes(s) => \E i \in DOMAIN depQ' : Repeated(i, s)'
      BY <1>10, <2>5 DEF Redoes, Repeated
    <3>2. \A s : (\E i \in DOMAIN depQ : Repeated(i, s)) => \E i \in DOMAIN depQ' : Repeated(i, s)'
      BY <2>5 DEF Repeated
    <3>3. QED
      BY <1>1, <1>2, <3>1, <3>2 DEF RecordFollows
  <2>11. QED
    BY <1>3, <2>4, <2>9, <2>10 DEF Covering
<1>11. QED
  BY <1>1, <1>7, <1>8, <1>9, <1>10, EndFacts

-----------------------------------------------------------------------------
(* Taking up an event of a Dependency                                      *)

LEMMA StartingAlone ==
    ASSUME Starting, ~raced'
    PROVE  \A w \in Workers : tasks[w] = Idle
  BY DEF Starting

LEMMA TakeDependencyFacts ==
    ASSUME TypeInv, TakeDependency
    PROVE  \E x \in DepItem :
             /\ x = Head(depQ) /\ depQ # << >> /\ depQ' = Tail(depQ)
             /\ tasks["dependency"] = Idle /\ Starting
             /\ ~outdated' => x.tries = 0 \/ IsLatest(x)
             /\ UNCHANGED <<wanted, home, jobs, clock, phase, workQ, jobQ, workCache, entries,
                            identityCluster, sourceToDestinations>>
             /\ \A u \in Workers \ {"dependency"} : tasks'[u] = tasks[u]
             /\ \A s \in Clients : s # x.src => depCache'[s] = depCache[s]
             /\ \A d \in Servers : identityDependency[d] \subseteq identityDependency'[d]
             /\ IF x.type = "Delete"
                THEN depCache'[x.src] = Absent /\ tasks'["dependency"] = Idle
                ELSE /\ depCache'[x.src] = [dests |-> x.dests, rev |-> x.rev]
                     /\ depCache'[x.src] # Absent
                     /\ \A d \in x.dests : x.src \in identityDependency'[d]
                     /\ tasks'["dependency"] = Begin("process", x, x, {})
<1>1. PICK x : x = Head(depQ)
  OBVIOUS
<1>2. /\ depQ # << >> /\ depQ' = Tail(depQ) /\ tasks["dependency"] = Idle /\ Starting
      /\ outdated' = (outdated \/ (x.tries > 0 /\ ~IsLatest(x)))
      /\ UNCHANGED <<wanted, home, jobs, clock, phase, workQ, jobQ, workCache, entries,
                     identityCluster, sourceToDestinations>>
      /\ IF x.type = "Delete"
         THEN /\ depCache' = [depCache EXCEPT ![x.src] = Absent]
              /\ UNCHANGED <<identityDependency, tasks>>
         ELSE /\ depCache' = [depCache EXCEPT ![x.src] = [dests |-> x.dests, rev |-> x.rev]]
              /\ identityDependency' = Known(x)
              /\ tasks' = [tasks EXCEPT !["dependency"] = Begin("process", x, x, {})]
  BY <1>1 DEF TakeDependency, world
<1>3. x \in DepItem
  BY <1>1, <1>2 DEF TypeInv, TypeOK
<1>4. /\ x.src \in Clients /\ x.dests \subseteq Servers /\ x.tries \in Nat
      /\ [dests |-> x.dests, rev |-> x.rev] # Absent
  BY <1>3, DependencyAssumption DEF DepItem, Record
<1>5. ~outdated' => x.tries = 0 \/ IsLatest(x)
  <2>1. ~outdated' => ~(x.tries > 0) \/ IsLatest(x)
    BY <1>2, Zenon
  <2>2. ~(x.tries > 0) => x.tries = 0
    BY <1>4
  <2>3. QED
    BY <2>1, <2>2
<1>6. /\ depCache \in [Clients -> Record \cup {Absent}] /\ tasks \in [Workers -> Tasks]
      /\ identityDependency \in [Servers -> SUBSET Clients]
  BY DEF TypeInv, TypeOK, Tasks
<1>7. CASE x.type = "Delete"
  BY <1>1, <1>2, <1>3, <1>4, <1>5, <1>6, <1>7
<1>8. CASE x.type # "Delete"
  <2>1. /\ depCache'[x.src] = [dests |-> x.dests, rev |-> x.rev]
        /\ \A s \in Clients : s # x.src => depCache'[s] = depCache[s]
    BY <1>2, <1>4, <1>6, <1>8
  <2>2. /\ tasks'["dependency"] = Begin("process", x, x, {})
        /\ \A u \in Workers \ {"dependency"} : tasks'[u] = tasks[u]
    BY <1>2, <1>6, <1>8 DEF Workers
  <2>3. /\ \A d \in Servers : identityDependency[d] \subseteq identityDependency'[d]
        /\ \A d \in x.dests : x.src \in identityDependency'[d]
    BY <1>2, <1>4, <1>6, <1>8 DEF Known
  <2>4. QED
    BY <1>1, <1>2, <1>3, <1>4, <1>5, <1>8, <2>1, <2>2, <2>3
<1>9. QED
  BY <1>7, <1>8

LEMMA TakeDependencyHeard ==
    ASSUME TypeInv, RevsBounded, TasksFormed, WorldHeard, TakeDependency
    PROVE  RevsBounded' /\ TasksFormed' /\ WorldHeard'
<1>1. PICK x \in DepItem :
             /\ x = Head(depQ) /\ depQ # << >> /\ depQ' = Tail(depQ)
             /\ UNCHANGED <<wanted, home, jobs, clock, phase, workQ, jobQ, workCache, entries,
                            identityCluster, sourceToDestinations>>
             /\ \A u \in Workers \ {"dependency"} : tasks'[u] = tasks[u]
             /\ \A s \in Clients : s # x.src => depCache'[s] = depCache[s]
             /\ \A d \in Servers : identityDependency[d] \subseteq identityDependency'[d]
             /\ IF x.type = "Delete"
                THEN depCache'[x.src] = Absent /\ tasks'["dependency"] = Idle
                ELSE /\ depCache'[x.src] = [dests |-> x.dests, rev |-> x.rev]
                     /\ depCache'[x.src] # Absent
                     /\ \A d \in x.dests : x.src \in identityDependency'[d]
                     /\ tasks'["dependency"] = Begin("process", x, x, {})
  BY TakeDependencyFacts
<1>2. /\ x = depQ[1] /\ 1 \in DOMAIN depQ
      /\ \A i \in DOMAIN depQ' : i + 1 \in DOMAIN depQ /\ depQ'[i] = depQ[i + 1]
  BY <1>1, QueueTail DEF TypeInv, TypeOK
<1>3. x # Absent /\ RecordOk(x) /\ x.src \in Clients /\ x.dests \subseteq Servers
  BY <1>2, DependencyAssumption DEF RevsBounded, DepItem
<1>4. RevsBounded'
  <2>1. \A s \in Clients : RecordOk(wanted'[s])
    BY <1>1 DEF RevsBounded
  <2>2. \A s \in Clients : RecordOk(depCache'[s])
    BY <1>1, <1>3 DEF RevsBounded, RecordOk
  <2>3. \A i \in DOMAIN depQ' : RecordOk(depQ'[i]) /\ (depQ'[i].tries > 0 => depQ'[i].type # "Delete")
    BY <1>2 DEF RevsBounded
  <2>4. QED
    BY <1>1, <2>1, <2>2, <2>3 DEF RevsBounded, RecordOk
<1>5. TasksFormed'
  <2>1. \A u \in Workers \ {"dependency"} : tasks'[u] # Idle => Formed(u, tasks[u])'
    BY <1>1 DEF TasksFormed, Formed, RecordOk
  <2>2. tasks'["dependency"] # Idle => Formed("dependency", tasks["dependency"])'
    <3>1. CASE x.type = "Delete"
      BY <1>1, <3>1
    <3>2. CASE x.type # "Delete"
      <4>1. tasks'["dependency"] = Begin("process", x, x, {})
        BY <1>1, <3>2
      <4>2. tasks'["dependency"].dep = x /\ tasks'["dependency"].item = x
        BY <4>1 DEF Begin
      <4>3. tasks'["dependency"].err = FALSE
        BY <4>1 DEF Begin
      <4>4. QED
        BY <1>1, <1>3, <3>2, <4>2, <4>3 DEF Formed, RecordOk
    <3>3. QED
      BY <3>1, <3>2
  <2>3. QED
    BY <2>1, <2>2 DEF TasksFormed
<1>6. WorldHeard'
  <2>1. \A s \in Clients : depCache'[s] # Absent =>
          \A d \in depCache'[s].dests : s \in identityDependency'[d]
    <3> SUFFICES ASSUME NEW s \in Clients, depCache'[s] # Absent, NEW d \in depCache'[s].dests
                 PROVE  s \in identityDependency'[d]
      OBVIOUS
    <3>1. CASE s = x.src
      BY <1>1, <3>1
    <3>2. CASE s # x.src
      <4>1. depCache[s] # Absent /\ d \in depCache[s].dests /\ d \in Servers
        BY <1>1, <3>2 DEF TypeInv, TypeOK, Record
      <4>2. QED
        BY <1>1, <4>1 DEF WorldHeard
    <3>3. QED
      BY <3>1, <3>2
  <2>2. QED
    BY <1>1, <2>1 DEF WorldHeard, JobQueued, Announced
<1>7. QED
  BY <1>4, <1>5, <1>6

LEMMA TakeDependencyQueue ==
    ASSUME TypeInv, RevsBounded, QueueInv, NEW x \in DepItem,
           x = Head(depQ), depQ # << >>, depQ' = Tail(depQ), UNCHANGED wanted,
           x.tries = 0 \/ IsLatest(x),
           \A s \in Clients : s # x.src => depCache'[s] = depCache[s],
           IF x.type = "Delete" THEN depCache'[x.src] = Absent
           ELSE depCache'[x.src] = [dests |-> x.dests, rev |-> x.rev] /\ depCache'[x.src] # Absent,
           tasks'["dependency"] # Idle => tasks'["dependency"].item = x /\ x.type # "Delete"
    PROVE  QueueInv'
<1>1. /\ x = depQ[1] /\ 1 \in DOMAIN depQ
      /\ DOMAIN depQ \subseteq Nat \ {0} /\ DOMAIN depQ' \subseteq Nat \ {0}
      /\ \A i \in DOMAIN depQ' : i + 1 \in DOMAIN depQ /\ depQ'[i] = depQ[i + 1]
      /\ \A i \in DOMAIN depQ : i # 1 => i - 1 \in DOMAIN depQ' /\ depQ'[i - 1] = depQ[i]
  BY QueueTail DEF TypeInv, TypeOK
<1>2. x.tries \in Nat /\ x.src \in Clients /\ (x.tries > 0 => x.type # "Delete")
  BY <1>1 DEF DepItem, RevsBounded
<1>3. /\ \A item : IsLatest(item)' <=> IsLatest(item)
      /\ \A item : Says(item)' <=> Says(item)
  BY DEF IsLatest, Says
<1>4. /\ \A i \in DOMAIN depQ' : \A s : Fresh(i, s)' <=> Fresh(i + 1, s)
      /\ \A i \in DOMAIN depQ : \A s : i # 1 => (Fresh(i - 1, s)' <=> Fresh(i, s))
      /\ \A s : Fresh(1, s) <=> x.tries = 0 /\ x.src = s
  BY <1>1 DEF Fresh
<1>5. x.tries # 0 => /\ depCache[x.src] # Absent /\ depCache[x.src].dests = x.dests
                     /\ depCache[x.src].rev = x.rev /\ x.type # "Delete"
  BY <1>1, <1>2 DEF QueueInv, RepeatedIsCached, Holds
<1>6. depCache[x.src] \in Record \cup {Absent} /\ wanted[x.src] \in Record \cup {Absent}
  BY <1>2 DEF TypeInv, TypeOK
<1>7. x.tries # 0 => depCache'[x.src] = depCache[x.src]
  BY <1>5, <1>6 DEF Record
<1>8. LastIsWanted'
  <2>1. ASSUME NEW s \in Clients, NEW i \in DOMAIN depQ', Fresh(i, s)',
               \A j \in DOMAIN depQ' : j > i => ~Fresh(j, s)'
        PROVE  Says(depQ'[i])
    <3>1. i + 1 \in DOMAIN depQ /\ Fresh(i + 1, s)
      BY <1>1, <1>4, <2>1
    <3>2. ASSUME NEW j \in DOMAIN depQ, j > i + 1
          PROVE  ~Fresh(j, s)
      <4>1. j # 1 /\ j - 1 \in DOMAIN depQ' /\ j - 1 > i
        BY <1>1, <3>2
      <4>2. QED
        BY <1>4, <2>1, <4>1
    <3>3. Says(depQ[i + 1])
      BY <3>1, <3>2 DEF QueueInv, LastIsWanted
    <3>4. QED
      BY <1>1, <3>3
  <2>2. ASSUME NEW s \in Clients, \A i \in DOMAIN depQ' : ~Fresh(i, s)'
        PROVE  depCache'[s] = wanted[s]
    <3>1. \A i \in DOMAIN depQ : i # 1 => ~Fresh(i, s)
      BY <1>1, <1>4, <2>2
    <3>2. CASE ~Fresh(1, s)
      <4>1. depCache[s] = wanted[s]
        BY <3>1, <3>2 DEF QueueInv, LastIsWanted
      <4>2. s = x.src => x.tries # 0
        BY <1>4, <3>2
      <4>3. QED
        BY <1>7, <4>1, <4>2
    <3>3. CASE Fresh(1, s)
      <4>1. \A j \in DOMAIN depQ : j > 1 => ~Fresh(j, s)
        BY <1>1, <3>1
      <4>2. Says(x) /\ s = x.src
        BY <1>1, <1>4, <3>3, <4>1 DEF QueueInv, LastIsWanted
      <4>3. CASE wanted[s] = Absent
        BY <4>2, <4>3 DEF Says
      <4>4. CASE wanted[s] # Absent
        <5>1. depCache'[s] = [dests |-> wanted[s].dests, rev |-> wanted[s].rev]
          BY <4>2, <4>4 DEF Says
        <5>2. wanted[s] \in Record
          BY <1>6, <4>2, <4>4
        <5>3. QED
          BY <5>1, <5>2 DEF Record
      <4>5. QED
        BY <4>3, <4>4
    <3>4. QED
      BY <3>2, <3>3
  <2>3. QED
    BY <1>3, <2>1, <2>2 DEF LastIsWanted
<1>9. LatestIsLast'
  <2>1. ASSUME NEW i \in DOMAIN depQ', NEW j \in DOMAIN depQ', depQ'[i].type # "Delete",
               IsLatest(depQ'[i]), depQ'[j].tries = 0, depQ'[j].src = depQ'[i].src
        PROVE  depQ'[i].tries = 0 /\ j <= i
    <3>1. i + 1 \in DOMAIN depQ /\ j + 1 \in DOMAIN depQ /\ depQ'[i] = depQ[i + 1]
      BY <1>1
    <3>2. Fresh(j + 1, depQ[i + 1].src)
      BY <1>1, <2>1, <3>1 DEF Fresh
    <3>3. depQ[i + 1].tries = 0 /\ j + 1 <= i + 1
      BY <2>1, <3>1, <3>2 DEF QueueInv, LatestIsLast
    <3>4. QED
      BY <1>1, <3>1, <3>3
  <2>2. ASSUME x.type # "Delete", IsLatest(x), NEW j \in DOMAIN depQ', depQ'[j].tries = 0,
               depQ'[j].src = x.src
        PROVE  FALSE
    <3>1. j + 1 \in DOMAIN depQ /\ Fresh(j + 1, x.src)
      BY <1>1, <2>2 DEF Fresh
    <3>2. j + 1 <= 1
      BY <1>1, <2>2, <3>1 DEF QueueInv, LatestIsLast
    <3>3. QED
      BY <1>1, <3>2
  <2>3. QED
    BY <2>1, <2>2 DEF LatestIsLast, IsLatest, Fresh
<1>10. RepeatedIsCached'
  <2>1. ASSUME NEW i \in DOMAIN depQ', depQ'[i].tries > 0, IsLatest(depQ'[i])
        PROVE  Holds(depQ[i])'
    <3>1. PICK y \in DepItem : y = depQ'[i] /\ y = depQ[i + 1] /\ i + 1 \in DOMAIN depQ
      BY <1>1, <2>1 DEF TypeInv, TypeOK
    <3>2. y.tries > 0 /\ y.tries # 0 /\ IsLatest(y) /\ y.type # "Delete" /\ y.src \in Clients
      BY <2>1, <3>1 DEF RevsBounded, DepItem
    <3>3. Holds(y)
      BY <3>1, <3>2 DEF QueueInv, RepeatedIsCached
    <3>4. ~Fresh(1, y.src)
      BY <1>1, <3>1, <3>2 DEF QueueInv, LatestIsLast
    <3>5. y.src = x.src => x.tries # 0
      BY <1>4, <3>4
    <3>6. depCache'[y.src] = depCache[y.src]
      BY <1>7, <3>2, <3>5
    <3>7. QED
      BY <3>1, <3>3, <3>6 DEF Holds
  <2>2. QED
    BY <1>3, <2>1 DEF RepeatedIsCached
<1>11. UpdateFollows'
  <2>1. ASSUME NEW s \in Clients, NEW i \in DOMAIN depQ', Fresh(i, s)', depQ'[i].type = "Update"
        PROVE  /\ \A j \in DOMAIN depQ' : j < i /\ Fresh(j, s)' /\ depQ'[j].type = "Delete" =>
                     \E k \in DOMAIN depQ' : j < k /\ k < i /\ Fresh(k, s)'
               /\ (\A j \in DOMAIN depQ' : j < i => ~Fresh(j, s)') => depCache'[s] # Absent
    <3>1. i + 1 \in DOMAIN depQ /\ Fresh(i + 1, s) /\ depQ[i + 1].type = "Update"
      BY <1>1, <1>4, <2>1
    <3>2. ASSUME NEW j \in DOMAIN depQ', j < i, Fresh(j, s)', depQ'[j].type = "Delete"
          PROVE  \E k \in DOMAIN depQ' : j < k /\ k < i /\ Fresh(k, s)'
      <4>1. j + 1 \in DOMAIN depQ /\ Fresh(j + 1, s) /\ depQ[j + 1].type = "Delete" /\ j + 1 < i + 1
        BY <1>1, <1>4, <3>2
      <4>2. PICK k \in DOMAIN depQ : j + 1 < k /\ k < i + 1 /\ Fresh(k, s)
        BY <3>1, <4>1 DEF QueueInv, UpdateFollows
      <4>3. k # 1 /\ k - 1 \in DOMAIN depQ' /\ j < k - 1 /\ k - 1 < i
        BY <1>1, <4>2
      <4>4. Fresh(k - 1, s)'
        BY <1>4, <4>2, <4>3
      <4>5. QED
        BY <4>3, <4>4
    <3>3. ASSUME \A j \in DOMAIN depQ' : j < i => ~Fresh(j, s)'
          PROVE  depCache'[s] # Absent
      <4>1. ASSUME NEW j \in DOMAIN depQ, j < i + 1, j # 1
            PROVE  ~Fresh(j, s)
        <5>1. j - 1 \in DOMAIN depQ' /\ j - 1 < i
          BY <1>1, <4>1
        <5>2. QED
          BY <1>4, <3>3, <4>1, <5>1
      <4>2. CASE ~Fresh(1, s)
        <5>1. depCache[s] # Absent
          BY <3>1, <4>1, <4>2 DEF QueueInv, UpdateFollows
        <5>2. s = x.src => x.tries # 0
          BY <1>4, <4>2
        <5>3. QED
          BY <1>7, <5>1, <5>2
      <4>3. CASE Fresh(1, s)
        <5>1. s = x.src
          BY <1>4, <4>3
        <5>2. x.type # "Delete"
          <6>1. ~ \E k \in DOMAIN depQ : 1 < k /\ k < i + 1 /\ Fresh(k, s)
            BY <1>1, <4>1
          <6>2. 1 < i + 1
            BY <1>1
          <6>3. QED
            BY <1>1, <3>1, <4>3, <6>1, <6>2 DEF QueueInv, UpdateFollows
        <5>3. QED
          BY <5>1, <5>2
      <4>4. QED
        BY <4>2, <4>3
    <3>4. QED
      BY <3>2, <3>3
  <2>2. QED
    BY <2>1 DEF UpdateFollows
<1>12. QED
  BY <1>8, <1>9, <1>10, <1>11 DEF QueueInv

LEMMA TakeDependencyCovers ==
    ASSUME HeardInv, Covering, TakeDependency, ~raced', ~outdated'
    PROVE  Covering'
<1>1. PICK x \in DepItem :
             /\ x = Head(depQ) /\ depQ # << >> /\ depQ' = Tail(depQ)
             /\ tasks["dependency"] = Idle /\ Starting
             /\ x.tries = 0 \/ IsLatest(x)
             /\ UNCHANGED <<wanted, home, jobs, clock, phase, workQ, jobQ, workCache, entries,
                            identityCluster, sourceToDestinations>>
             /\ \A u \in Workers \ {"dependency"} : tasks'[u] = tasks[u]
             /\ \A s \in Clients : s # x.src => depCache'[s] = depCache[s]
             /\ IF x.type = "Delete"
                THEN depCache'[x.src] = Absent /\ tasks'["dependency"] = Idle
                ELSE /\ depCache'[x.src] = [dests |-> x.dests, rev |-> x.rev]
                     /\ depCache'[x.src] # Absent
                     /\ tasks'["dependency"] = Begin("process", x, x, {})
  BY TakeDependencyFacts DEF HeardInv, ServedInv
<1>2. /\ TypeInv /\ RevsBounded /\ RecordFollows /\ MissingIsServed /\ QueueInv
      /\ LatestIsLast /\ UpdateFollows /\ RepeatedIsCached
  BY DEF HeardInv, ServedInv, Covering, QueueInv
<1>3. /\ \A w \in Workers : tasks[w] = Idle
      /\ \A w \in Workers \ {"dependency"} : tasks'[w] = Idle
  BY <1>1, StartingAlone
<1>4. x.type # "Delete" => /\ tasks'["dependency"] # Idle /\ tasks'["dependency"].pc = "process"
                           /\ tasks'["dependency"].item = x /\ tasks'["dependency"].dep = x
  BY <1>1 DEF Begin, Idle
<1>5. tasks'["dependency"] # Idle => tasks'["dependency"].item = x /\ x.type # "Delete"
  BY <1>1, <1>4
<1>6. QueueInv'
  BY <1>1, <1>2, <1>5, TakeDependencyQueue
<1>7. Alone'
  BY <1>3 DEF Alone
<1>8. TasksHold'
  <2>1. x.type # "Delete" => Holds(x)'
    BY <1>1 DEF Holds
  <2>2. QED
    BY <1>1, <1>3, <1>4, <2>1 DEF TasksHold, Holds
<1>9. TasksServe' /\ OverAll'
  BY <1>1, <1>3, <1>4 DEF TasksServe, OverAll
<1>10. /\ x = depQ[1] /\ 1 \in DOMAIN depQ
       /\ DOMAIN depQ \subseteq Nat \ {0} /\ DOMAIN depQ' \subseteq Nat \ {0}
       /\ \A i \in DOMAIN depQ : i # 1 => i - 1 \in DOMAIN depQ' /\ depQ'[i - 1] = depQ[i]
  BY <1>1, <1>2, QueueTail DEF TypeInv, TypeOK
<1>11. x.tries \in Nat /\ x.src \in Clients
  BY DEF DepItem
<1>12. \A s : ~Redoes(s) /\ \A c, d : ~Underway(s, c, d)
  BY <1>3 DEF Redoes, Underway, Workers
<1>13. \A item : IsLatest(item)' <=> IsLatest(item)
  BY <1>1 DEF IsLatest
<1>14. \A s, d, i : /\ i \in DOMAIN depQ /\ i # 1 /\ Repeated(i, s)
                    /\ depQ[i].type = "Add" \/ d \notin sourceToDestinations[s] \/ ~IsLatest(depQ[i])
                    => Repeats(s, d)'
  <2> SUFFICES ASSUME NEW s, NEW d, NEW i \in DOMAIN depQ, i # 1, Repeated(i, s),
                      depQ[i].type = "Add" \/ d \notin sourceToDestinations[s] \/ ~IsLatest(depQ[i])
               PROVE  Repeats(s, d)'
    OBVIOUS
  <2>1. i - 1 \in DOMAIN depQ' /\ depQ'[i - 1] = depQ[i]
    BY <1>10
  <2>2. Repeated(i - 1, s)'
    BY <2>1 DEF Repeated
  <2>3. UNCHANGED sourceToDestinations
    BY <1>1
  <2>4. QED
    BY <1>13, <2>1, <2>2, <2>3 DEF Repeats
<1>15. RecordFollows'
  <2> SUFFICES ASSUME NEW s \in Clients, depCache'[s] # Absent
               PROVE  \/ sourceToDestinations'[s] = depCache'[s].dests
                      \/ \E i \in DOMAIN depQ' : Repeated(i, s)'
                      \/ Redoes(s)'
    BY DEF RecordFollows
  <2>1. CASE s = x.src
    BY <1>1, <1>4, <2>1 DEF Redoes
  <2>2. CASE s # x.src
    <3>1. \/ sourceToDestinations[s] = depCache[s].dests
          \/ \E i \in DOMAIN depQ : Repeated(i, s)
      BY <1>1, <1>2, <1>12, <2>2 DEF RecordFollows
    <3>2. ASSUME NEW i \in DOMAIN depQ, Repeated(i, s)
          PROVE  \E k \in DOMAIN depQ' : Repeated(k, s)'
      <4>1. i # 1
        BY <1>10, <2>2, <3>2 DEF Repeated
      <4>2. i - 1 \in DOMAIN depQ' /\ Repeated(i - 1, s)'
        BY <1>10, <3>2, <4>1 DEF Repeated
      <4>3. QED
        BY <4>2
    <3>3. QED
      BY <1>1, <2>2, <3>1, <3>2
  <2>3. QED
    BY <2>1, <2>2
<1>16. MissingIsServed'
  <2> SUFFICES ASSUME NEW s \in Clients, depCache'[s] # Absent, NEW c \in Clusters,
                      NEW d \in depCache'[s].dests, Missing(s, c, d)'
               PROVE  ToCome(s, c, d)' \/ Underway(s, c, d)'
    BY DEF MissingIsServed
  <2>1. Missing(s, c, d)
    BY <1>1 DEF Missing
  <2>2. ASSUME ToCome(s, c, d), Repeats(s, d) => Repeats(s, d)'
        PROVE  ToCome(s, c, d)'
    BY <1>1, <2>2 DEF ToCome, Announced, JobQueued
  <2>3. CASE s # x.src
    <3>1. ToCome(s, c, d)
      BY <1>1, <1>2, <1>12, <2>1, <2>3 DEF MissingIsServed
    <3>2. Repeats(s, d) => Repeats(s, d)'
      BY <1>10, <1>14, <2>3 DEF Repeats, Repeated
    <3>3. QED
      BY <2>2, <3>1, <3>2
  <2>4. CASE s = x.src /\ (x.type = "Add" \/ d \notin sourceToDestinations[s])
    <3>1. d \in x.dests /\ x.type # "Delete"
      BY <1>1, <2>4
    <3>2. Owns("dependency", tasks["dependency"], s, c, d)'
      BY <1>1, <1>4, <2>4, <3>1 DEF Owns, Serves
    <3>3. QED
      BY <1>4, <3>1, <3>2 DEF Underway, Workers
  <2>5. CASE s = x.src /\ x.type # "Add" /\ d \in sourceToDestinations[s] /\ x.tries # 0
    <3>1. Holds(x) /\ IsLatest(x) /\ x.type # "Delete"
      BY <1>1, <1>2, <1>10, <1>11, <2>5 DEF RepeatedIsCached
    <3>2. ToCome(s, c, d)
      <4>1. depCache'[s].dests = x.dests
        BY <1>1, <2>5, <3>1
      <4>2. depCache[s] # Absent /\ d \in depCache[s].dests
        BY <2>5, <3>1, <4>1 DEF Holds
      <4>3. QED
        BY <1>2, <1>12, <2>1, <4>2 DEF MissingIsServed
    <3>3. Repeats(s, d) => Repeats(s, d)'
      BY <1>10, <1>14, <2>5, <3>1 DEF Repeats
    <3>4. QED
      BY <2>2, <3>2, <3>3
  <2>6. CASE s = x.src /\ x.type # "Add" /\ d \in sourceToDestinations[s] /\ x.tries = 0
    <3>1. Fresh(1, s) /\ x.type = "Update"
      BY <1>1, <1>10, <2>6 DEF Fresh, DepItem
    <3>2. depCache[s] # Absent
      <4>1. \A j \in DOMAIN depQ : ~(j < 1)
        BY <1>10
      <4>2. QED
        BY <1>2, <1>10, <3>1, <4>1 DEF UpdateFollows
    <3>3. CASE sourceToDestinations[s] = depCache[s].dests
      <4>1. ToCome(s, c, d)
        BY <1>2, <1>12, <2>1, <2>6, <3>2, <3>3 DEF MissingIsServed
      <4>2. Repeats(s, d) => Repeats(s, d)'
        BY <1>10, <1>14, <2>6 DEF Repeats, Repeated
      <4>3. QED
        BY <2>2, <4>1, <4>2
    <3>4. ASSUME NEW i \in DOMAIN depQ, Repeated(i, s)
          PROVE  ToCome(s, c, d)'
      <4>1. i # 1 /\ depQ[i].type # "Delete" /\ depQ[i].tries # 0 /\ depQ[i].src = s
        BY <1>2, <1>10, <2>6, <3>4 DEF Repeated, RevsBounded
      <4>2. ~IsLatest(depQ[i])
        BY <1>2, <1>10, <3>1, <4>1 DEF LatestIsLast
      <4>3. QED
        BY <1>14, <3>4, <4>1, <4>2 DEF ToCome
    <3>5. QED
      BY <1>2, <1>12, <3>2, <3>3, <3>4 DEF RecordFollows
  <2>7. QED
    BY <2>3, <2>4, <2>5, <2>6
<1>17. QED
  BY <1>6, <1>7, <1>8, <1>9, <1>15, <1>16 DEF Covering

LEMMA DropDependencyHeard ==
    ASSUME TypeInv, RevsBounded, TasksFormed, WorldHeard, DropDependency
    PROVE  RevsBounded' /\ TasksFormed' /\ WorldHeard'
<1>1. /\ depQ # << >> /\ depQ' = Tail(depQ)
      /\ UNCHANGED <<wanted, home, jobs, clock, phase, workQ, jobQ, depCache, workCache,
                     identityDependency, identityCluster, tasks>>
  BY DEF DropDependency, world, caches
<1>2. \A i \in DOMAIN depQ' : i + 1 \in DOMAIN depQ /\ depQ'[i] = depQ[i + 1]
  BY <1>1, QueueTail DEF TypeInv, TypeOK
<1>3. RevsBounded'
  <2>1. \A i \in DOMAIN depQ' : RecordOk(depQ'[i]) /\ (depQ'[i].tries > 0 => depQ'[i].type # "Delete")
    BY <1>2 DEF RevsBounded
  <2>2. QED
    BY <1>1, <2>1 DEF RevsBounded, RecordOk
<1>4. TasksFormed' /\ WorldHeard'
  BY <1>1 DEF TasksFormed, Formed, RecordOk, WorldHeard, JobQueued, Announced
<1>5. QED
  BY <1>3, <1>4

-----------------------------------------------------------------------------
(* Taking up an event of a job                                             *)

LEMMA TakeJobFacts ==
    ASSUME TypeInv, TakeJob
    PROVE  \E x \in JobItem :
             /\ tasks["job"] = Idle /\ Starting
             /\ UNCHANGED <<wanted, home, jobs, clock, phase, depQ, workQ, depCache, workCache,
                            entries, sourceToDestinations>>
             /\ \A i \in Identities : i # x.src => identityCluster'[i] = identityCluster[i]
             /\ identityCluster'[x.src] = identityCluster[x.src] \cup {x.at}
             /\ \A u \in Workers \ {"job"} : tasks'[u] = tasks[u]
             /\ \A d \in Servers : identityDependency[d] \subseteq identityDependency'[d]
             /\ \A s, c : JobQueued(s, c) => JobQueued(s, c)' \/ (s = x.src /\ c = x.at)
             /\ \/ phase = "warm" /\ tasks'["job"] = Idle
                \/ /\ depCache[x.src] = Absent \/ [src |-> x.src, at |-> x.at] \in workCache
                   /\ tasks'["job"] = Idle
                \/ \E dep \in DepItem :
                     /\ dep.type = "Add" /\ dep.src = x.src /\ depCache[x.src] # Absent
                     /\ dep.dests = depCache[x.src].dests /\ dep.rev = depCache[x.src].rev
                     /\ [src |-> x.src, at |-> x.at] \notin workCache
                     /\ tasks'["job"] = Begin("process", x, dep, {})
<1>1. PICK x, record : x = Head(jobQ) /\ record = depCache[x.src]
  OBVIOUS
<1>2. PICK dep : dep = [type |-> "Add", src |-> x.src, dests |-> record.dests,
                        rev |-> record.rev, tries |-> 0]
  OBVIOUS
<1>3. /\ jobQ # << >> /\ tasks["job"] = Idle /\ Starting
      /\ UNCHANGED <<wanted, home, jobs, clock, phase, depQ, workQ, depCache, workCache,
                     entries, sourceToDestinations>>
      /\ identityCluster' = [identityCluster EXCEPT ![x.src] = @ \cup {x.at}]
      /\ CASE phase = "warm" ->
                 /\ jobQ' = IF x.tries < MaxRetries
                            THEN Append(Tail(jobQ), [x EXCEPT !.tries = @ + 1]) ELSE Tail(jobQ)
                 /\ UNCHANGED <<identityDependency, tasks>>
            [] phase # "warm" /\ (record = Absent \/ HasWorkload(x)) ->
                 jobQ' = Tail(jobQ) /\ UNCHANGED <<identityDependency, tasks>>
            [] OTHER -> /\ jobQ' = Tail(jobQ) /\ identityDependency' = Known(dep)
                        /\ tasks' = [tasks EXCEPT !["job"] = Begin("process", x, dep, {})]
  BY <1>1, <1>2 DEF TakeJob, world
<1>4. x \in JobItem /\ x.src \in Clients /\ x.src \in Identities /\ Tail(jobQ) \in Seq(JobItem)
  <2>1. jobQ \in Seq(JobItem) /\ jobQ # << >>
    BY <1>3 DEF TypeInv, TypeOK
  <2>2. x \in JobItem /\ Tail(jobQ) \in Seq(JobItem)
    BY <1>1, <2>1
  <2>3. QED
    BY <2>2 DEF JobItem, Identities
<1>5. /\ tasks \in [Workers -> Tasks] /\ identityDependency \in [Servers -> SUBSET Clients]
      /\ identityCluster \in [Identities -> SUBSET Clusters] /\ record \in Record \cup {Absent}
  BY <1>1, <1>4 DEF TypeInv, TypeOK, Tasks
<1>6. /\ \A i \in Identities : i # x.src => identityCluster'[i] = identityCluster[i]
      /\ identityCluster'[x.src] = identityCluster[x.src] \cup {x.at}
  BY <1>3, <1>4, <1>5
<1>7. ASSUME NEW q \in Seq(JobItem), q = Tail(jobQ),
             jobQ' = q \/ \E y \in JobItem : jobQ' = Append(q, y)
      PROVE  \A s, c : JobQueued(s, c) => JobQueued(s, c)' \/ (s = x.src /\ c = x.at)
  <2> SUFFICES ASSUME NEW s, NEW c, NEW i \in DOMAIN jobQ, jobQ[i].src = s, jobQ[i].at = c
               PROVE  JobQueued(s, c)' \/ (s = x.src /\ c = x.at)
    BY DEF JobQueued
  <2>1. /\ x = jobQ[1]
        /\ i # 1 => i - 1 \in DOMAIN q /\ q[i - 1] = jobQ[i]
    BY <1>1, <1>3, <1>7, QueueTail DEF TypeInv, TypeOK
  <2>2. ASSUME NEW k \in DOMAIN q
        PROVE  k \in DOMAIN jobQ' /\ jobQ'[k] = q[k]
    BY <1>7, <2>2, QueueAppend
  <2>3. QED
    BY <2>1, <2>2 DEF JobQueued
<1>8. CASE phase = "warm"
  <2>1. UNCHANGED <<identityDependency, tasks>>
    BY <1>3, <1>8
  <2>2. jobQ' = Tail(jobQ) \/ \E y \in JobItem : jobQ' = Append(Tail(jobQ), y)
    <3>1. [x EXCEPT !.tries = @ + 1] \in JobItem
      BY <1>4 DEF JobItem
    <3>2. QED
      BY <1>3, <1>8, <3>1
  <2>3. QED
    BY <1>3, <1>4, <1>6, <1>7, <1>8, <2>1, <2>2
<1>9. CASE phase # "warm" /\ (record = Absent \/ HasWorkload(x))
  <2>1. jobQ' = Tail(jobQ) /\ UNCHANGED <<identityDependency, tasks>>
    BY <1>3, <1>9
  <2>2. record = Absent \/ [src |-> x.src, at |-> x.at] \in workCache
    BY <1>9 DEF HasWorkload
  <2>3. QED
    BY <1>1, <1>3, <1>4, <1>6, <1>7, <2>1, <2>2
<1>10. CASE phase # "warm" /\ record # Absent /\ ~HasWorkload(x)
  <2>1. /\ jobQ' = Tail(jobQ) /\ identityDependency' = Known(dep)
        /\ tasks' = [tasks EXCEPT !["job"] = Begin("process", x, dep, {})]
    BY <1>3, <1>10
  <2>2. /\ dep \in DepItem /\ dep.type = "Add" /\ dep.src = x.src /\ dep.dests = record.dests
        /\ dep.rev = record.rev
    BY <1>2, <1>4, <1>5, <1>10 DEF DepItem, Record
  <2>3. tasks'["job"] = Begin("process", x, dep, {}) /\ \A u \in Workers \ {"job"} : tasks'[u] = tasks[u]
    BY <1>5, <2>1 DEF Workers
  <2>4. \A d \in Servers : identityDependency[d] \subseteq identityDependency'[d]
    BY <1>5, <2>1 DEF Known
  <2>5. [src |-> x.src, at |-> x.at] \notin workCache
    BY <1>10 DEF HasWorkload
  <2>6. QED
    BY <1>1, <1>3, <1>4, <1>6, <1>7, <1>10, <2>1, <2>2, <2>3, <2>4, <2>5
<1>11. QED
  BY <1>8, <1>9, <1>10

LEMMA TakeJobHeard ==
    ASSUME TypeInv, RevsBounded, TasksFormed, WorldHeard, TakeJob
    PROVE  RevsBounded' /\ TasksFormed' /\ WorldHeard'
<1>1. PICK x \in JobItem :
             /\ UNCHANGED <<wanted, home, jobs, clock, phase, depQ, workQ, depCache, workCache,
                            entries, sourceToDestinations>>
             /\ \A i \in Identities : i # x.src => identityCluster'[i] = identityCluster[i]
             /\ identityCluster'[x.src] = identityCluster[x.src] \cup {x.at}
             /\ \A u \in Workers \ {"job"} : tasks'[u] = tasks[u]
             /\ \A d \in Servers : identityDependency[d] \subseteq identityDependency'[d]
             /\ \A s, c : JobQueued(s, c) => JobQueued(s, c)' \/ (s = x.src /\ c = x.at)
             /\ \/ tasks'["job"] = Idle
                \/ \E dep \in DepItem :
                     /\ dep.type = "Add" /\ dep.src = x.src /\ depCache[x.src] # Absent
                     /\ dep.dests = depCache[x.src].dests /\ dep.rev = depCache[x.src].rev
                     /\ tasks'["job"] = Begin("process", x, dep, {})
  BY TakeJobFacts
<1>2. x.src \in Clients /\ x.src \notin Servers
  BY DependencyAssumption DEF JobItem
<1>3. RevsBounded'
  BY <1>1 DEF RevsBounded, RecordOk
<1>4. TasksFormed'
  <2>1. \A u \in Workers \ {"job"} : tasks'[u] # Idle => Formed(u, tasks[u])'
    BY <1>1 DEF TasksFormed, Formed, RecordOk
  <2>2. tasks'["job"] # Idle => Formed("job", tasks["job"])'
    <3>1. CASE tasks'["job"] = Idle
      BY <3>1
    <3>2. ASSUME NEW dep \in DepItem, dep.type = "Add", dep.src = x.src, depCache[x.src] # Absent,
                 dep.dests = depCache[x.src].dests, dep.rev = depCache[x.src].rev,
                 tasks'["job"] = Begin("process", x, dep, {})
          PROVE  Formed("job", tasks["job"])'
      <4>1. tasks'["job"].dep = dep /\ tasks'["job"].item = x
        BY <3>2 DEF Begin
      <4>2. tasks'["job"].err = FALSE
        BY <3>2 DEF Begin
      <4>3. dep # Absent
        BY DependencyAssumption
      <4>4. RecordOk(dep)
        BY <1>2, <3>2 DEF RevsBounded, RecordOk
      <4>5. QED
        BY <1>1, <3>2, <4>1, <4>2, <4>3, <4>4 DEF Formed, RecordOk
    <3>3. QED
      BY <1>1, <3>1, <3>2
  <2>3. QED
    BY <2>1, <2>2 DEF TasksFormed
<1>5. WorldHeard'
  <2>1. \A i \in Identities : identityCluster[i] \subseteq identityCluster'[i]
    BY <1>1
  <2>2. \A s \in Clients, c \in Clusters :
          <<s, c>> \in jobs => c \in identityCluster'[s] \/ JobQueued(s, c)'
    BY <1>1, <2>1 DEF WorldHeard, Identities
  <2>3. \A e \in workCache : e.at \in identityCluster'[e.src]
    BY <2>1 DEF WorldHeard, TypeInv, TypeOK, AllWork
  <2>4. \A s \in Clients : depCache[s] # Absent =>
          \A d \in depCache[s].dests : s \in identityDependency'[d]
    BY <1>1 DEF WorldHeard, TypeInv, TypeOK, Record
  <2>5. phase = "warm" => \A d \in Servers : identityCluster'[d] # {} => Announced(d)
    BY <1>1, <1>2 DEF WorldHeard, Identities
  <2>6. \A i \in Identities : \A c \in home[i] :
          [src |-> i, at |-> c] \in workQ \/ c \in identityCluster'[i]
    BY <2>1 DEF WorldHeard
  <2>7. QED
    BY <1>1, <2>2, <2>3, <2>4, <2>5, <2>6 DEF WorldHeard, Announced
<1>6. QED
  BY <1>3, <1>4, <1>5

LEMMA TakeJobCovers ==
    ASSUME HeardInv, Covering, TakeJob, ~raced'
    PROVE  Covering'
<1>1. PICK x \in JobItem :
             /\ tasks["job"] = Idle /\ Starting
             /\ UNCHANGED <<wanted, home, jobs, clock, phase, depQ, workQ, depCache, workCache,
                            entries, sourceToDestinations>>
             /\ \A i \in Identities : i # x.src => identityCluster'[i] = identityCluster[i]
             /\ identityCluster'[x.src] = identityCluster[x.src] \cup {x.at}
             /\ \A u \in Workers \ {"job"} : tasks'[u] = tasks[u]
             /\ \A s, c : JobQueued(s, c) => JobQueued(s, c)' \/ (s = x.src /\ c = x.at)
             /\ \/ phase = "warm" /\ tasks'["job"] = Idle
                \/ /\ depCache[x.src] = Absent \/ [src |-> x.src, at |-> x.at] \in workCache
                   /\ tasks'["job"] = Idle
                \/ \E dep \in DepItem :
                     /\ dep.type = "Add" /\ dep.src = x.src /\ depCache[x.src] # Absent
                     /\ dep.dests = depCache[x.src].dests /\ dep.rev = depCache[x.src].rev
                     /\ [src |-> x.src, at |-> x.at] \notin workCache
                     /\ tasks'["job"] = Begin("process", x, dep, {})
  BY TakeJobFacts DEF HeardInv, ServedInv
<1>2. TypeInv /\ WorldHeard /\ RecordFollows /\ MissingIsServed /\ QueueInv
  BY DEF HeardInv, ServedInv, Covering
<1>3. /\ \A w \in Workers : tasks[w] = Idle
      /\ \A w \in Workers \ {"job"} : tasks'[w] = Idle
  BY <1>1, StartingAlone
<1>4. x.src \in Clients /\ x.src \notin Servers
  BY DependencyAssumption DEF JobItem
<1>5. tasks'["job"] # Idle =>
         /\ tasks'["job"].pc = "process" /\ tasks'["job"].item = x
         /\ tasks'["job"].dep.src = x.src /\ depCache[x.src] # Absent
         /\ tasks'["job"].dep.dests = depCache[x.src].dests
         /\ tasks'["job"].dep.rev = depCache[x.src].rev
         /\ [src |-> x.src, at |-> x.at] \notin workCache
  <2> SUFFICES ASSUME tasks'["job"] # Idle
               PROVE  /\ tasks'["job"].pc = "process" /\ tasks'["job"].item = x
                      /\ tasks'["job"].dep.src = x.src /\ depCache[x.src] # Absent
                      /\ tasks'["job"].dep.dests = depCache[x.src].dests
                      /\ tasks'["job"].dep.rev = depCache[x.src].rev
                      /\ [src |-> x.src, at |-> x.at] \notin workCache
    OBVIOUS
  <2>1. PICK dep \in DepItem :
                     /\ dep.type = "Add" /\ dep.src = x.src /\ depCache[x.src] # Absent
                     /\ dep.dests = depCache[x.src].dests /\ dep.rev = depCache[x.src].rev
                     /\ [src |-> x.src, at |-> x.at] \notin workCache
                     /\ tasks'["job"] = Begin("process", x, dep, {})
    BY <1>1
  <2>2. tasks'["job"].pc = "process" /\ tasks'["job"].item = x /\ tasks'["job"].dep = dep
    BY <2>1 DEF Begin
  <2>3. QED
    BY <2>1, <2>2
<1>6. QueueInv'
  BY <1>1, <1>2, <1>3, QueueSame DEF Workers
<1>7. Alone'
  BY <1>3 DEF Alone
<1>8. TasksHold'
  BY <1>1, <1>3, <1>5 DEF TasksHold, Holds
<1>9. TasksServe' /\ OverAll'
  BY <1>3, <1>5 DEF TasksServe, OverAll
<1>10. RecordFollows'
  <2>1. \A s : ~Redoes(s)
    BY <1>3 DEF Redoes, Workers
  <2>2. QED
    BY <1>1, <1>2, <2>1 DEF RecordFollows, Repeated
<1>11. MissingIsServed'
  <2> SUFFICES ASSUME NEW s \in Clients, depCache[s] # Absent, NEW c \in Clusters,
                      NEW d \in depCache[s].dests, Missing(s, c, d)'
               PROVE  ToCome(s, c, d)' \/ Underway(s, c, d)'
    BY <1>1 DEF MissingIsServed
  <2>1. /\ d \in Servers /\ d \in Identities /\ s \in Identities
    BY <1>2 DEF TypeInv, TypeOK, Record, Identities
  <2>2. identityCluster'[d] = identityCluster[d] /\ identityCluster[d] # {}
    BY <1>1, <1>4, <2>1 DEF Missing
  <2>3. \A t, e : ~Underway(t, e, d)
    BY <1>3 DEF Underway
  <2>4. c \in identityCluster[s] => ToCome(s, c, d)
    BY <1>1, <1>2, <2>2, <2>3 DEF MissingIsServed, Missing
  <2>5. /\ Repeats(s, d)' <=> Repeats(s, d)
        /\ Announced(d)' <=> Announced(d)
    BY <1>1 DEF Repeats, Repeated, IsLatest, Announced
  <2>6. CASE ~(s = x.src /\ c = x.at)
    <3>1. c \in identityCluster[s]
      BY <1>1, <2>1, <2>6 DEF Missing
    <3>2. QED
      BY <1>1, <2>4, <2>5, <2>6, <3>1 DEF ToCome
  <2>7. CASE s = x.src /\ c = x.at /\ phase = "warm"
    BY <1>2, <2>1, <2>2, <2>5, <2>7 DEF WorldHeard, ToCome
  <2>8. CASE s = x.src /\ c = x.at /\ [src |-> s, at |-> c] \in workCache
    <3>1. PICK e : e \in workCache /\ e.src = s /\ e.at = c
      BY <2>8
    <3>2. c \in identityCluster[s]
      BY <1>2, <3>1 DEF WorldHeard
    <3>3. QED
      BY <1>1, <2>4, <2>5, <2>8, <3>2 DEF ToCome
  <2>9. CASE s = x.src /\ c = x.at /\ tasks'["job"] # Idle
    <3>1. Owns("job", tasks["job"], s, c, d)'
      BY <1>1, <1>5, <2>9 DEF Owns
    <3>2. QED
      BY <1>5, <2>9, <3>1 DEF Underway, Workers
  <2>10. tasks'["job"] # Idle \/ phase = "warm" \/ [src |-> x.src, at |-> x.at] \in workCache
         \/ s # x.src
    <3>1. \A dep : Begin("process", x, dep, {}) # Idle
      BY DEF Begin, Idle
    <3>2. QED
      BY <1>1, <3>1
  <2>11. QED
    BY <2>6, <2>7, <2>8, <2>9, <2>10
<1>12. QED
  BY <1>6, <1>7, <1>8, <1>9, <1>10, <1>11 DEF Covering

-----------------------------------------------------------------------------
(* Taking up an event of a workload                                        *)

LEMMA TakeWorkloadFacts ==
    ASSUME TypeInv, TakeWorkload
    PROVE  \E e \in AllWork :
             /\ tasks["workload"] = Idle /\ Starting /\ phase # "warm"
             /\ e \in workQ /\ workQ' = workQ \ {e} /\ workCache' = workCache \cup {e}
             /\ UNCHANGED <<wanted, home, jobs, clock, phase, depQ, jobQ, depCache,
                            identityDependency, entries, sourceToDestinations>>
             /\ \A i \in Identities : i # e.src => identityCluster'[i] = identityCluster[i]
             /\ identityCluster'[e.src] = identityCluster[e.src] \cup {e.at}
             /\ \A u \in Workers \ {"workload"} : tasks'[u] = tasks[u]
             /\ tasks'["workload"] # Idle /\ tasks'["workload"].pc = "loop"
             /\ tasks'["workload"].item = e /\ tasks'["workload"].dep = Absent
             /\ tasks'["workload"].over = {}
             /\ tasks'["workload"].todo = IF e.src \in Servers THEN {e.src} ELSE ClientTodo(e.src, e.at)
             /\ ~skipped' /\ e.src \in Clients /\ phase # "ready" =>
                   ~Unserved(sourceToDestinations[e.src], {e.at})
<1>1. PICK e \in workQ :
         /\ workQ' = workQ \ {e} /\ workCache' = workCache \cup {e}
         /\ identityCluster' = [identityCluster EXCEPT ![e.src] = @ \cup {e.at}]
         /\ tasks' = [tasks EXCEPT !["workload"] = Begin("loop", e, Absent,
                         IF e.src \in Servers THEN {e.src} ELSE ClientTodo(e.src, e.at))]
         /\ skipped' = (skipped \/ (e.src \in Clients /\ phase # "ready"
                             /\ Unserved(sourceToDestinations[e.src], {e.at})))
  BY DEF TakeWorkload
<1>2. /\ tasks["workload"] = Idle /\ Starting /\ phase # "warm"
      /\ UNCHANGED <<wanted, home, jobs, clock, phase, depQ, jobQ, depCache,
                     identityDependency, entries, sourceToDestinations>>
  BY DEF TakeWorkload, world
<1>3. PICK todo : todo = IF e.src \in Servers THEN {e.src} ELSE ClientTodo(e.src, e.at)
  OBVIOUS
<1>4. /\ tasks \in [Workers -> Tasks] /\ identityCluster \in [Identities -> SUBSET Clusters]
      /\ e \in AllWork /\ e.src \in Identities
  BY DEF TypeInv, TypeOK, Tasks, AllWork
<1>5. PICK t : t = Begin("loop", e, Absent, todo)
  OBVIOUS
<1>6. tasks'["workload"] = t /\ \A u \in Workers \ {"workload"} : tasks'[u] = tasks[u]
  BY <1>1, <1>3, <1>4, <1>5 DEF Workers
<1>7. /\ t # Idle /\ t.pc = "loop" /\ t.item = e /\ t.dep = Absent /\ t.over = {} /\ t.todo = todo
  BY <1>5 DEF Begin, Idle
<1>8. /\ \A i \in Identities : i # e.src => identityCluster'[i] = identityCluster[i]
      /\ identityCluster'[e.src] = identityCluster[e.src] \cup {e.at}
  BY <1>1, <1>4
<1>9. ~skipped' /\ e.src \in Clients /\ phase # "ready" =>
         ~Unserved(sourceToDestinations[e.src], {e.at})
  BY <1>1, Zenon
<1>10. QED
  BY <1>1, <1>2, <1>3, <1>4, <1>6, <1>7, <1>8, <1>9

LEMMA TakeWorkloadHeard ==
    ASSUME TypeInv, RevsBounded, TasksFormed, WorldHeard, TakeWorkload
    PROVE  RevsBounded' /\ TasksFormed' /\ WorldHeard'
<1>1. PICK e \in AllWork :
             /\ phase # "warm"
             /\ e \in workQ /\ workQ' = workQ \ {e} /\ workCache' = workCache \cup {e}
             /\ UNCHANGED <<wanted, home, jobs, clock, phase, depQ, jobQ, depCache,
                            identityDependency, entries, sourceToDestinations>>
             /\ \A i \in Identities : i # e.src => identityCluster'[i] = identityCluster[i]
             /\ identityCluster'[e.src] = identityCluster[e.src] \cup {e.at}
             /\ \A u \in Workers \ {"workload"} : tasks'[u] = tasks[u]
             /\ tasks'["workload"] # Idle /\ tasks'["workload"].pc = "loop"
             /\ tasks'["workload"].dep = Absent /\ tasks'["workload"].over = {}
  BY TakeWorkloadFacts
<1>2. RevsBounded'
  BY <1>1 DEF RevsBounded, RecordOk
<1>3. TasksFormed'
  <2>1. \A u \in Workers \ {"workload"} : tasks'[u] # Idle => Formed(u, tasks[u])'
    BY <1>1 DEF TasksFormed, Formed, RecordOk
  <2>2. Formed("workload", tasks["workload"])'
    BY <1>1 DEF Formed
  <2>3. QED
    BY <2>1, <2>2 DEF TasksFormed
<1>4. WorldHeard'
  <2>1. \A i \in Identities : identityCluster[i] \subseteq identityCluster'[i]
    BY <1>1
  <2>2. \A f \in workCache' : f.at \in identityCluster'[f.src]
    BY <1>1, <2>1 DEF WorldHeard, TypeInv, TypeOK, AllWork
  <2>3. \A i \in Identities : \A c \in home[i] :
          [src |-> i, at |-> c] \in workQ' \/ c \in identityCluster'[i]
    <3> SUFFICES ASSUME NEW i \in Identities, NEW c \in home[i], [src |-> i, at |-> c] \notin workQ'
                 PROVE  c \in identityCluster'[i]
      OBVIOUS
    <3>1. CASE [src |-> i, at |-> c] \in workQ
      <4>1. [src |-> i, at |-> c] = e
        BY <1>1, <3>1
      <4>2. e.src = i /\ e.at = c
        BY <4>1
      <4>3. QED
        BY <1>1, <4>2
    <3>2. CASE [src |-> i, at |-> c] \notin workQ
      BY <2>1, <3>2 DEF WorldHeard
    <3>3. QED
      BY <3>1, <3>2
  <2>4. \A s \in Clients, c \in Clusters :
          <<s, c>> \in jobs => c \in identityCluster'[s] \/ JobQueued(s, c)'
    BY <1>1, <2>1 DEF WorldHeard, JobQueued, Identities
  <2>5. QED
    BY <1>1, <2>2, <2>3, <2>4 DEF WorldHeard
<1>5. QED
  BY <1>2, <1>3, <1>4

LEMMA TakeWorkloadCovers ==
    ASSUME ClientInitiated, HeardInv, Covering, TakeWorkload, ~raced', ~skipped', ~dropped'
    PROVE  Covering'
<1>1. PICK e \in AllWork :
             /\ tasks["workload"] = Idle /\ Starting /\ phase # "warm"
             /\ e \in workQ /\ workQ' = workQ \ {e} /\ workCache' = workCache \cup {e}
             /\ UNCHANGED <<wanted, home, jobs, clock, phase, depQ, jobQ, depCache,
                            identityDependency, entries, sourceToDestinations>>
             /\ \A i \in Identities : i # e.src => identityCluster'[i] = identityCluster[i]
             /\ identityCluster'[e.src] = identityCluster[e.src] \cup {e.at}
             /\ \A u \in Workers \ {"workload"} : tasks'[u] = tasks[u]
             /\ tasks'["workload"] # Idle /\ tasks'["workload"].pc = "loop"
             /\ tasks'["workload"].item = e
             /\ tasks'["workload"].todo = IF e.src \in Servers THEN {e.src} ELSE ClientTodo(e.src, e.at)
             /\ e.src \in Clients /\ phase # "ready" =>
                   ~Unserved(sourceToDestinations[e.src], {e.at})
  BY TakeWorkloadFacts DEF HeardInv, ServedInv
<1>2. /\ TypeInv /\ WorldHeard /\ RecordFollows /\ MissingIsServed /\ QueueInv /\ ServedIsWritten
  BY DEF HeardInv, ServedInv, Covering, TakeWorkload
<1>3. /\ \A w \in Workers : tasks[w] = Idle
      /\ \A w \in Workers \ {"workload"} : tasks'[w] = Idle
  BY <1>1, StartingAlone
<1>4. QueueInv'
  BY <1>1, <1>2, <1>3, QueueSame DEF Workers
<1>5. Alone' /\ TasksHold' /\ TasksServe' /\ OverAll'
  BY <1>3 DEF Alone, TasksHold, TasksServe, OverAll
<1>6. \A s : ~Redoes(s)
  BY <1>3 DEF Redoes, Workers
<1>7. RecordFollows'
  BY <1>1, <1>2, <1>6 DEF RecordFollows, Repeated
<1>8. MissingIsServed'
  <2> SUFFICES ASSUME NEW s \in Clients, depCache[s] # Absent, NEW c \in Clusters,
                      NEW d \in depCache[s].dests, Missing(s, c, d)'
               PROVE  ToCome(s, c, d)' \/ Underway(s, c, d)'
    BY <1>1 DEF MissingIsServed
  <2>1. /\ d \in Servers /\ d \in Identities /\ s \in Identities /\ s \notin Servers /\ s # d
    BY <1>2, DependencyAssumption DEF TypeInv, TypeOK, Record, Identities
  <2>2. \A i : Repeated(i, s)' <=> Repeated(i, s)
    BY <1>1 DEF Repeated
  <2>3. Repeats(s, d)' <=> Repeats(s, d)
    BY <1>1 DEF Repeats, Repeated, IsLatest
  <2>4. ASSUME Owns("workload", tasks["workload"], s, c, d)', d \in tasks'["workload"].todo
        PROVE  Underway(s, c, d)'
    <3>1. Writing(tasks["workload"], c, d)'
      BY <1>1, <2>4 DEF Writing
    <3>2. QED
      BY <1>1, <2>4, <3>1 DEF Underway, Workers
  <2>5. CASE e.src = d
    <3>1. Owns("workload", tasks["workload"], s, c, d)'
      BY <1>1, <2>5 DEF Owns
    <3>2. QED
      BY <1>1, <2>1, <2>4, <2>5, <3>1
  <2>6. CASE e = [src |-> s, at |-> c]
    <3>1. /\ e.src = s /\ e.at = c /\ identityCluster[d] # {} /\ <<c, d>> \notin entries
      BY <1>1, <2>1, <2>6 DEF Missing
    <3>2. CASE d \in sourceToDestinations[s] /\ phase = "ready"
      <4>1. <<c, s, d>> \notin served
        BY <1>2, <3>1 DEF ServedIsWritten
      <4>2. d \in ClientTodo(s, c)
        BY <3>1, <3>2, <4>1 DEF ClientTodo, ClientDestinations
      <4>3. d \in tasks'["workload"].todo
        BY <1>1, <2>1, <3>1, <4>2
      <4>4. Owns("workload", tasks["workload"], s, c, d)'
        BY <1>1, <2>6, <3>2 DEF Owns
      <4>5. QED
        BY <2>4, <4>3, <4>4
    <3>3. CASE d \in sourceToDestinations[s] /\ phase # "ready"
      <4>1. PICK f \in workQ : f.src = d
        BY <1>1, <3>1, <3>3 DEF Unserved
      <4>2. f \in workQ'
        BY <1>1, <2>1, <3>1, <4>1
      <4>3. QED
        BY <4>1, <4>2 DEF ToCome, Announced
    <3>4. CASE d \notin sourceToDestinations[s]
      <4>1. \E i \in DOMAIN depQ : Repeated(i, s)
        BY <1>2, <1>6, <3>4 DEF RecordFollows
      <4>2. Repeats(s, d)
        BY <3>4, <4>1 DEF Repeats
      <4>3. QED
        BY <2>3, <4>2 DEF ToCome
    <3>5. QED
      BY <3>2, <3>3, <3>4
  <2>7. CASE e.src # d /\ e # [src |-> s, at |-> c]
    <3>1. ~(e.src = s /\ e.at = c)
      BY <2>7 DEF AllWork
    <3>2. Missing(s, c, d)
      BY <1>1, <2>1, <2>7, <3>1 DEF Missing
    <3>3. ~Underway(s, c, d)
      BY <1>3 DEF Underway
    <3>4. ToCome(s, c, d)
      BY <1>2, <3>2, <3>3 DEF MissingIsServed
    <3>5. Announced(d) => Announced(d)'
      BY <1>1, <2>7 DEF Announced
    <3>6. JobQueued(s, c)' <=> JobQueued(s, c)
      BY <1>1 DEF JobQueued
    <3>7. QED
      BY <1>1, <2>3, <2>7, <3>4, <3>5, <3>6 DEF ToCome
  <2>8. QED
    BY <2>5, <2>6, <2>7
<1>9. QED
  BY <1>4, <1>5, <1>7, <1>8 DEF Covering

LEMMA RegisterFacts ==
    ASSUME TypeInv, RegisterWorkload
    PROVE  \E e \in AllWork :
             /\ phase = "warm" /\ e \in workQ /\ workCache' = workCache \cup {e}
             /\ UNCHANGED <<wanted, home, jobs, clock, phase, depQ, workQ, jobQ, depCache,
                            identityDependency, entries, sourceToDestinations, tasks>>
             /\ \A i \in Identities : i # e.src => identityCluster'[i] = identityCluster[i]
             /\ identityCluster'[e.src] = identityCluster[e.src] \cup {e.at}
<1>1. PICK e \in workQ :
         /\ workCache' = workCache \cup {e}
         /\ identityCluster' = [identityCluster EXCEPT ![e.src] = @ \cup {e.at}]
  BY DEF RegisterWorkload
<1>2. /\ phase = "warm"
      /\ UNCHANGED <<wanted, home, jobs, clock, phase, depQ, workQ, jobQ, depCache,
                     identityDependency, entries, sourceToDestinations, tasks>>
  BY DEF RegisterWorkload, world, queues
<1>3. /\ identityCluster \in [Identities -> SUBSET Clusters]
      /\ e \in AllWork /\ e.src \in Identities
  BY DEF TypeInv, TypeOK, AllWork
<1>4. QED
  BY <1>1, <1>2, <1>3

LEMMA RegisterHeard ==
    ASSUME TypeInv, RevsBounded, TasksFormed, WorldHeard, RegisterWorkload
    PROVE  RevsBounded' /\ TasksFormed' /\ WorldHeard'
<1>1. PICK e \in AllWork :
             /\ phase = "warm" /\ e \in workQ /\ workCache' = workCache \cup {e}
             /\ UNCHANGED <<wanted, home, jobs, clock, phase, depQ, workQ, jobQ, depCache,
                            identityDependency, entries, sourceToDestinations, tasks>>
             /\ \A i \in Identities : i # e.src => identityCluster'[i] = identityCluster[i]
             /\ identityCluster'[e.src] = identityCluster[e.src] \cup {e.at}
  BY RegisterFacts
<1>2. RevsBounded' /\ TasksFormed'
  BY <1>1 DEF RevsBounded, RecordOk, TasksFormed, Formed
<1>3. WorldHeard'
  <2>1. \A i \in Identities : identityCluster[i] \subseteq identityCluster'[i]
    BY <1>1
  <2>2. \A f \in workCache' : f.at \in identityCluster'[f.src]
    BY <1>1, <2>1 DEF WorldHeard, TypeInv, TypeOK, AllWork
  <2>3. \A d \in Servers : identityCluster'[d] # {} => Announced(d)
    BY <1>1 DEF WorldHeard, Announced, Identities
  <2>4. \A s \in Clients, c \in Clusters :
          <<s, c>> \in jobs => c \in identityCluster'[s] \/ JobQueued(s, c)'
    BY <1>1, <2>1 DEF WorldHeard, JobQueued, Identities
  <2>5. \A i \in Identities : \A c \in home[i] :
          [src |-> i, at |-> c] \in workQ \/ c \in identityCluster'[i]
    BY <2>1 DEF WorldHeard
  <2>6. QED
    BY <1>1, <2>2, <2>3, <2>4, <2>5 DEF WorldHeard, Announced
<1>4. QED
  BY <1>2, <1>3

LEMMA RegisterCovers ==
    ASSUME HeardInv, Covering, RegisterWorkload
    PROVE  Covering'
<1>1. PICK e \in AllWork :
             /\ phase = "warm" /\ workCache' = workCache \cup {e}
             /\ UNCHANGED <<wanted, home, jobs, clock, phase, depQ, workQ, jobQ, depCache,
                            identityDependency, entries, sourceToDestinations, tasks>>
  BY RegisterFacts DEF HeardInv, ServedInv
<1>2. TypeInv /\ WorldHeard'
  BY RegisterHeard DEF HeardInv, ServedInv
<1>3. /\ \A d \in Servers : identityCluster'[d] # {} => Announced(d)'
  BY <1>1, <1>2 DEF WorldHeard
<1>4. Alone' /\ TasksHold'
  BY <1>1 DEF Covering, Alone, TasksHold, Holds
<1>5. QueueInv'
  BY <1>1, QueueSame DEF Covering
<1>6. RecordFollows'
  BY <1>1 DEF Covering, RecordFollows, Repeated, Redoes
<1>7. MissingIsServed'
  <2>1. \A s \in Clients : depCache'[s] # Absent => depCache'[s].dests \subseteq Servers
    BY <1>1, <1>2 DEF TypeInv, TypeOK, Record
  <2>2. QED
    BY <1>3, <2>1 DEF MissingIsServed, ToCome, Missing
<1>8. TasksServe'
  BY <1>3 DEF TasksServe, Missing
<1>9. OverAll'
  BY <1>1 DEF Covering, OverAll
<1>10. QED
  BY <1>4, <1>5, <1>6, <1>7, <1>8, <1>9 DEF Covering

-----------------------------------------------------------------------------
(* What goes on around the workers                                         *)

LEMMA WarmedUpHeard ==
    ASSUME RevsBounded, TasksFormed, WorldHeard, WarmedUp
    PROVE  RevsBounded' /\ TasksFormed' /\ WorldHeard'
<1>1. /\ phase' # "warm"
      /\ UNCHANGED <<wanted, home, jobs, clock, depQ, workQ, jobQ, depCache, workCache,
                     identityDependency, identityCluster, tasks>>
  BY DEF WarmedUp, world, queues, caches
<1>2. RevsBounded' /\ TasksFormed'
  BY <1>1 DEF RevsBounded, RecordOk, TasksFormed, Formed
<1>3. WorldHeard'
  BY <1>1 DEF WorldHeard, JobQueued
<1>4. QED
  BY <1>2, <1>3

\* A step that leaves the caches, the tasks and the Dependency events alone, and takes no event away
LEMMA WiderCovers ==
    ASSUME Covering,
           UNCHANGED <<wanted, depQ, depCache, workCache, identityCluster, entries,
                       sourceToDestinations, tasks>>,
           phase = "ready" => phase' = "ready",
           workQ \subseteq workQ', \A s, c : JobQueued(s, c) => JobQueued(s, c)'
    PROVE  Covering'
<1>1. \A d : Announced(d) => Announced(d)'
  BY DEF Announced
<1>2. /\ \A s, d : Repeats(s, d)' <=> Repeats(s, d)
      /\ \A s, c, d : Missing(s, c, d)' <=> Missing(s, c, d)
      /\ \A s, c, d : Underway(s, c, d)' <=> Underway(s, c, d)
  <2>1. \A s, d : Repeats(s, d)' <=> Repeats(s, d)
    BY DEF Repeats, Repeated, IsLatest
  <2>2. \A s, c, d : Missing(s, c, d)' <=> Missing(s, c, d)
    BY DEF Missing
  <2>3. \A s, c, d : Underway(s, c, d)' <=> Underway(s, c, d)
    <3>1. \A w, s, c, d : /\ Owns(w, tasks[w], s, c, d)' <=> Owns(w, tasks[w], s, c, d)
                          /\ Writing(tasks[w], c, d)' <=> Writing(tasks[w], c, d)
      BY DEF Owns, Serves, Writing
    <3>2. QED
      BY <3>1 DEF Underway
  <2>4. QED
    BY <2>1, <2>2, <2>3
<1>3. Alone' /\ TasksHold'
  BY DEF Covering, Alone, TasksHold, Holds
<1>4. QueueInv'
  BY QueueSame DEF Covering
<1>5. RecordFollows'
  BY DEF Covering, RecordFollows, Repeated, Redoes
<1>6. MissingIsServed'
  <2>1. \A s, c, d : ToCome(s, c, d) => ToCome(s, c, d)'
    BY <1>1, <1>2 DEF ToCome
  <2>2. QED
    BY <1>2, <2>1 DEF Covering, MissingIsServed
<1>7. TasksServe'
  <2>1. \A w, c, d : /\ Serves(tasks[w], d)' <=> Serves(tasks[w], d)
                     /\ Writing(tasks[w], c, d)' <=> Writing(tasks[w], c, d)
    BY DEF Serves, Writing
  <2>2. QED
    BY <1>1, <1>2, <2>1 DEF Covering, TasksServe
<1>8. OverAll'
  BY DEF Covering, OverAll
<1>9. QED
  BY <1>3, <1>4, <1>5, <1>6, <1>7, <1>8 DEF Covering

LEMMA WarmedUpCovers ==
    ASSUME Covering, WarmedUp
    PROVE  Covering'
<1>1. /\ phase # "ready"
      /\ UNCHANGED <<wanted, depQ, workQ, jobQ, depCache, workCache, identityCluster, entries,
                     sourceToDestinations, tasks>>
  BY DEF WarmedUp, world, queues, caches
<1>2. \A s, c : JobQueued(s, c) => JobQueued(s, c)'
  BY <1>1 DEF JobQueued
<1>3. QED
  BY <1>1, <1>2, WiderCovers

LEMMA DeployCovers ==
    ASSUME TypeInv, RevsBounded, TasksFormed, WorldHeard,
           NEW i \in Identities, NEW c \in Clusters, Deploy(i, c)
    PROVE  RevsBounded' /\ TasksFormed' /\ WorldHeard' /\ (Covering => Covering')
<1>1. /\ home' = [home EXCEPT ![i] = @ \cup {c}] /\ workQ' = workQ \cup {[src |-> i, at |-> c]}
      /\ UNCHANGED <<wanted, jobs, clock, entries, phase, depQ, jobQ, depCache, workCache,
                     identityDependency, identityCluster, sourceToDestinations, tasks>>
  BY DEF Deploy, caches
<1>2. \A s, k : JobQueued(s, k)' <=> JobQueued(s, k)
  BY <1>1 DEF JobQueued
<1>3. RevsBounded' /\ TasksFormed'
  BY <1>1 DEF RevsBounded, RecordOk, TasksFormed, Formed
<1>4. WorldHeard'
  <2>1. \A j \in Identities : home'[j] = IF j = i THEN home[j] \cup {c} ELSE home[j]
    BY <1>1 DEF TypeInv, TypeOK
  <2>2. \A j \in Identities : \A k \in home'[j] :
          [src |-> j, at |-> k] \in workQ' \/ k \in identityCluster[j]
    <3> SUFFICES ASSUME NEW j \in Identities, NEW k \in home'[j]
                 PROVE  [src |-> j, at |-> k] \in workQ' \/ k \in identityCluster[j]
      OBVIOUS
    <3>1. CASE k \in home[j]
      BY <1>1, <3>1 DEF WorldHeard
    <3>2. CASE k \notin home[j]
      <4>1. j = i /\ k = c
        BY <2>1, <3>2
      <4>2. QED
        BY <1>1, <4>1
    <3>3. QED
      BY <3>1, <3>2
  <2>3. \A d : Announced(d) => Announced(d)'
    BY <1>1 DEF Announced
  <2>4. QED
    BY <1>1, <1>2, <2>2, <2>3 DEF WorldHeard
<1>5. Covering => Covering'
  BY <1>1, <1>2, WiderCovers
<1>6. QED
  BY <1>3, <1>4, <1>5

LEMMA StartJobCovers ==
    ASSUME TypeInv, RevsBounded, TasksFormed, WorldHeard,
           NEW s \in Clients, NEW c \in Clusters, StartJob(s, c)
    PROVE  RevsBounded' /\ TasksFormed' /\ WorldHeard' /\ (Covering => Covering')
<1>1. PICK x \in JobItem :
         /\ x.src = s /\ x.at = c /\ jobs' = jobs \cup {<<s, c>>} /\ jobQ' = Append(jobQ, x)
         /\ UNCHANGED <<wanted, home, clock, entries, phase, depQ, workQ, depCache, workCache,
                        identityDependency, identityCluster, sourceToDestinations, tasks>>
  <2>1. PICK x : x = [src |-> s, at |-> c, tries |-> 0]
    OBVIOUS
  <2>2. x \in JobItem /\ x.src = s /\ x.at = c
    BY <2>1 DEF JobItem
  <2>3. QED
    BY <2>1, <2>2 DEF StartJob, caches
<1>2. /\ \A r, k : JobQueued(r, k) => JobQueued(r, k)'
      /\ JobQueued(s, c)'
  BY <1>1, JobAppend
<1>3. RevsBounded' /\ TasksFormed'
  BY <1>1 DEF RevsBounded, RecordOk, TasksFormed, Formed
<1>4. WorldHeard'
  <2>1. \A r \in Clients, k \in Clusters :
          <<r, k>> \in jobs' => k \in identityCluster[r] \/ JobQueued(r, k)'
    BY <1>1, <1>2 DEF WorldHeard
  <2>2. QED
    BY <1>1, <2>1 DEF WorldHeard, Announced
<1>5. Covering => Covering'
  BY <1>1, <1>2, WiderCovers
<1>6. QED
  BY <1>3, <1>4, <1>5

\* A new event of a client outdates those before it
LEMMA QueueEmits ==
    ASSUME TypeInv, RevsBounded, TasksFormed, QueueInv,
           NEW x \in DepItem, depQ' = Append(depQ, x), x.tries = 0,
           UNCHANGED <<depCache, tasks>>,
           \A s \in Clients : s # x.src => wanted'[s] = wanted[s],
           Says(x)', x.type = "Update" => wanted[x.src] # Absent,
           \A item : item.src = x.src /\ item.type # "Delete" /\ item.rev <= clock =>
                        ~IsLatest(item)'
    PROVE  QueueInv'
<1>1. PICK n \in Nat :
         /\ DOMAIN depQ' = DOMAIN depQ \cup {n} /\ depQ'[n] = x /\ n \notin DOMAIN depQ
         /\ \A i \in DOMAIN depQ : i \in Nat /\ i < n /\ depQ'[i] = depQ[i]
  <2> DEFINE m == Len(depQ) + 1
  <2>1. /\ m \in Nat /\ DOMAIN depQ' = DOMAIN depQ \cup {m} /\ depQ'[m] = x /\ m \notin DOMAIN depQ
        /\ \A i \in DOMAIN depQ : i \in Nat /\ i < m /\ depQ'[i] = depQ[i]
    BY QueueAppend DEF TypeInv, TypeOK
  <2> HIDE DEF m
  <2>2. QED
    BY <2>1
<1>2. /\ \A item : item.src \in Clients /\ item.src # x.src =>
            (IsLatest(item)' <=> IsLatest(item)) /\ (Says(item)' <=> Says(item))
      /\ \A item : Holds(item)' <=> Holds(item)
  BY DEF IsLatest, Says, Holds
<1>3. /\ \A i \in DOMAIN depQ : \A s : Fresh(i, s)' <=> Fresh(i, s)
      /\ \A s : Fresh(n, s)' <=> s = x.src
  BY <1>1 DEF Fresh
<1>4. \A i \in DOMAIN depQ : /\ depQ[i] \in DepItem /\ depQ[i].src \in Clients
                             /\ depQ[i].tries \in Nat /\ depQ[i] # Absent
  <2>1. \A i \in DOMAIN depQ : depQ[i] \in DepItem
    BY DEF TypeInv, TypeOK
  <2>2. \A y \in DepItem : y.src \in Clients /\ y.tries \in Nat /\ y # Absent
    BY DependencyAssumption DEF DepItem
  <2>3. QED
    BY <2>1, <2>2
<1>5. \A i \in DOMAIN depQ : depQ[i].src = x.src /\ depQ[i].type # "Delete" => ~IsLatest(depQ[i])'
  <2> SUFFICES ASSUME NEW i \in DOMAIN depQ, depQ[i].src = x.src, depQ[i].type # "Delete"
               PROVE  ~IsLatest(depQ[i])'
    OBVIOUS
  <2>1. PICK y : y = depQ[i] /\ y = depQ'[i]
    BY <1>1
  <2>2. y.rev <= clock
    BY <1>4, <2>1 DEF RevsBounded, RecordOk
  <2>3. ~IsLatest(y)'
    BY <2>1, <2>2
  <2>4. QED
    BY <2>1, <2>3
<1>6. x.src \in Clients
  BY DEF DepItem
<1>7. LastIsWanted'
  <2>1. ASSUME NEW s \in Clients, NEW i \in DOMAIN depQ', Fresh(i, s)',
               \A j \in DOMAIN depQ' : j > i => ~Fresh(j, s)'
        PROVE  Says(depQ[i])'
    <3>1. CASE i = n
      BY <1>1, <3>1
    <3>2. CASE i # n
      <4>1. i \in DOMAIN depQ /\ n > i /\ n \in DOMAIN depQ'
        BY <1>1, <3>2
      <4>2. ~Fresh(n, s)'
        BY <2>1, <4>1
      <4>3. s # x.src
        BY <1>3, <4>2
      <4>4. Fresh(i, s) /\ \A j \in DOMAIN depQ : j > i => ~Fresh(j, s)
        BY <1>1, <1>3, <2>1, <4>1
      <4>5. Says(depQ[i]) /\ depQ[i].src = s
        BY <4>1, <4>4 DEF QueueInv, LastIsWanted, Fresh
      <4>6. PICK y : y = depQ[i] /\ y = depQ'[i]
        BY <1>1, <4>1
      <4>7. Says(y)'
        BY <1>2, <4>3, <4>5, <4>6
      <4>8. QED
        BY <4>6, <4>7
    <3>3. QED
      BY <3>1, <3>2
  <2>2. ASSUME NEW s \in Clients, \A i \in DOMAIN depQ' : ~Fresh(i, s)'
        PROVE  depCache'[s] = wanted'[s]
    <3>1. s # x.src /\ \A i \in DOMAIN depQ : ~Fresh(i, s)
      BY <1>1, <1>3, <2>2
    <3>2. depCache[s] = wanted[s]
      BY <3>1 DEF QueueInv, LastIsWanted
    <3>3. QED
      BY <3>1, <3>2
  <2>3. QED
    BY <2>1, <2>2 DEF LastIsWanted
<1>8. LatestIsLast'
  <2>1. ASSUME NEW i \in DOMAIN depQ', NEW j \in DOMAIN depQ', depQ'[i].type # "Delete",
               IsLatest(depQ[i])', depQ'[j].tries = 0, depQ'[j].src = depQ'[i].src
        PROVE  depQ'[i].tries = 0 /\ j <= i
    <3>1. CASE i = n
      BY <1>1, <3>1
    <3>2. CASE i # n
      <4>1. i \in DOMAIN depQ /\ depQ'[i] = depQ[i]
        BY <1>1, <3>2
      <4>2. depQ[i].src # x.src
        BY <1>5, <2>1, <4>1
      <4>3. j \in DOMAIN depQ /\ Fresh(j, depQ[i].src)
        BY <1>1, <2>1, <4>1, <4>2 DEF Fresh
      <4>4. PICK y : y = depQ[i] /\ y = depQ'[i]
        BY <4>1
      <4>5. IsLatest(y)'
        BY <2>1, <4>4
      <4>6. IsLatest(depQ[i])
        BY <1>2, <1>4, <4>1, <4>2, <4>4, <4>5
      <4>7. QED
        BY <2>1, <4>1, <4>3, <4>6 DEF QueueInv, LatestIsLast
    <3>3. QED
      BY <3>1, <3>2
  <2>2. ASSUME tasks["dependency"] # Idle, IsLatest(tasks["dependency"].item)',
               NEW j \in DOMAIN depQ', Fresh(j, tasks["dependency"].item.src)'
        PROVE  FALSE
    <3>1. PICK y : y = tasks["dependency"].item /\ y = tasks'["dependency"].item
      OBVIOUS
    <3>2. IsLatest(y)' /\ Fresh(j, y.src)'
      BY <2>2, <3>1
    <3>3. y \in DepItem /\ y # Absent /\ y.type # "Delete" /\ y.rev <= clock /\ y.src \in Clients
      <4>1. Formed("dependency", tasks["dependency"]) /\ y \in DepItem
        BY <2>2, <3>1 DEF TasksFormed, TypeInv, WellFormed, Shape, Workers
      <4>2. QED
        BY <3>1, <4>1, DependencyAssumption DEF Formed, RecordOk, DepItem
    <3>4. y.src # x.src
      BY <3>2, <3>3
    <3>5. IsLatest(y)
      BY <1>2, <3>2, <3>3, <3>4
    <3>6. j \in DOMAIN depQ /\ Fresh(j, y.src)
      BY <1>1, <1>3, <3>2, <3>4
    <3>7. QED
      BY <2>2, <3>1, <3>5, <3>6 DEF QueueInv, LatestIsLast
  <2>3. QED
    BY <2>1, <2>2 DEF LatestIsLast, Fresh
<1>9. RepeatedIsCached'
  <2>1. ASSUME NEW i \in DOMAIN depQ', depQ'[i].tries > 0, IsLatest(depQ[i])'
        PROVE  Holds(depQ[i])'
    <3>1. i \in DOMAIN depQ /\ depQ'[i] = depQ[i]
      BY <1>1, <2>1
    <3>2. depQ[i].type # "Delete"
      BY <2>1, <3>1 DEF RevsBounded
    <3>3. depQ[i].src # x.src
      BY <1>5, <2>1, <3>1, <3>2
    <3>4. PICK y : y = depQ[i] /\ y = depQ'[i]
      BY <3>1
    <3>5. IsLatest(y)
      BY <1>2, <1>4, <2>1, <3>1, <3>3, <3>4
    <3>6. Holds(y)
      BY <2>1, <3>1, <3>4, <3>5 DEF QueueInv, RepeatedIsCached
    <3>7. QED
      BY <1>2, <3>4, <3>6
  <2>2. QED
    BY <2>1 DEF RepeatedIsCached
<1>10. UpdateFollows'
  <2>1. ASSUME NEW s \in Clients, NEW i \in DOMAIN depQ', Fresh(i, s)', depQ'[i].type = "Update"
        PROVE  /\ \A j \in DOMAIN depQ' : j < i /\ Fresh(j, s)' /\ depQ'[j].type = "Delete" =>
                     \E k \in DOMAIN depQ' : j < k /\ k < i /\ Fresh(k, s)'
               /\ (\A j \in DOMAIN depQ' : j < i => ~Fresh(j, s)') => depCache'[s] # Absent
    <3>1. CASE i \in DOMAIN depQ
      <4>1. Fresh(i, s) /\ depQ[i].type = "Update"
        BY <1>1, <1>3, <2>1, <3>1
      <4>2. ASSUME NEW j \in DOMAIN depQ', j < i, Fresh(j, s)', depQ'[j].type = "Delete"
            PROVE  \E k \in DOMAIN depQ' : j < k /\ k < i /\ Fresh(k, s)'
        <5>1. j \in DOMAIN depQ /\ Fresh(j, s) /\ depQ[j].type = "Delete"
          BY <1>1, <1>3, <3>1, <4>2
        <5>2. PICK k \in DOMAIN depQ : j < k /\ k < i /\ Fresh(k, s)
          BY <3>1, <4>1, <4>2, <5>1 DEF QueueInv, UpdateFollows
        <5>3. QED
          BY <1>1, <1>3, <5>2
      <4>3. ASSUME \A j \in DOMAIN depQ' : j < i => ~Fresh(j, s)'
            PROVE  depCache'[s] # Absent
        <5>1. \A j \in DOMAIN depQ : j < i => ~Fresh(j, s)
          BY <1>1, <1>3, <4>3
        <5>2. QED
          BY <3>1, <4>1, <5>1 DEF QueueInv, UpdateFollows
      <4>4. QED
        BY <4>2, <4>3
    <3>2. CASE i = n
      <4>1. s = x.src /\ wanted[s] # Absent
        BY <1>1, <1>3, <2>1, <3>2
      <4>2. ASSUME NEW j \in DOMAIN depQ', j < i, Fresh(j, s)', depQ'[j].type = "Delete"
            PROVE  \E k \in DOMAIN depQ' : j < k /\ k < i /\ Fresh(k, s)'
        <5>1. j \in DOMAIN depQ /\ Fresh(j, s) /\ depQ[j].type = "Delete" /\ depQ[j].src = s
          BY <1>1, <1>3, <3>2, <4>2 DEF Fresh
        <5>2. ~Says(depQ[j])
          BY <4>1, <5>1 DEF Says
        <5>3. PICK k \in DOMAIN depQ : k > j /\ Fresh(k, s)
          BY <5>1, <5>2 DEF QueueInv, LastIsWanted
        <5>4. QED
          BY <1>1, <1>3, <3>2, <5>1, <5>3
      <4>3. ASSUME \A j \in DOMAIN depQ' : j < i => ~Fresh(j, s)'
            PROVE  depCache'[s] # Absent
        <5>1. \A j \in DOMAIN depQ : ~Fresh(j, s)
          BY <1>1, <1>3, <3>2, <4>3
        <5>2. QED
          BY <4>1, <5>1 DEF QueueInv, LastIsWanted
      <4>4. QED
        BY <4>2, <4>3
    <3>3. QED
      BY <1>1, <3>1, <3>2
  <2>2. QED
    BY <2>1 DEF UpdateFollows
<1>11. QED
  BY <1>7, <1>8, <1>9, <1>10 DEF QueueInv

\* What else holds when a client changes its mind
LEMMA EmitCovers ==
    ASSUME TypeInv, RevsBounded, TasksFormed, Covering,
           NEW x \in DepItem, depQ' = Append(depQ, x), x.tries = 0,
           UNCHANGED <<phase, workQ, jobQ, depCache, workCache, identityCluster, entries,
                       sourceToDestinations, tasks>>,
           \A s \in Clients : s # x.src => wanted'[s] = wanted[s],
           Says(x)', x.type = "Update" => wanted[x.src] # Absent,
           \A item : item.src = x.src /\ item.type # "Delete" /\ item.rev <= clock =>
                        ~IsLatest(item)'
    PROVE  Covering'
<1>1. /\ \A i \in DOMAIN depQ : i \in DOMAIN depQ' /\ depQ'[i] = depQ[i]
      /\ x.src \in Clients
  BY QueueAppend DEF TypeInv, TypeOK, DepItem
<1>2. QueueInv'
  BY QueueEmits DEF Covering
<1>3. Alone' /\ TasksHold' /\ OverAll'
  BY DEF Covering, Alone, TasksHold, OverAll, Holds
<1>4. TasksServe'
  <2>1. \A w, c, d : /\ Serves(tasks[w], d)' <=> Serves(tasks[w], d)
                     /\ Writing(tasks[w], c, d)' <=> Writing(tasks[w], c, d)
    BY DEF Serves, Writing
  <2>2. /\ \A s, c, d : Missing(s, c, d)' <=> Missing(s, c, d)
        /\ \A d : Announced(d)' <=> Announced(d)
    BY DEF Missing, Announced
  <2>3. QED
    BY <2>1, <2>2 DEF Covering, TasksServe
<1>5. \A s : (\E i \in DOMAIN depQ : Repeated(i, s)) => \E i \in DOMAIN depQ' : Repeated(i, s)'
  BY <1>1 DEF Repeated
<1>6. RecordFollows'
  <2>1. \A s : Redoes(s)' <=> Redoes(s)
    BY DEF Redoes
  <2>2. QED
    BY <1>5, <2>1 DEF Covering, RecordFollows
<1>7. MissingIsServed'
  <2>1. ASSUME NEW s \in Clients, NEW d, Repeats(s, d)
        PROVE  Repeats(s, d)'
    <3>1. PICK i \in DOMAIN depQ :
             /\ Repeated(i, s)
             /\ depQ[i].type = "Add" \/ d \notin sourceToDestinations[s] \/ ~IsLatest(depQ[i])
      BY <2>1 DEF Repeats
    <3>2. PICK y : y = depQ[i] /\ y = depQ'[i]
      BY <1>1
    <3>3. y \in DepItem /\ y # Absent /\ y.tries > 0 /\ y.src = s /\ Repeated(i, s)'
      BY <3>1, <3>2, DependencyAssumption DEF Repeated, TypeInv, TypeOK
    <3>4. ~IsLatest(y) => ~IsLatest(y)'
      <4>1. CASE s = x.src
        <5>1. y.type # "Delete" /\ y.rev <= clock
          BY <3>2, <3>3 DEF RevsBounded, RecordOk
        <5>2. QED
          BY <3>3, <4>1, <5>1
      <4>2. CASE s # x.src
        BY <3>3, <4>2 DEF IsLatest
      <4>3. QED
        BY <4>1, <4>2
    <3>5. QED
      BY <1>1, <3>1, <3>2, <3>3, <3>4 DEF Repeats
  <2>2. \A s \in Clients : \A c, d : ToCome(s, c, d) => ToCome(s, c, d)'
    BY <2>1 DEF ToCome, Announced, JobQueued
  <2>3. \A s, c, d : Underway(s, c, d)' <=> Underway(s, c, d)
    <3>1. \A w, s, c, d : /\ Owns(w, tasks[w], s, c, d)' <=> Owns(w, tasks[w], s, c, d)
                          /\ Writing(tasks[w], c, d)' <=> Writing(tasks[w], c, d)
      BY DEF Owns, Serves, Writing
    <3>2. QED
      BY <3>1 DEF Underway
  <2>4. \A s, c, d : Missing(s, c, d)' <=> Missing(s, c, d)
    BY DEF Missing
  <2>5. QED
    BY <2>2, <2>3, <2>4 DEF Covering, MissingIsServed
<1>8. QED
  BY <1>2, <1>3, <1>4, <1>6, <1>7 DEF Covering

LEMMA EmitHeard ==
    ASSUME TypeInv, RevsBounded, TasksFormed, WorldHeard,
           NEW x \in DepItem, depQ' = Append(depQ, x), x.tries = 0,
           UNCHANGED <<home, jobs, phase, workQ, jobQ, depCache, workCache, identityCluster,
                       identityDependency, tasks>>,
           clock' \in Nat, clock <= clock', RecordOk(x)', \A s \in Clients : RecordOk(wanted[s])'
    PROVE  RevsBounded' /\ TasksFormed' /\ WorldHeard'
<1>1. PICK n : /\ DOMAIN depQ' = DOMAIN depQ \cup {n} /\ depQ'[n] = x
               /\ \A i \in DOMAIN depQ : depQ'[i] = depQ[i]
  BY QueueAppend DEF TypeInv, TypeOK
<1>2. \A r : (r \in Record \cup DepItem \cup {Absent}) /\ RecordOk(r) => RecordOk(r)'
  BY DependencyAssumption DEF RecordOk, Record, DepItem, TypeInv, TypeOK
<1>3. RevsBounded'
  <2>1. \A s \in Clients : RecordOk(depCache[s])'
    <3>1. \A s \in Clients : depCache[s] \in Record \cup {Absent} /\ RecordOk(depCache[s])
      BY DEF TypeInv, TypeOK, RevsBounded
    <3>2. QED
      BY <1>2, <3>1
  <2>2. \A i \in DOMAIN depQ : RecordOk(depQ[i])' /\ (depQ[i].tries > 0 => depQ[i].type # "Delete")
    <3>1. \A i \in DOMAIN depQ : depQ[i] \in DepItem /\ RecordOk(depQ[i])
      BY DEF TypeInv, TypeOK, RevsBounded
    <3>2. \A i \in DOMAIN depQ : RecordOk(depQ[i])'
      <4> SUFFICES ASSUME NEW i \in DOMAIN depQ
                   PROVE  RecordOk(depQ[i])'
        OBVIOUS
      <4>1. PICK y : y = depQ[i] /\ y = depQ'[i]
        BY <1>1
      <4>2. RecordOk(y)'
        BY <1>2, <3>1, <4>1
      <4>3. QED
        BY <4>1, <4>2
    <3>3. QED
      BY <3>2 DEF RevsBounded
  <2>3. \A i \in DOMAIN depQ' : RecordOk(depQ[i])' /\ (depQ'[i].tries > 0 => depQ'[i].type # "Delete")
    <3>1. RecordOk(depQ[n])' /\ ~(depQ'[n].tries > 0)
      BY <1>1
    <3>2. QED
      BY <1>1, <2>2, <3>1
  <2>4. QED
    BY <2>1, <2>3 DEF RevsBounded
<1>4. TasksFormed'
  <2> SUFFICES ASSUME NEW w \in Workers, tasks[w] # Idle
               PROVE  Formed(w, tasks[w])'
    BY DEF TasksFormed
  <2>1. Formed(w, tasks[w]) /\ tasks[w].dep \in DepItem \cup {Absent}
    BY DEF TasksFormed, TypeInv, WellFormed, Shape, Task
  <2>2. RecordOk(tasks[w].dep) => RecordOk(tasks[w].dep)'
    BY <1>2, <2>1
  <2>3. QED
    BY <2>1, <2>2 DEF Formed
<1>5. WorldHeard'
  BY DEF WorldHeard, JobQueued, Announced
<1>6. QED
  BY <1>3, <1>4, <1>5

LEMMA AskCovers ==
    ASSUME NonEmpty, TypeInv, RevsBounded, TasksFormed, WorldHeard, NEW s \in Clients, Ask(s)
    PROVE  RevsBounded' /\ TasksFormed' /\ WorldHeard' /\ (Covering => Covering')
<1>1. PICK dests \in Requests :
         /\ wanted' = [wanted EXCEPT ![s] = [dests |-> dests, rev |-> clock']]
         /\ depQ' = Append(depQ, [type |-> IF wanted[s] = Absent THEN "Add" ELSE "Update",
                                  src |-> s, dests |-> dests, rev |-> clock', tries |-> 0])
  BY DEF Ask, Emit
<1>2. /\ clock' = clock + 1
      /\ UNCHANGED <<home, jobs, entries, phase, workQ, jobQ, depCache, workCache,
                     identityDependency, identityCluster, sourceToDestinations, tasks>>
  BY DEF Ask, caches
<1>3. PICK x : x = [type |-> IF wanted[s] = Absent THEN "Add" ELSE "Update",
                    src |-> s, dests |-> dests, rev |-> clock', tries |-> 0]
  OBVIOUS
<1>4. clock \in Nat /\ clock' \in Nat /\ clock <= clock' /\ dests \subseteq Servers /\ dests # {}
  <2>1. clock \in Nat
    BY DEF TypeInv, TypeOK
  <2>2. dests \subseteq Servers
    BY DependencyAssumption
  <2>3. dests # {}
    BY DEF NonEmpty
  <2>4. QED
    BY <1>2, <2>1, <2>2, <2>3
<1>5. /\ x \in DepItem /\ x.src = s /\ x.dests = dests /\ x.rev = clock' /\ x.tries = 0
      /\ x.type # "Delete" /\ (x.type = "Update" => wanted[s] # Absent)
  BY <1>3, <1>4 DEF DepItem
<1>6. PICK new : new = [dests |-> dests, rev |-> clock']
  OBVIOUS
<1>7. new \in Record /\ new # Absent /\ new.dests = dests /\ new.rev = clock'
  BY <1>4, <1>6, DependencyAssumption DEF Record
<1>8. wanted'[s] = new /\ \A r \in Clients : r # s => wanted'[r] = wanted[r]
  BY <1>1, <1>6 DEF TypeInv, TypeOK
<1>9. depQ' = Append(depQ, x)
  BY <1>1, <1>3
<1>10. RevsBounded' /\ TasksFormed' /\ WorldHeard'
  <2>1. RecordOk(x)'
    BY <1>4, <1>5 DEF RecordOk
  <2>2. \A r \in Clients : RecordOk(wanted[r])'
    <3> SUFFICES ASSUME NEW r \in Clients
                 PROVE  RecordOk(wanted[r])'
      OBVIOUS
    <3>1. CASE r = s
      BY <1>4, <1>7, <1>8, <3>1 DEF RecordOk
    <3>2. CASE r # s
      <4>1. wanted[r] \in Record \cup {Absent} /\ RecordOk(wanted[r]) /\ wanted'[r] = wanted[r]
        BY <1>8, <3>2 DEF TypeInv, TypeOK, RevsBounded
      <4>2. QED
        BY <1>2, <1>4, <4>1 DEF RecordOk, Record
    <3>3. QED
      BY <3>1, <3>2
  <2>3. QED
    BY <1>2, <1>4, <1>5, <1>9, <2>1, <2>2, EmitHeard
<1>11. ASSUME Covering
       PROVE  Covering'
  <2>1. Says(x)'
    BY <1>5, <1>7, <1>8 DEF Says
  <2>2. \A item : item.src = x.src /\ item.type # "Delete" /\ item.rev <= clock => ~IsLatest(item)'
    <3> SUFFICES ASSUME NEW item, item.src = x.src, item.type # "Delete", item.rev <= clock
                 PROVE  ~IsLatest(item)'
      OBVIOUS
    <3>1. item.rev # clock'
      BY <1>2, <1>4
    <3>2. QED
      BY <1>5, <1>7, <1>8, <3>1 DEF IsLatest
  <2>3. QED
    BY <1>2, <1>5, <1>8, <1>9, <1>11, <2>1, <2>2, EmitCovers
<1>12. QED
  BY <1>10, <1>11

LEMMA WithdrawCovers ==
    ASSUME TypeInv, RevsBounded, TasksFormed, WorldHeard, NEW s \in Clients, Withdraw(s)
    PROVE  RevsBounded' /\ TasksFormed' /\ WorldHeard' /\ (Covering => Covering')
<1>1. /\ wanted[s] # Absent /\ wanted' = [wanted EXCEPT ![s] = Absent]
      /\ depQ' = Append(depQ, [type |-> "Delete", src |-> s, dests |-> wanted[s].dests,
                               rev |-> wanted[s].rev, tries |-> 0])
      /\ UNCHANGED <<clock, home, jobs, entries, phase, workQ, jobQ, depCache, workCache,
                     identityDependency, identityCluster, sourceToDestinations, tasks>>
  BY DEF Withdraw, Emit, caches
<1>2. PICK x : x = [type |-> "Delete", src |-> s, dests |-> wanted[s].dests,
                    rev |-> wanted[s].rev, tries |-> 0]
  OBVIOUS
<1>3. wanted[s] \in Record /\ clock \in Nat
  BY <1>1 DEF TypeInv, TypeOK
<1>4. /\ x \in DepItem /\ x.src = s /\ x.dests = wanted[s].dests /\ x.rev = wanted[s].rev
      /\ x.tries = 0 /\ x.type = "Delete" /\ depQ' = Append(depQ, x)
  BY <1>1, <1>2, <1>3 DEF DepItem, Record
<1>5. wanted'[s] = Absent /\ \A r \in Clients : r # s => wanted'[r] = wanted[r]
  BY <1>1 DEF TypeInv, TypeOK
<1>6. RevsBounded' /\ TasksFormed' /\ WorldHeard'
  <2>1. RecordOk(x)'
    BY <1>1, <1>4 DEF RevsBounded, RecordOk
  <2>2. \A r \in Clients : RecordOk(wanted[r])'
    BY <1>1, <1>5 DEF RevsBounded, RecordOk
  <2>3. clock' \in Nat /\ clock <= clock'
    BY <1>1, <1>3
  <2>4. QED
    BY <1>1, <1>4, <2>1, <2>2, <2>3, EmitHeard
<1>7. ASSUME Covering
      PROVE  Covering'
  <2>1. Says(x)'
    BY <1>4, <1>5 DEF Says
  <2>2. \A item : item.src = x.src /\ item.type # "Delete" /\ item.rev <= clock => ~IsLatest(item)'
    BY <1>4, <1>5 DEF IsLatest
  <2>3. x.type = "Update" => wanted[x.src] # Absent
    BY <1>4
  <2>4. QED
    BY <1>1, <1>4, <1>5, <1>7, <2>1, <2>2, <2>3, EmitCovers
<1>8. QED
  BY <1>6, <1>7

\* After a restart each client that wants something has one event
LEMMA BootOnce ==
    ASSUME TypeInv, Boot(home, wanted, jobs)
    PROVE  /\ \A i \in DOMAIN depQ' :
                 /\ depQ'[i].type = "Add" /\ depQ'[i].tries = 0
                 /\ depQ'[i].src \in Clients /\ wanted[depQ'[i].src] # Absent
                 /\ depQ'[i].dests = wanted[depQ'[i].src].dests
                 /\ depQ'[i].rev = wanted[depQ'[i].src].rev
           /\ \A i, j \in DOMAIN depQ' : depQ'[i].src = depQ'[j].src => i = j
           /\ \A s \in Clients : wanted[s] # Absent => \E i \in DOMAIN depQ' : depQ'[i].src = s
           /\ \A p \in jobs : \E i \in DOMAIN jobQ' : jobQ'[i].src = p[1] /\ jobQ'[i].at = p[2]
<1>1. PICK asking : asking = {c \in Clients : wanted[c] # Absent}
  OBVIOUS
<1>2. PICK f \in [1 .. Cardinality(asking) -> asking] :
         /\ \A c \in asking : \E n \in DOMAIN f : f[n] = c
         /\ depQ' = [n \in DOMAIN f |-> [type |-> "Add", src |-> f[n], dests |-> wanted[f[n]].dests,
                                         rev |-> wanted[f[n]].rev, tries |-> 0]]
  BY <1>1 DEF Boot
<1>3. IsFiniteSet(asking) /\ Cardinality(asking) \in Nat
  <2>1. IsFiniteSet(asking)
    BY <1>1, DependencyAssumption, FS_Subset
  <2>2. QED
    BY <2>1, FS_CardinalityType
<1>4. PICK D : D = 1 .. Cardinality(asking) /\ IsFiniteSet(D) /\ Cardinality(D) = Cardinality(asking)
  <2>1. /\ IsFiniteSet(1 .. Cardinality(asking))
        /\ Cardinality(1 .. Cardinality(asking)) = Cardinality(asking)
    BY <1>3, FS_Interval
  <2>2. QED
    BY <2>1
<1>5. f \in Surjection(D, asking)
  BY <1>2, <1>4 DEF Surjection
<1>6. f \in Injection(D, asking)
  BY <1>4, <1>5, FS_SurjSameCardinalityImpliesInj
<1>7. \A m, n \in D : f[m] = f[n] => m = n
  BY <1>6 DEF Injection, IsInjective
<1>8. DOMAIN f = D /\ DOMAIN depQ' = D /\ \A n \in D : f[n] \in asking
  BY <1>2, <1>4
<1>9. \A n \in D : /\ depQ'[n].type = "Add" /\ depQ'[n].tries = 0 /\ depQ'[n].src = f[n]
                   /\ depQ'[n].dests = wanted[f[n]].dests /\ depQ'[n].rev = wanted[f[n]].rev
  BY <1>2, <1>8
<1>10. \A p \in jobs : \E i \in DOMAIN jobQ' : jobQ'[i].src = p[1] /\ jobQ'[i].at = p[2]
  <2>1. PICK g \in [1 .. Cardinality(jobs) -> jobs] :
         /\ \A p \in jobs : \E n \in DOMAIN g : g[n] = p
         /\ jobQ' = [n \in DOMAIN g |-> [src |-> g[n][1], at |-> g[n][2], tries |-> 0]]
    BY DEF Boot
  <2>2. QED
    BY <2>1
<1>11. QED
  <2>1. \A s \in Clients : wanted[s] # Absent => \E i \in DOMAIN depQ' : depQ'[i].src = s
    BY <1>1, <1>2, <1>8, <1>9
  <2>2. \A i, j \in DOMAIN depQ' : depQ'[i].src = depQ'[j].src => i = j
    BY <1>7, <1>8, <1>9
  <2>3. \A i \in DOMAIN depQ' :
                 /\ depQ'[i].type = "Add" /\ depQ'[i].tries = 0
                 /\ depQ'[i].src \in Clients /\ wanted[depQ'[i].src] # Absent
                 /\ depQ'[i].dests = wanted[depQ'[i].src].dests
                 /\ depQ'[i].rev = wanted[depQ'[i].src].rev
    BY <1>1, <1>8, <1>9
  <2>4. QED
    BY <1>10, <2>1, <2>2, <2>3

LEMMA RestartCovers ==
    ASSUME TypeInv, RevsBounded, Restart
    PROVE  RevsBounded' /\ TasksFormed' /\ WorldHeard' /\ Covering'
<1>1. /\ UNCHANGED <<wanted, home, jobs, clock, entries>> /\ Boot(home, wanted, jobs)
  BY DEF Restart, world
<1>2. /\ workQ' = {e \in AllWork : e.at \in home[e.src]} /\ workCache' = {}
      /\ depCache' = [s \in Clients |-> Absent] /\ identityCluster' = [i \in Identities |-> {}]
      /\ tasks' = [w1 \in Workers |-> Idle]
  BY <1>1 DEF Boot
<1>3. /\ \A i \in DOMAIN depQ' :
            /\ depQ'[i].type = "Add" /\ depQ'[i].tries = 0
            /\ depQ'[i].src \in Clients /\ wanted[depQ'[i].src] # Absent
            /\ depQ'[i].dests = wanted[depQ'[i].src].dests
            /\ depQ'[i].rev = wanted[depQ'[i].src].rev
      /\ \A i, j \in DOMAIN depQ' : depQ'[i].src = depQ'[j].src => i = j
      /\ \A s \in Clients : wanted[s] # Absent => \E i \in DOMAIN depQ' : depQ'[i].src = s
      /\ \A p \in jobs : \E i \in DOMAIN jobQ' : jobQ'[i].src = p[1] /\ jobQ'[i].at = p[2]
  BY <1>1, BootOnce
<1>4. /\ \A s \in Clients : depCache'[s] = Absent
      /\ \A i \in Identities : identityCluster'[i] = {}
      /\ \A w \in Workers : tasks'[w] = Idle
  BY <1>2
<1>5. DOMAIN depQ' \subseteq Nat
  BY <1>1, BootQueues
<1>6. RevsBounded'
  <2>1. \A i \in DOMAIN depQ' : /\ RecordOk(depQ[i])'
                                /\ depQ'[i].tries > 0 => depQ'[i].type # "Delete"
    BY <1>1, <1>3 DEF RevsBounded, RecordOk
  <2>2. \A s \in Clients : RecordOk(wanted[s])' /\ RecordOk(depCache[s])'
    BY <1>1, <1>4 DEF RevsBounded, RecordOk
  <2>3. QED
    BY <2>1, <2>2 DEF RevsBounded
<1>7. TasksFormed'
  BY <1>4 DEF TasksFormed
<1>8. WorldHeard'
  <2>1. \A i \in Identities : \A c \in home[i] : [src |-> i, at |-> c] \in workQ'
    <3> SUFFICES ASSUME NEW i \in Identities, NEW c \in home[i]
                 PROVE  [src |-> i, at |-> c] \in workQ'
      OBVIOUS
    <3>1. c \in Clusters
      BY DEF TypeInv, TypeOK
    <3>2. PICK e : e = [src |-> i, at |-> c]
      OBVIOUS
    <3>3. e \in AllWork /\ e.src = i /\ e.at = c
      BY <3>1, <3>2 DEF AllWork
    <3>4. QED
      BY <1>2, <3>2, <3>3
  <2>2. \A s \in Clients, c \in Clusters : <<s, c>> \in jobs => JobQueued(s, c)'
    <3> SUFFICES ASSUME NEW s \in Clients, NEW c \in Clusters, <<s, c>> \in jobs
                 PROVE  JobQueued(s, c)'
      OBVIOUS
    <3>1. PICK p \in jobs : p[1] = s /\ p[2] = c
      OBVIOUS
    <3>2. QED
      BY <1>3, <3>1 DEF JobQueued
  <2>3. \A d \in Servers : identityCluster'[d] = {}
    BY <1>4 DEF Identities
  <2>4. QED
    BY <1>1, <1>2, <1>4, <2>1, <2>2, <2>3 DEF WorldHeard
<1>9. QueueInv'
  <2>1. LastIsWanted'
    <3>1. \A i \in DOMAIN depQ' : Says(depQ[i])'
      BY <1>1, <1>3 DEF Says
    <3>2. ASSUME NEW s \in Clients, \A i \in DOMAIN depQ' : ~Fresh(i, s)'
          PROVE  depCache'[s] = wanted'[s]
      <4>1. wanted[s] = Absent
        BY <1>3, <3>2 DEF Fresh
      <4>2. QED
        BY <1>1, <1>4, <4>1
    <3>3. QED
      BY <3>1, <3>2 DEF LastIsWanted
  <2>2. LatestIsLast'
    <3>1. ASSUME NEW i \in DOMAIN depQ', NEW j \in DOMAIN depQ', Fresh(j, depQ[i].src)'
          PROVE  depQ'[i].tries = 0 /\ j <= i
      <4>1. i = j /\ depQ'[i].tries = 0 /\ i \in Nat
        BY <1>3, <1>5, <3>1 DEF Fresh
      <4>2. QED
        BY <4>1
    <3>2. tasks'["dependency"] = Idle
      BY <1>4 DEF Workers
    <3>3. QED
      BY <3>1, <3>2 DEF LatestIsLast
  <2>3. RepeatedIsCached' /\ UpdateFollows'
    BY <1>3 DEF RepeatedIsCached, UpdateFollows
  <2>4. QED
    BY <2>1, <2>2, <2>3 DEF QueueInv
<1>10. Covering'
  BY <1>4, <1>9 DEF Covering, Alone, TasksHold, RecordFollows, MissingIsServed, TasksServe, OverAll
<1>11. QED
  BY <1>6, <1>7, <1>8, <1>10

-----------------------------------------------------------------------------

LEMMA CoverInit == Init => CoverInv
<1> SUFFICES ASSUME Init
             PROVE  CoverInv
  OBVIOUS
<1>1. TypeInv /\ ServedInv
  BY TypeInit DEF Init, ServedInv, ServedIsWritten
<1>2. /\ \A s \in Clients : wanted[s] = Absent /\ depCache[s] = Absent
      /\ DOMAIN depQ = {} /\ \A w \in Workers : tasks[w] = Idle
      /\ jobs = {} /\ workCache = {} /\ \A i \in Identities : identityCluster[i] = {}
      /\ workQ = {e \in AllWork : e.at \in home[e.src]}
  BY DEF Init
<1>3. RevsBounded /\ TasksFormed
  BY <1>2 DEF RevsBounded, TasksFormed, RecordOk
<1>4. WorldHeard
  <2>1. \A i \in Identities : \A c \in home[i] : [src |-> i, at |-> c] \in workQ
    <3> SUFFICES ASSUME NEW i \in Identities, NEW c \in home[i]
                 PROVE  [src |-> i, at |-> c] \in workQ
      OBVIOUS
    <3>1. c \in Clusters
      BY <1>1 DEF TypeInv, TypeOK
    <3>2. PICK e : e = [src |-> i, at |-> c]
      OBVIOUS
    <3>3. e \in AllWork /\ e.src = i /\ e.at = c
      BY <3>1, <3>2 DEF AllWork
    <3>4. QED
      BY <1>2, <3>2, <3>3
  <2>2. \A d \in Servers : identityCluster[d] = {}
    BY <1>2 DEF Identities
  <2>3. QED
    BY <1>2, <2>1, <2>2 DEF WorldHeard
<1>5. QueueInv
  <2>1. tasks["dependency"] = Idle
    BY <1>2 DEF Workers
  <2>2. QED
    BY <1>2, <2>1 DEF QueueInv, LastIsWanted, LatestIsLast, RepeatedIsCached, UpdateFollows
<1>6. Covering
  BY <1>2, <1>5 DEF Covering, Alone, TasksHold, RecordFollows, MissingIsServed, TasksServe, OverAll
<1>7. QED
  BY <1>1, <1>3, <1>4, <1>6 DEF CoverInv, HeardInv

\* What has disturbed the workers is not forgotten
LEMMA StillDisturbed ==
    ASSUME TypeInv, [Next]_vars, Undisturbed'
    PROVE  Undisturbed
<1>1. Starting => (raced => raced')
  BY DEF Starting
<1>2. CASE TakeDependency
  <2>1. (outdated => outdated') /\ UNCHANGED <<skipped, dropped>> /\ Starting
    BY <1>2 DEF TakeDependency
  <2>2. QED
    BY <1>1, <2>1 DEF Undisturbed
<1>3. CASE TakeJob
  BY <1>1, <1>3 DEF TakeJob, Undisturbed
<1>4. CASE TakeWorkload
  <2>1. (skipped => skipped') /\ UNCHANGED <<outdated, dropped>> /\ Starting
    BY <1>4 DEF TakeWorkload
  <2>2. QED
    BY <1>1, <2>1 DEF Undisturbed
<1>5. CASE DropDependency
  BY <1>5 DEF DropDependency, Undisturbed
<1>6. CASE RegisterWorkload
  BY <1>6 DEF RegisterWorkload, Undisturbed, history
<1>7. ASSUME NEW w \in Workers, Process(w)
      PROVE  Undisturbed
  <2>1. (skipped => skipped') /\ UNCHANGED <<raced, outdated, dropped>>
    BY <1>7 DEF Process
  <2>2. QED
    BY <2>1 DEF Undisturbed
<1>8. ASSUME NEW w \in Workers,
             \/ Put(w) \/ NextServer(w) \/ NoMoreServers(w)
             \/ Write(w) \/ WriteFails(w) \/ WriteSkipped(w)
      PROVE  Undisturbed
  <2>1. UNCHANGED history \/ dropped'
    BY <1>8 DEF Put, NextServer, NoMoreServers, Write, WriteFails, WriteSkipped
  <2>2. QED
    BY <2>1 DEF Undisturbed, history
<1>9. ASSUME NEW w \in Workers, End(w)
      PROVE  Undisturbed
  <2>1. UNCHANGED <<raced, skipped, outdated>>
    BY <1>9 DEF End
  <2>2. dropped => dropped'
    BY <1>9 DEF End, Workers
  <2>3. QED
    BY <2>1, <2>2 DEF Undisturbed
<1>10. CASE WarmedUp \/ Environment
  <2>1. UNCHANGED <<raced, skipped, outdated, dropped>>
    BY <1>10 DEF WarmedUp, Environment, Ask, Withdraw, Deploy, StartJob, Restart, history
  <2>2. QED
    BY <2>1 DEF Undisturbed
<1>11. CASE UNCHANGED vars
  BY <1>11 DEF vars, history, Undisturbed
<1>12. QED
  BY <1>2, <1>3, <1>4, <1>5, <1>6, <1>7, <1>8, <1>9, <1>10, <1>11 DEF Next, Step

LEMMA CoverStep ==
    ASSUME NonEmpty, CoverInv, [Next]_vars
    PROVE  CoverInv'
<1>1. TypeInv /\ HeardInv /\ RevsBounded /\ TasksFormed /\ WorldHeard /\ ServedInv
  BY DEF CoverInv, HeardInv, ServedInv
<1>2. ServedInv'
  BY <1>1, ServedStep
<1>3. Undisturbed' => Undisturbed
  BY <1>1, StillDisturbed
<1> SUFFICES /\ RevsBounded' /\ TasksFormed' /\ WorldHeard'
             /\ ClientInitiated /\ Undisturbed' /\ Covering => Covering'
  BY <1>2, <1>3 DEF CoverInv, HeardInv
<1>4. Undisturbed' => ~raced' /\ ~skipped' /\ ~outdated' /\ ~dropped'
  BY DEF Undisturbed
<1>5. CASE TakeDependency
  BY <1>1, <1>4, <1>5, TakeDependencyHeard, TakeDependencyCovers
<1>6. CASE DropDependency
  <2>1. dropped'
    BY <1>6 DEF DropDependency
  <2>2. QED
    BY <1>1, <1>4, <1>6, <2>1, DropDependencyHeard
<1>7. CASE TakeJob
  BY <1>1, <1>4, <1>7, TakeJobHeard, TakeJobCovers
<1>8. CASE TakeWorkload
  BY <1>1, <1>4, <1>8, TakeWorkloadHeard, TakeWorkloadCovers
<1>9. CASE RegisterWorkload
  BY <1>1, <1>9, RegisterHeard, RegisterCovers
<1>10. ASSUME NEW w \in Workers, RunStep(w) \/ Put(w)
       PROVE  /\ RevsBounded' /\ TasksFormed' /\ WorldHeard'
              /\ ClientInitiated /\ Undisturbed' /\ Covering => Covering'
  <2>1. /\ Goes(w) /\ tasks'[w].pc # "process"
        /\ tasks'[w].pc = "put" => ~tasks'[w].err
        /\ w = "workload" => tasks'[w].over = tasks[w].over
    BY <1>1, <1>10, RunFacts
  <2>2. RevsBounded' /\ TasksFormed' /\ WorldHeard'
    BY <1>1, <2>1, GoesHeard
  <2>3. ASSUME Undisturbed', Covering
        PROVE  Covering'
    <3>1. Alone' /\ TasksHold' /\ QueueInv'
      BY <2>1, <2>3, GoesQueue DEF Covering
    <3>2. RecordFollows' /\ MissingIsServed' /\ TasksServe' /\ OverAll'
      BY <1>1, <1>4, <1>10, <2>3, ProcessCovers, NextServerCovers, NoMoreCovers, WriteCovers,
         PutCovers DEF RunStep
    <3>3. QED
      BY <3>1, <3>2 DEF Covering
  <2>4. QED
    BY <2>2, <2>3
<1>11. ASSUME NEW w \in Workers, End(w)
       PROVE  /\ RevsBounded' /\ TasksFormed' /\ WorldHeard'
              /\ ClientInitiated /\ Undisturbed' /\ Covering => Covering'
  BY <1>1, <1>4, <1>11, EndHeard, EndCovers
<1>12. CASE WarmedUp
  BY <1>1, <1>12, WarmedUpHeard, WarmedUpCovers
<1>13. CASE Environment
  <2>1. ASSUME NEW s \in Clients, Ask(s) \/ Withdraw(s)
        PROVE  RevsBounded' /\ TasksFormed' /\ WorldHeard' /\ (Covering => Covering')
    BY <1>1, <2>1, AskCovers, WithdrawCovers
  <2>2. ASSUME NEW i \in Identities, NEW c \in Clusters, Deploy(i, c)
        PROVE  RevsBounded' /\ TasksFormed' /\ WorldHeard' /\ (Covering => Covering')
    BY <1>1, <2>2, DeployCovers
  <2>3. ASSUME NEW s \in Clients, NEW c \in Clusters, StartJob(s, c)
        PROVE  RevsBounded' /\ TasksFormed' /\ WorldHeard' /\ (Covering => Covering')
    BY <1>1, <2>3, StartJobCovers
  <2>4. CASE Restart
    BY <1>1, <2>4, RestartCovers
  <2>5. QED
    BY <1>13, <2>1, <2>2, <2>3, <2>4 DEF Environment
<1>14. CASE UNCHANGED vars
  <2>1. /\ UNCHANGED <<wanted, home, jobs, clock, entries, phase, depQ, workQ, jobQ, depCache,
                       workCache, identityDependency, identityCluster, sourceToDestinations, tasks>>
    BY <1>14 DEF vars, world, queues, caches
  <2>2. RevsBounded' /\ TasksFormed' /\ WorldHeard'
    BY <1>1, <2>1 DEF RevsBounded, RecordOk, TasksFormed, Formed, WorldHeard, JobQueued, Announced
  <2>3. Covering => Covering'
    <3>1. \A s, c : JobQueued(s, c) => JobQueued(s, c)'
      BY <2>1 DEF JobQueued
    <3>2. QED
      BY <2>1, <3>1, WiderCovers
  <2>4. QED
    BY <2>2, <2>3
<1>15. QED
  BY <1>5, <1>6, <1>7, <1>8, <1>9, <1>10, <1>11, <1>12, <1>13, <1>14 DEF Next, Step, RunStep

\* Once all events are handled, every cluster in which a client runs has the
\* service entries of the servers it depends on, whatever the order in which
\* HandleDependencyRecord, HandleEventForDeployment and
\* HandleEventForClientDiscovery came to see the dependency, the workloads and
\* the jobs, over failed writes, their repetitions and restarts.
THEOREM ClientsAreCovered ==
    ASSUME NonEmpty
    PROVE  Spec => []SettledCovered
<1>1. Init => CoverInv
  BY CoverInit
<1>2. CoverInv /\ [Next]_vars => CoverInv'
  BY CoverStep
<1>3. CoverInv => SettledCovered
  BY CoveredAtRest
<1>4. QED
  BY <1>1, <1>2, <1>3, PTL DEF Spec
=============================================================================
