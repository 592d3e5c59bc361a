------------------------- MODULE AddressStoreProofs -------------------------
(***************************************************************************)
(* Proofs about AddressStore, for any number of pods, workers, service     *)
(* entries, retries and failures.                                          *)
(***************************************************************************)
EXTENDS AddressStore, FiniteSetTheorems, TLAPS

(***************************************************************************)
(* The loop of GenerateNewAddressAndAddToConfigMap ends at an address that *)
(* is not the empty string and not in the list.                            *)
(***************************************************************************)
LEMMA FirstPositionPositive ==
    ASSUME NEW n \in Nat
    PROVE  FirstPosition(n) \in Nat \ {0}
<1>1. Width \in Nat \ {0}
  BY AddressAssumption
<1>2. n \div Width \in Nat /\ n % Width \in Nat
  BY <1>1
<1>3. (n \div Width) * (Width + 1) \in Nat
  BY <1>1, <1>2
<1>4. QED
  BY <1>2, <1>3 DEF FirstPosition

LEMMA FreshAddress ==
    ASSUME NEW list \in Seq(Nat), NEW k \in FreePositions(list)
    PROVE  /\ k \in Nat \ {0}
           /\ \A i \in DOMAIN list : list[i] # k
<1>1. FirstPosition(Len(list)) \in Nat \ {0}
  BY FirstPositionPositive
<1>2. k \in FirstPosition(Len(list)) .. FirstPosition(Len(list)) + Len(list)
  BY DEF FreePositions
<1>3. k \notin {list[i] : i \in DOMAIN list}
  BY DEF FreePositions
<1>4. QED
  BY <1>1, <1>2, <1>3

-----------------------------------------------------------------------------
(* Type correctness *)

LEMMA AbsentType == Absent \in Store
  BY DEF Absent, Store, None

LEMMA WithAddressType ==
    ASSUME NEW s \in Store, NEW n \in Names, NEW k \in Nat
    PROVE  /\ WithAddress(s, n, k) \in Store
           /\ WithAddress(s, n, k).ver = s.ver
           /\ WithAddress(s, n, k).entries = [s.entries EXCEPT ![n] = k]
           /\ WithAddress(s, n, k).list = Append(s.list, k)
  BY DEF Store, WithAddress

LEMMA VersionType ==
    ASSUME NEW s \in Store, NEW v \in Nat
    PROVE  /\ [s EXCEPT !.ver = v] \in Store
           /\ [s EXCEPT !.ver = v].ver = v
           /\ [s EXCEPT !.ver = v].entries = s.entries
           /\ [s EXCEPT !.ver = v].list = s.list
  BY DEF Store

LEMMA GenerateType ==
    ASSUME TypeOK, NEW t \in Tasks, work[t] \in Busy, NEW s \in Store,
           Generate(t, s)
    PROVE  work' \in [Tasks -> Busy \cup {Idle}]
<1>1. CASE s.entries[work[t].name] # None
  <2>1. s.entries[work[t].name] \in Nat
    BY DEF Busy, Store
  <2>2. QED
    BY <1>1, <2>1 DEF Generate, TypeOK, Busy
<1>2. CASE s.entries[work[t].name] = None
  <2>1. PICK k \in FreePositions(s.list) :
            work' = [work EXCEPT ![t].pc = "put", ![t].addr = k,
                                 ![t].snap = WithAddress(s, work[t].name, k)]
    BY <1>2 DEF Generate
  <2>2. k \in Nat
    BY FreshAddress DEF Store
  <2>3. WithAddress(s, work[t].name, k) \in Store
    BY <2>2, WithAddressType DEF Busy
  <2>4. QED
    BY <2>1, <2>2, <2>3 DEF TypeOK, Busy
<1>3. QED
  BY <1>1, <1>2

LEMMA TypeStep == TypeOK /\ [Next]_vars => TypeOK'
<1> SUFFICES ASSUME TypeOK, [Next]_vars PROVE TypeOK'
  OBVIOUS
<1> USE AddressAssumption
<1>1. ASSUME NEW t \in Tasks, NEW n \in Names, Call(t, n) PROVE TypeOK'
  BY <1>1, AbsentType DEF Call, TypeOK, Busy, None
<1>2. ASSUME NEW t \in Tasks, Lookup(t) PROVE TypeOK'
  <2>1. work[t] \in Busy /\ PodOf[t] \in Pods
    BY <1>2, TasksAssumption DEF Lookup, TypeOK, Idle
  <2>2. CASE Return(t, cache[PodOf[t]][work[t].name])
    BY <1>2, <2>1, <2>2 DEF Lookup, Return, TypeOK, Busy
  <2>3. CASE Goto(t, "get") /\ UNCHANGED granted
    BY <1>2, <2>1, <2>3 DEF Lookup, Goto, TypeOK, Busy
  <2>4. QED
    BY <1>2, <2>2, <2>3 DEF Lookup
<1>3. ASSUME NEW t \in Tasks, Get(t) PROVE TypeOK'
  <2>1. work[t] \in Busy
    BY <1>3 DEF Get, TypeOK, Idle
  <2>2. work' \in [Tasks -> Busy \cup {Idle}]
    BY <1>3, <2>1, GenerateType DEF Get, Goto, TypeOK, Busy
  <2>3. QED
    BY <1>3, <2>2 DEF Get, TypeOK
<1>4. ASSUME NEW t \in Tasks, Create(t) PROVE TypeOK'
  <2>1. work[t] \in Busy
    BY <1>4 DEF Create, TypeOK, Idle
  <2>2. store' \in Store
    BY <1>4, VersionType DEF Create, TypeOK
  <2>3. work' \in [Tasks -> Busy \cup {Idle}]
    BY <1>4, <2>1, <2>2, GenerateType DEF Create, Goto, TypeOK, Busy
  <2>4. QED
    BY <1>4, <2>2, <2>3 DEF Create, TypeOK
<1>5. ASSUME NEW t \in Tasks, GetFails(t) PROVE TypeOK'
  <2>1. work[t] \in Busy
    BY <1>5 DEF GetFails, TypeOK, Idle
  <2>2. QED
    BY <1>5, <2>1 DEF GetFails, Fails, Goto, TypeOK, Busy
<1>6. ASSUME NEW t \in Tasks, Put(t) \/ PutFails(t) PROVE TypeOK'
  <2>1. work[t] \in Busy
    BY <1>6 DEF Put, PutFails, TypeOK, Idle
  <2>2. store' \in Store
    <3>1. work[t].snap \in Store /\ work[t].snap.ver + 1 \in Nat
      BY <2>1 DEF Busy, Store
    <3>2. QED
      BY <1>6, <3>1, VersionType DEF Put, PutFails, Updated, TypeOK
  <2>3. work' \in [Tasks -> Busy \cup {Idle}]
    BY <1>6, <2>1 DEF Put, PutFails, Goto, TypeOK, Busy
  <2>4. QED
    BY <1>6, <2>2, <2>3 DEF Put, PutFails, Fails, TypeOK
<1>7. ASSUME NEW t \in Tasks, Retry(t) PROVE TypeOK'
  <2>1. work[t] \in Busy
    BY <1>7 DEF Retry, TypeOK, Idle
  <2>2. QED
    BY <1>7, <2>1 DEF Retry, TypeOK, Busy, None
<1>8. ASSUME NEW t \in Tasks, Reload(t) PROVE TypeOK'
  <2>1. work[t] \in Busy
    BY <1>8 DEF Reload, TypeOK, Idle
  <2>2. QED
    BY <1>8, <2>1 DEF Reload, TypeOK, Busy
<1>9. ASSUME NEW t \in Tasks, Assign(t) \/ ReloadFails(t) PROVE TypeOK'
  <2>1. work[t] \in Busy
    BY <1>9 DEF Assign, ReloadFails, TypeOK, Idle
  <2>2. work[t].snap.entries \in [Names -> Nat] /\ PodOf[t] \in Pods
    BY <2>1, TasksAssumption DEF Busy, Store
  <2>3. QED
    BY <1>9, <2>1, <2>2 DEF Assign, ReloadFails, Fails, Return, TypeOK, Busy
<1>10. ASSUME NEW p \in Pods, Restart(p) PROVE TypeOK'
  <2>1. store' \in Store
    BY <1>10, VersionType DEF Restart, TypeOK, Store
  <2>2. store.entries \in [Names -> Nat] /\ Absent.entries \in [Names -> Nat]
    BY AbsentType DEF TypeOK, Store
  <2>3. cache' \in [Pods -> [Names -> Nat]]
    BY <1>10, <2>2 DEF Restart, TypeOK
  <2>4. work' \in [Tasks -> Busy \cup {Idle}]
    BY <1>10 DEF Restart, TypeOK
  <2>5. QED
    BY <1>10, <2>1, <2>3, <2>4 DEF Restart, TypeOK
<1>11. CASE UNCHANGED vars
  BY <1>11 DEF vars, TypeOK
<1>12. QED
  BY <1>1, <1>2, <1>3, <1>4, <1>5, <1>6, <1>7, <1>8, <1>9, <1>10, <1>11
     DEF Next, Step, Fault

(***************************************************************************)
(* Every variable of the model keeps its type.                             *)
(***************************************************************************)
THEOREM TypeCorrect == Spec => []TypeOK
<1>1. Init => TypeOK
  BY AddressAssumption, AbsentType DEF Init, TypeOK, None
<1>2. QED
  BY <1>1, TypeStep, PTL DEF Spec

-----------------------------------------------------------------------------
(***************************************************************************)
(* The inductive invariant.  What was read from the configmap stays true   *)
(* of it: an entry is never changed or removed.  An update that the API    *)
(* server would still accept is the configmap itself with one new name and *)
(* one new address.                                                        *)
(***************************************************************************)
\* The entries of f are entries of the configmap
Known(f) == \A n \in Names : f[n] # None => store.entries[n] = f[n]

PutSound(t) ==
    work[t].pc = "put" =>
        /\ Valid(work[t].snap)
        /\ work[t].snap.ver <= store.ver
        /\ work[t].snap.ver = store.ver =>
              /\ store.entries[work[t].name] = None
              /\ work[t].addr # None
              /\ \A i \in DOMAIN store.list : store.list[i] # work[t].addr
              /\ work[t].snap = WithAddress(store, work[t].name, work[t].addr)

ReloadSound(t) ==
    /\ work[t].pc \in {"reload", "assign"} =>
          /\ work[t].addr # None
          /\ store.entries[work[t].name] = work[t].addr
    /\ work[t].pc = "assign" => Known(work[t].snap.entries)

IInv ==
    /\ TypeOK
    /\ Consistent(store)
    /\ \A p \in Pods : Known(cache[p])
    /\ \A t \in Tasks : PutSound(t) /\ ReloadSound(t)
    /\ \A g \in granted : g.addr # None /\ store.entries[g.name] = g.addr

\* Adding a fresh address for a new name keeps the content consistent
LEMMA AddKeepsConsistent ==
    ASSUME NEW s \in Store, Consistent(s),
           NEW n \in Names, s.entries[n] = None,
           NEW k \in Nat \ {0}, \A i \in DOMAIN s.list : s.list[i] # k
    PROVE  /\ Consistent(WithAddress(s, n, k))
           /\ Cardinality(Assigned(WithAddress(s, n, k)))
                 = Len(WithAddress(s, n, k).list)
<1> DEFINE r == WithAddress(s, n, k)
<1>1. /\ r.entries = [s.entries EXCEPT ![n] = k]
      /\ r.list = Append(s.list, k)
      /\ s.entries \in [Names -> Nat] /\ s.list \in Seq(Nat)
  BY WithAddressType DEF Store
<1>2. Assigned(r) = Assigned(s) \cup {n}
  BY <1>1 DEF Assigned, None
<1>3. n \notin Assigned(s)
  BY DEF Assigned
<1>4. IsFiniteSet(Assigned(s))
  BY AddressAssumption, FS_Subset DEF Assigned
<1>5. Cardinality(Assigned(r)) = Cardinality(Assigned(s)) + 1
  BY <1>2, <1>3, <1>4, FS_AddElement
<1>6. Len(r.list) = Len(s.list) + 1 /\ DOMAIN r.list = 1 .. Len(s.list) + 1
  BY <1>1
<1>7. Cardinality(Assigned(r)) = Len(r.list)
  BY <1>5, <1>6 DEF Consistent
<1>8. ASSUME NEW m \in Assigned(r)
      PROVE  \E i \in DOMAIN r.list : r.list[i] = r.entries[m]
  <2>1. CASE m = n
    <3>1. r.list[Len(s.list) + 1] = k /\ Len(s.list) + 1 \in DOMAIN r.list
      BY <1>1, <1>6
    <3>2. r.entries[m] = k
      BY <1>1, <2>1
    <3>3. QED
      BY <3>1, <3>2
  <2>2. CASE m # n
    <3>1. m \in Assigned(s) /\ r.entries[m] = s.entries[m]
      BY <1>1, <1>2, <2>2 DEF Assigned
    <3>2. PICK i \in DOMAIN s.list : s.list[i] = s.entries[m]
      BY <3>1 DEF Consistent
    <3>3. i \in DOMAIN r.list /\ r.list[i] = s.list[i]
      BY <1>1, <1>6
    <3>4. QED
      BY <3>1, <3>2, <3>3
  <2>3. QED
    BY <2>1, <2>2
<1>9. ASSUME NEW m1 \in Assigned(r), NEW m2 \in Assigned(r),
             r.entries[m1] = r.entries[m2]
      PROVE  m1 = m2
  <2>1. ASSUME NEW m \in Assigned(s) PROVE s.entries[m] # k
    BY DEF Consistent
  <2>2. \A m \in Assigned(s) : r.entries[m] = s.entries[m]
    BY <1>1, <1>3 DEF Assigned
  <2>3. r.entries[n] = k
    BY <1>1
  <2>4. CASE m1 \in Assigned(s) /\ m2 \in Assigned(s)
    BY <1>9, <2>2, <2>4 DEF Consistent
  <2>5. QED
    BY <1>2, <1>9, <2>1, <2>2, <2>3, <2>4
<1>10. QED
  BY <1>7, <1>8, <1>9 DEF Consistent

\* Whether a content is consistent does not depend on its version
LEMMA VersionIrrelevant ==
    ASSUME NEW s, NEW r, s.entries = r.entries, s.list = r.list, Consistent(s)
    PROVE  Consistent(r)
<1>1. Assigned(s) = Assigned(r)
  BY DEF Assigned
<1>2. QED
  BY <1>1 DEF Consistent

\* A step of one task that leaves the configmap alone
LEMMA Frame ==
    ASSUME IInv, TypeOK', NEW t \in Tasks,
           \A u \in Tasks : u # t => work'[u] = work[u],
           store' = store,
           PutSound(t)', ReloadSound(t)',
           \A p \in Pods : Known(cache[p])',
           (\A g \in granted : g.addr # None /\ store.entries[g.name] = g.addr)'
    PROVE  IInv'
<1>1. Consistent(store)'
  BY DEF IInv
<1>2. ASSUME NEW u \in Tasks PROVE (PutSound(u) /\ ReloadSound(u))'
  <2>1. CASE u = t
    BY <2>1
  <2>2. CASE u # t
    BY <2>2 DEF IInv, PutSound, ReloadSound, Known
  <2>3. QED
    BY <2>1, <2>2
<1>3. QED
  BY <1>1, <1>2 DEF IInv

\* The configmap a task has read, and what it makes of it
LEMMA GenerateSound ==
    ASSUME IInv, NEW t \in Tasks, work[t] \in Busy,
           store' \in Store, store'.ver # 0, Consistent(store)',
           Generate(t, store')
    PROVE  /\ PutSound(t)' /\ ReloadSound(t)'
           /\ \A u \in Tasks : u # t => work'[u] = work[u]
<1> DEFINE n == work[t].name
<1>0. n \in Names /\ t \in DOMAIN work /\ store'.list \in Seq(Nat)
  BY DEF Busy, IInv, TypeOK, Store
<1>1. CASE store'.entries[n] # None
  <2>1. work' = [work EXCEPT ![t].pc = "reload", ![t].snap = store',
                             ![t].addr = store'.entries[n]]
    BY <1>1 DEF Generate
  <2>2. /\ work'[t].pc = "reload" /\ work'[t].addr = store'.entries[n]
        /\ work'[t].name = n
    BY <1>0, <2>1 DEF Busy
  <2>3. \A u \in Tasks : u # t => work'[u] = work[u]
    BY <2>1 DEF IInv, TypeOK
  <2>4. QED
    BY <1>1, <2>2, <2>3 DEF PutSound, ReloadSound
<1>2. CASE store'.entries[n] = None
  <2>1. PICK k \in FreePositions(store'.list) :
            work' = [work EXCEPT ![t].pc = "put", ![t].addr = k,
                                 ![t].snap = WithAddress(store', n, k)]
    BY <1>2 DEF Generate
  <2>2. k \in Nat \ {0} /\ \A i \in DOMAIN store'.list : store'.list[i] # k
    BY <1>0, FreshAddress
  <2>3. /\ work'[t].pc = "put" /\ work'[t].addr = k /\ work'[t].name = n
        /\ work'[t].snap = WithAddress(store', n, k)
    BY <1>0, <2>1 DEF Busy
  <2>4. WithAddress(store', n, k).ver = store'.ver
    BY <1>0, <2>2, WithAddressType
  <2>5. Valid(WithAddress(store', n, k))
    BY <1>0, <1>2, <2>2, <2>4, AddKeepsConsistent DEF Valid
  <2>6. \A u \in Tasks : u # t => work'[u] = work[u]
    BY <2>1 DEF IInv, TypeOK
  <2>7. PutSound(t)'
    BY <1>2, <2>2, <2>3, <2>4, <2>5 DEF PutSound, None, Store
  <2>8. ReloadSound(t)'
    BY <2>3 DEF ReloadSound
  <2>9. QED
    BY <2>6, <2>7, <2>8
<1>3. QED
  BY <1>1, <1>2

\* An update that the API server accepts adds one entry to the configmap
LEMMA UpdateSound ==
    ASSUME IInv, TypeOK', NEW t \in Tasks, work[t].pc = "put",
           Accepted(t), Updated(t),
           NEW pc \in {"reload", "retry"}, Goto(t, pc),
           UNCHANGED <<cache, granted>>
    PROVE  IInv'
<1> DEFINE n == work[t].name
           k == work[t].addr
<1>1. work[t] \in Busy /\ n \in Names /\ k \in Nat
  BY DEF IInv, TypeOK, Idle, Busy
<1>2. /\ store.entries[n] = None /\ k # None
      /\ \A i \in DOMAIN store.list : store.list[i] # k
      /\ work[t].snap = WithAddress(store, n, k)
  BY DEF IInv, PutSound, Accepted
<1>3. /\ store' = [WithAddress(store, n, k) EXCEPT !.ver = store.ver + 1]
      /\ store \in Store /\ store.ver \in Nat
      /\ store.ver # 0
  BY <1>2 DEF Updated, Accepted, Valid, IInv, TypeOK, Store
<1>4. /\ store'.ver = store.ver + 1
      /\ store'.entries = [store.entries EXCEPT ![n] = k]
      /\ store'.entries = WithAddress(store, n, k).entries
      /\ store'.list = WithAddress(store, n, k).list
  BY <1>1, <1>3, WithAddressType, VersionType
<1>5. Consistent(store)'
  <2>1. Consistent(WithAddress(store, n, k))
    BY <1>1, <1>2, <1>3, AddKeepsConsistent DEF IInv, None
  <2>2. QED
    BY <1>4, <2>1, VersionIrrelevant
<1>6. ASSUME NEW m \in Names, store.entries[m] # None
      PROVE  store'.entries[m] = store.entries[m]
  BY <1>2, <1>3, <1>4, <1>6 DEF Store
<1>7. \A p \in Pods : Known(cache[p])'
  BY <1>6 DEF IInv, Known
<1>8. (\A g \in granted : g.addr # None /\ store.entries[g.name] = g.addr)'
  BY <1>6 DEF IInv, TypeOK
<1>9. ASSUME NEW u \in Tasks PROVE (PutSound(u) /\ ReloadSound(u))'
  <2>1. CASE u = t
    <3>1. /\ work'[t].pc = pc /\ work'[t].name = n /\ work'[t].addr = k
      BY <1>1 DEF Goto, Busy, IInv, TypeOK
    <3>2. store'.entries[n] = k
      BY <1>1, <1>3, <1>4 DEF Store
    <3>3. QED
      BY <1>2, <2>1, <3>1, <3>2 DEF PutSound, ReloadSound
  <2>2. CASE u # t
    <3>1. work'[u] = work[u]
      BY <2>2 DEF Goto, IInv, TypeOK
    <3>2. PutSound(u)'
      <4>1. work[u].pc = "put" => work[u] \in Busy /\ work[u].snap.ver \in Nat
        BY DEF IInv, TypeOK, Idle, Busy, Store
      <4>2. work[u].pc = "put" => work[u].snap.ver <= store.ver /\ Valid(work[u].snap)
        BY DEF IInv, PutSound
      <4>3. QED
        BY <1>3, <1>4, <3>1, <4>1, <4>2 DEF PutSound
    <3>3. ReloadSound(u)'
      <4>1. work[u].pc \in {"reload", "assign"} => work[u].name \in Names
        BY DEF IInv, TypeOK, Idle, Busy
      <4>2. QED
        BY <1>6, <3>1, <4>1 DEF IInv, ReloadSound, Known
    <3>4. QED
      BY <3>2, <3>3
  <2>3. QED
    BY <2>1, <2>2
<1>10. QED
  BY <1>5, <1>7, <1>8, <1>9 DEF IInv

LEMMA InvariantStep == IInv /\ [Next]_vars => IInv'
<1> SUFFICES ASSUME IInv, [Next]_vars PROVE IInv'
  OBVIOUS
<1>0. TypeOK /\ TypeOK'
  BY TypeStep DEF IInv
<1>1. ASSUME NEW t \in Tasks, NEW n \in Names, Call(t, n) PROVE IInv'
  BY <1>0, <1>1, Frame DEF Call, IInv, TypeOK, PutSound, ReloadSound, Known
<1>2. ASSUME NEW t \in Tasks, Lookup(t) PROVE IInv'
  <2>1. work[t] \in Busy /\ PodOf[t] \in Pods
    BY <1>2, <1>0, TasksAssumption DEF Lookup, TypeOK, Idle
  <2>2. CASE Return(t, cache[PodOf[t]][work[t].name])
    BY <1>0, <1>2, <2>1, <2>2, Frame
       DEF Lookup, Return, IInv, TypeOK, Idle, Busy, PutSound, ReloadSound, Known
  <2>3. CASE Goto(t, "get") /\ UNCHANGED granted
    BY <1>0, <1>2, <2>1, <2>3, Frame
       DEF Lookup, Goto, IInv, TypeOK, Busy, PutSound, ReloadSound, Known
  <2>4. QED
    BY <1>2, <2>2, <2>3 DEF Lookup
<1>3. ASSUME NEW t \in Tasks, Get(t) PROVE IInv'
  <2>1. work[t] \in Busy
    BY <1>3, <1>0 DEF Get, TypeOK, Idle
  <2>2. CASE Goto(t, "create")
    BY <1>0, <1>3, <2>1, <2>2, Frame
       DEF Get, Goto, IInv, TypeOK, Busy, PutSound, ReloadSound, Known
  <2>3. CASE store.ver # 0 /\ Generate(t, store)
    <3>1. store' = store /\ store \in Store /\ UNCHANGED <<cache, granted>>
      BY <1>0, <1>3 DEF Get, TypeOK
    <3>2. Generate(t, store') /\ Consistent(store)'
      BY <2>3, <3>1 DEF IInv
    <3>3. /\ PutSound(t)' /\ ReloadSound(t)'
          /\ \A u \in Tasks : u # t => work'[u] = work[u]
      BY <2>1, <2>3, <3>1, <3>2, GenerateSound
    <3>4. QED
      BY <1>0, <3>1, <3>3, Frame DEF IInv, Known
  <2>4. QED
    BY <1>3, <2>2, <2>3 DEF Get
<1>4. ASSUME NEW t \in Tasks, Create(t) PROVE IInv'
  <2>1. work[t] \in Busy
    BY <1>4, <1>0 DEF Create, TypeOK, Idle
  <2>2. CASE store.ver # 0
    BY <1>0, <1>4, <2>1, <2>2, Frame
       DEF Create, Goto, IInv, TypeOK, Busy, PutSound, ReloadSound, Known
  <2>3. CASE store.ver = 0
    <3>1. /\ store' = [store EXCEPT !.ver = 1] /\ Generate(t, store')
          /\ UNCHANGED <<cache, granted>>
      BY <1>4, <2>3 DEF Create
    <3>2. /\ store' \in Store /\ store'.ver = 1
          /\ store'.entries = store.entries /\ store'.list = store.list
      BY <1>0, <3>1, VersionType DEF TypeOK
    <3>3. Consistent(store)'
      BY <3>2, VersionIrrelevant DEF IInv
    <3>4. /\ PutSound(t)' /\ ReloadSound(t)'
          /\ \A u \in Tasks : u # t => work'[u] = work[u]
      BY <2>1, <3>1, <3>2, <3>3, GenerateSound
    <3>5. ASSUME NEW u \in Tasks PROVE (PutSound(u) /\ ReloadSound(u))'
      <4>1. work[u].pc # "put"
        <5>1. SUFFICES ASSUME work[u].pc = "put" PROVE FALSE
          OBVIOUS
        <5>2. work[u].snap.ver \in Nat
          BY <1>0, <5>1 DEF TypeOK, Idle, Busy, Store
        <5>3. QED
          BY <2>3, <5>1, <5>2 DEF IInv, PutSound, Valid
      <4>2. CASE u # t
        BY <3>2, <3>4, <4>1, <4>2 DEF IInv, PutSound, ReloadSound, Known
      <4>3. QED
        BY <3>4, <4>2
    <3>6. QED
      BY <1>0, <3>1, <3>2, <3>3, <3>5 DEF IInv, Known
  <2>4. QED
    BY <2>2, <2>3
<1>5. ASSUME NEW t \in Tasks, GetFails(t) PROVE IInv'
  <2>1. work[t] \in Busy
    BY <1>5, <1>0 DEF GetFails, TypeOK, Idle
  <2>2. QED
    BY <1>0, <1>5, <2>1, Frame
       DEF GetFails, Goto, IInv, TypeOK, Busy, PutSound, ReloadSound, Known
<1>6. ASSUME NEW t \in Tasks, Put(t) \/ PutFails(t) PROVE IInv'
  <2>1. /\ work[t] \in Busy /\ work[t].pc = "put"
        /\ UNCHANGED <<cache, granted>>
    BY <1>6, <1>0 DEF Put, PutFails, TypeOK, Idle
  <2>2. CASE Accepted(t) /\ Updated(t)
    <3>1. PICK pc \in {"reload", "retry"} : Goto(t, pc)
      BY <1>6 DEF Put, PutFails
    <3>2. QED
      BY <1>0, <2>1, <2>2, <3>1, UpdateSound
  <2>3. CASE UNCHANGED store /\ Goto(t, "retry")
    BY <1>0, <2>1, <2>3, Frame
       DEF Goto, IInv, TypeOK, Busy, PutSound, ReloadSound, Known
  <2>4. QED
    BY <1>6, <2>2, <2>3 DEF Put, PutFails
<1>7. ASSUME NEW t \in Tasks, Retry(t) PROVE IInv'
  <2>1. work[t] \in Busy
    BY <1>7, <1>0 DEF Retry, TypeOK, Idle
  <2>2. work'[t].pc \in {"lookup", "idle"}
    BY <1>0, <1>7, <2>1 DEF Retry, TypeOK, Busy, Idle
  <2>3. QED
    BY <1>0, <1>7, <2>2, Frame
       DEF Retry, IInv, TypeOK, PutSound, ReloadSound, Known
<1>8. ASSUME NEW t \in Tasks, Reload(t) PROVE IInv'
  <2>1. work[t] \in Busy
    BY <1>8, <1>0 DEF Reload, TypeOK, Idle
  <2>2. /\ work'[t].pc = "assign" /\ work'[t].snap = store
        /\ work'[t].name = work[t].name /\ work'[t].addr = work[t].addr
    BY <1>0, <1>8, <2>1 DEF Reload, TypeOK, Busy
  <2>3. PutSound(t)' /\ ReloadSound(t)'
    BY <1>8, <2>2 DEF Reload, IInv, PutSound, ReloadSound, Known
  <2>4. QED
    BY <1>0, <1>8, <2>3, Frame DEF Reload, IInv, TypeOK, Known
<1>9. ASSUME NEW t \in Tasks, Assign(t) \/ ReloadFails(t) PROVE IInv'
  <2>1. work[t] \in Busy /\ PodOf[t] \in Pods
    BY <1>9, <1>0, TasksAssumption DEF Assign, ReloadFails, TypeOK, Idle
  <2>2. Return(t, work[t].addr) /\ store' = store
    BY <1>9 DEF Assign, ReloadFails
  <2>3. /\ work'[t] = Idle
        /\ \A u \in Tasks : u # t => work'[u] = work[u]
    BY <1>0, <2>2 DEF Return, TypeOK
  <2>4. (\A g \in granted : g.addr # None /\ store.entries[g.name] = g.addr)'
    BY <1>9, <2>2 DEF Assign, ReloadFails, Return, IInv, ReloadSound
  <2>5. \A p \in Pods : Known(cache[p])'
    BY <1>0, <1>9, <2>1, <2>2
       DEF Assign, ReloadFails, IInv, TypeOK, ReloadSound, Known
  <2>6. PutSound(t)' /\ ReloadSound(t)'
    BY <2>3 DEF Idle, PutSound, ReloadSound
  <2>7. QED
    BY <1>0, <2>2, <2>3, <2>4, <2>5, <2>6, Frame
<1>10. ASSUME NEW p \in Pods, Restart(p) PROVE IInv'
  <2>1. /\ store' \in Store /\ store.ver \in Nat /\ store'.ver \in Nat
        /\ store'.entries = store.entries /\ store'.list = store.list
        /\ store.ver # 0 => store' = store
    BY <1>0, <1>10, VersionType DEF Restart, TypeOK, Store
  <2>2. Consistent(store)'
    BY <2>1, VersionIrrelevant DEF IInv
  <2>3. \A q \in Pods : Known(cache[q])'
    BY <1>0, <1>10, <2>1 DEF Restart, IInv, TypeOK, Known, Absent
  <2>4. ASSUME NEW u \in Tasks PROVE (PutSound(u) /\ ReloadSound(u))'
    <3>1. work'[u] = work[u] \/ work'[u] = Idle
      BY <1>10 DEF Restart
    <3>2. CASE work'[u] = Idle
      BY <3>2 DEF Idle, PutSound, ReloadSound
    <3>3. CASE work'[u] = work[u]
      <4>1. work[u].pc = "put" => work[u].snap.ver \in Nat
        BY <1>0 DEF TypeOK, Idle, Busy, Store
      <4>2. work[u].pc = "put" => store' = store
        BY <2>1, <4>1 DEF IInv, PutSound, Valid
      <4>3. PutSound(u)'
        BY <3>3, <4>2 DEF IInv, PutSound
      <4>4. ReloadSound(u)'
        BY <2>1, <3>3 DEF IInv, ReloadSound, Known
      <4>5. QED
        BY <4>3, <4>4
    <3>4. QED
      BY <3>1, <3>2, <3>3
  <2>5. (\A g \in granted : g.addr # None /\ store.entries[g.name] = g.addr)'
    BY <1>10, <2>1 DEF Restart, IInv
  <2>6. QED
    BY <1>0, <2>2, <2>3, <2>4, <2>5 DEF IInv
<1>11. CASE UNCHANGED vars
  BY <1>0, <1>11 DEF vars, IInv, PutSound, ReloadSound, Known
<1>12. QED
  BY <1>1, <1>2, <1>3, <1>4, <1>5, <1>6, <1>7, <1>8, <1>9, <1>10, <1>11
     DEF Next, Step, Fault

LEMMA InvariantInit == Init => IInv
<1> SUFFICES ASSUME Init PROVE IInv
  OBVIOUS
<1>1. TypeOK
  BY AddressAssumption, AbsentType DEF Init, TypeOK, None
<1>2. Consistent(store)
  <2>1. CASE store \in OldStores
    BY <2>1, AddressAssumption
  <2>2. CASE store = Absent
    <3>1. Assigned(Absent) = {}
      BY DEF Assigned, Absent
    <3>2. QED
      BY <2>2, <3>1, FS_EmptySet DEF Consistent, Absent
  <2>3. QED
    BY <2>1, <2>2 DEF Init
<1>3. \A p \in Pods : Known(cache[p])
  BY DEF Init, Known
<1>4. \A t \in Tasks : PutSound(t) /\ ReloadSound(t)
  BY DEF Init, Idle, PutSound, ReloadSound
<1>5. QED
  BY <1>1, <1>2, <1>3, <1>4 DEF IInv, Init

LEMMA Invariance == Spec => []IInv
  BY InvariantInit, InvariantStep, PTL DEF Spec

(***************************************************************************)
(* The configmap never holds one address for two service entries.          *)
(***************************************************************************)
THEOREM StoreStaysConsistent == Spec => []StoreConsistent
<1>1. IInv => StoreConsistent
  BY DEF IInv, StoreConsistent
<1>2. QED
  BY <1>1, Invariance, PTL

(***************************************************************************)
(* The addresses that getUniqueAddress returns are unique and final, for   *)
(* any number of pods and workers that race for the configmap, whatever    *)
(* requests fail and whenever pods restart.                                *)
(***************************************************************************)
THEOREM AddressesAreFinal == Spec => []GrantsAreFinal
<1>1. ASSUME IInv PROVE GrantsAreFinal
  <2>1. \A g \in granted : store.entries[g.name] = g.addr
    BY <1>1 DEF IInv
  <2>2. ASSUME NEW g \in granted, NEW h \in granted, g.addr = h.addr
        PROVE  g.name = h.name
    <3>1. g.name \in Assigned(store) /\ h.name \in Assigned(store)
      BY <1>1 DEF IInv, TypeOK, Assigned
    <3>2. store.entries[g.name] = store.entries[h.name]
      BY <2>1, <2>2
    <3>3. QED
      BY <1>1, <3>1, <3>2 DEF IInv, Consistent
  <2>3. QED
    BY <2>1, <2>2 DEF GrantsAreFinal
<1>2. QED
  BY <1>1, Invariance, PTL

(***************************************************************************)
(* ValidateConfigmapBeforePutting never refuses an update.                 *)
(***************************************************************************)
THEOREM UpdatesAreValid == Spec => []NeverInvalid
<1>1. IInv => NeverInvalid
  BY DEF IInv, PutSound, NeverInvalid
<1>2. QED
  BY <1>1, Invariance, PTL

(***************************************************************************)
(* The refinement.  A step of the pods enters an address into the book,    *)
(* reads one out of it, or leaves both the book and the answers alone.     *)
(***************************************************************************)
LEMMA ReturnAnswers ==
    ASSUME IInv, NEW t \in Tasks, work[t] \in Busy, NEW addr \in Nat,
           addr # None => store.entries[work[t].name] = addr,
           Return(t, addr), store'.entries = store.entries
    PROVE  [Book!Next]_(Book!bookVars)
<1>1. CASE addr = None
  BY <1>1 DEF Return, Book!bookVars
<1>2. CASE addr # None
  <2>1. work[t].name \in Names
    BY DEF Busy
  <2>2. Book!Answer(work[t].name)
    BY <1>2, <2>1 DEF Return, None, Book!Answer
  <2>3. QED
    BY <2>1, <2>2 DEF Book!Next
<1>3. QED
  BY <1>1, <1>2

LEMMA UpdateEnters ==
    ASSUME IInv, NEW t \in Tasks, work[t].pc = "put", Accepted(t), Updated(t),
           UNCHANGED granted
    PROVE  Book!Next
<1> DEFINE n == work[t].name
           k == work[t].addr
<1>1. work[t] \in Busy
  BY DEF IInv, TypeOK, Idle
<1>2. n \in Names /\ k \in Nat /\ store \in Store /\ work[t].snap \in Store
  BY <1>1 DEF Busy, IInv, TypeOK
<1>3. /\ store.entries[n] = 0 /\ k # 0
      /\ \A i \in DOMAIN store.list : store.list[i] # k
      /\ work[t].snap = WithAddress(store, n, k)
  BY DEF IInv, PutSound, Accepted, None
<1>4. store'.entries = [store.entries EXCEPT ![n] = k]
  <2>1. store'.entries = work[t].snap.entries
    BY <1>2 DEF Updated, Store
  <2>2. QED
    BY <1>2, <1>3, <2>1, WithAddressType
<1>5. \A m \in Names : store.entries[m] # k
  BY <1>3 DEF IInv, Consistent, Assigned, None
<1>6. store'.entries[n] = k
  BY <1>2, <1>4 DEF Store
<1>7. Book!Enter(n)
  BY <1>2, <1>3, <1>4, <1>5, <1>6 DEF Book!Enter
<1>8. QED
  BY <1>2, <1>7 DEF Book!Next

LEMMA StepRefines == IInv /\ [Next]_vars => [Book!Next]_(Book!bookVars)
<1> SUFFICES ASSUME IInv, [Next]_vars PROVE [Book!Next]_(Book!bookVars)
  OBVIOUS
<1>0. TypeOK
  BY DEF IInv
<1>1. ASSUME NEW t \in Tasks, NEW n \in Names, Call(t, n)
      PROVE  [Book!Next]_(Book!bookVars)
  BY <1>1 DEF Call, Book!bookVars
<1>2. ASSUME NEW t \in Tasks, Lookup(t) PROVE [Book!Next]_(Book!bookVars)
  <2> DEFINE addr == cache[PodOf[t]][work[t].name]
  <2>1. work[t] \in Busy /\ PodOf[t] \in Pods
    BY <1>0, <1>2, TasksAssumption DEF Lookup, TypeOK, Idle
  <2>2. addr \in Nat /\ (addr # None => store.entries[work[t].name] = addr)
    BY <1>0, <2>1 DEF IInv, TypeOK, Busy, Known
  <2>3. CASE Return(t, addr)
    BY <1>2, <2>1, <2>2, <2>3, ReturnAnswers DEF Lookup
  <2>4. CASE UNCHANGED granted
    BY <1>2, <2>4 DEF Lookup, Book!bookVars
  <2>5. QED
    BY <1>2, <2>3, <2>4 DEF Lookup
<1>3. ASSUME NEW t \in Tasks, Get(t) \/ GetFails(t) \/ Retry(t) \/ Reload(t)
      PROVE  [Book!Next]_(Book!bookVars)
  BY <1>3 DEF Get, GetFails, Retry, Reload, Book!bookVars
<1>4. ASSUME NEW t \in Tasks, Create(t) PROVE [Book!Next]_(Book!bookVars)
  <2>1. [store EXCEPT !.ver = 1].entries = store.entries
    BY <1>0, VersionType DEF TypeOK
  <2>2. store'.entries = store.entries
    BY <1>4, <2>1 DEF Create
  <2>3. QED
    BY <1>4, <2>2 DEF Create, Book!bookVars
<1>5. ASSUME NEW t \in Tasks, Put(t) \/ PutFails(t)
      PROVE  [Book!Next]_(Book!bookVars)
  <2>1. CASE Accepted(t) /\ Updated(t)
    BY <1>5, <2>1, UpdateEnters DEF Put, PutFails
  <2>2. CASE UNCHANGED store
    BY <1>5, <2>2 DEF Put, PutFails, Book!bookVars
  <2>3. QED
    BY <1>5, <2>1, <2>2 DEF Put, PutFails
<1>6. ASSUME NEW t \in Tasks, Assign(t) \/ ReloadFails(t)
      PROVE  [Book!Next]_(Book!bookVars)
  <2>1. work[t] \in Busy
    BY <1>0, <1>6 DEF Assign, ReloadFails, TypeOK, Idle
  <2>2. work[t].addr \in Nat /\ store.entries[work[t].name] = work[t].addr
    BY <1>6, <2>1 DEF Assign, ReloadFails, IInv, ReloadSound, Busy
  <2>3. QED
    BY <1>6, <2>1, <2>2, ReturnAnswers DEF Assign, ReloadFails
<1>7. ASSUME NEW p \in Pods, Restart(p) PROVE [Book!Next]_(Book!bookVars)
  <2>1. CASE store' = [store EXCEPT !.ver = IF @ = 0 THEN 1 ELSE @]
    <3>1. (IF store.ver = 0 THEN 1 ELSE store.ver) \in Nat /\ store \in Store
      BY <1>0 DEF TypeOK, Store
    <3>2. store'.entries = store.entries
      BY <2>1, <3>1, VersionType
    <3>3. QED
      BY <1>7, <3>2 DEF Restart, Book!bookVars
  <2>2. CASE UNCHANGED store
    BY <1>7, <2>2 DEF Restart, Book!bookVars
  <2>3. QED
    BY <1>7, <2>1, <2>2 DEF Restart
<1>8. CASE UNCHANGED vars
  BY <1>8 DEF vars, Book!bookVars
<1>9. QED
  BY <1>1, <1>2, <1>3, <1>4, <1>5, <1>6, <1>7, <1>8 DEF Next, Step, Fault

(***************************************************************************)
(* The pods with their caches, retries and restarts, and the configmap     *)
(* they race for, implement one book of addresses.                         *)
(***************************************************************************)
THEOREM StoreImplementsBook == Spec => ImplementsBook
<1>1. Init => Book!Init
  <2> SUFFICES ASSUME Init PROVE Book!Init
    OBVIOUS
  <2>1. IInv
    BY InvariantInit
  <2>2. store.entries \in [Names -> Nat]
    BY <2>1 DEF IInv, TypeOK, Store
  <2>3. Book!Injective
    BY <2>1, <2>2 DEF IInv, Consistent, Assigned, None, Book!Injective
  <2>4. QED
    BY <2>2, <2>3 DEF Init, Book!Init
<1>2. QED
  BY <1>1, StepRefines, Invariance, PTL DEF Spec, ImplementsBook, Book!Spec
=============================================================================
