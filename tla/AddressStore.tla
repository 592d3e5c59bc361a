---------------------------- MODULE AddressStore ----------------------------
(***************************************************************************)
(* Allocation of the local address of a service entry:                     *)
(*   admiral/pkg/clusters/serviceentry.go      getUniqueAddress and below   *)
(*   admiral/pkg/clusters/util.go              the configmap's content      *)
(*   admiral/pkg/controller/admiral/configmap.go                           *)
(*                                                                         *)
(* Admiral pods keep the addresses in one configmap, which the API server  *)
(* guards with a resource version, and each pod caches its content.  An    *)
(* address prefix.s.f is represented by its position in the order in which *)
(* the code tries addresses, (s - 10) * (Width + 1) + f; 0 stands for the  *)
(* empty string.                                                           *)
(***************************************************************************)
EXTENDS Naturals, Sequences, FiniteSets

CONSTANTS
    Names,                  \* service entry names
    Pods,                   \* Admiral instances
    Tasks,                  \* goroutines that ask for addresses
    PodOf,                  \* the instance each of them belongs to
    Width,                  \* 255, the last value of the address's last part
    MaxTries,               \* maxRetries of getUniqueAddress
    DisableIPGeneration,    \* common.DisableIPGeneration()
    OldStores,              \* contents the configmap may have at the start
    \* Bounds of the environment
    MaxFailures,            \* requests to the API server that fail
    MaxRestarts             \* restarts of a pod

None == 0

\* Content of the configmap, and the version the API server gave it; version
\* 0 is a configmap that does not exist
Store == [ver : Nat, entries : [Names -> Nat], list : Seq(Nat)]

Absent == [ver |-> 0, entries |-> [n \in Names |-> None], list |-> <<>>]

\* The service entries that have an address
Assigned(s) == {n \in Names : s.entries[n] # None}

\* The list holds the addresses of the entries, each of them once
Consistent(s) ==
    /\ \A n \in Assigned(s) : \E i \in DOMAIN s.list : s.list[i] = s.entries[n]
    /\ \A m, n \in Assigned(s) : s.entries[m] = s.entries[n] => m = n
    /\ Len(s.list) = Cardinality(Assigned(s))

ASSUME TasksAssumption == PodOf \in [Tasks -> Pods]

ASSUME AddressAssumption ==
    /\ IsFiniteSet(Names)
    /\ Width \in Nat \ {0} /\ MaxTries \in Nat
    /\ MaxFailures \in Nat /\ MaxRestarts \in Nat
    /\ DisableIPGeneration \in BOOLEAN
    /\ OldStores \subseteq Store
    /\ \A s \in OldStores : Consistent(s) /\ s.ver > 0

VARIABLES
    store,      \* the configmap
    cache,      \* ServiceEntryAddressStore of each pod
    work,       \* the calls of getUniqueAddress under way
    granted,    \* the addresses those calls have returned
    spent       \* how much of each environment bound is used up

vars == <<store, cache, work, granted, spent>>

Idle == [pc |-> "idle"]

Busy == [pc    : {"lookup", "get", "create", "put", "retry", "reload", "assign"},
         name  : Names,
         tries : 0 .. MaxTries,
         snap  : Store,         \* the configmap as read, and as to be written
         addr  : Nat]           \* the address to return

TypeOK ==
    /\ store \in Store
    /\ cache \in [Pods -> [Names -> Nat]]
    /\ work \in [Tasks -> Busy \cup {Idle}]
    /\ granted \subseteq [name : Names, addr : Nat]
    /\ spent \in [failures : 0 .. MaxFailures, restarts : 0 .. MaxRestarts]

Init ==
    /\ store \in OldStores \cup {Absent}
    /\ cache = [p \in Pods |-> [n \in Names |-> None]]
    /\ work = [t \in Tasks |-> Idle]
    /\ granted = {}
    /\ spent = [failures |-> 0, restarts |-> 0]

-----------------------------------------------------------------------------
(* Pure parts *)

\* secondIndex and firstIndex for a list of n addresses
FirstPosition(n) == (n \div Width) * (Width + 1) + (n % Width) + 1

\* Mutant: the first position is taken without a look at the list
TakesFirst(list) == {FirstPosition(Len(list))}

\* The loop tries one position after the other, so that it ends at the first
\* that is not in the list; one of the next Len(list) + 1 is free
FreePositions(list) ==
    LET start == FirstPosition(Len(list))
        used  == {list[i] : i \in DOMAIN list}
    IN {k \in start .. start + Len(list) :
            k \notin used /\ \A j \in start .. k - 1 : j \in used}

\* Mutant: the address is not added to the list
OnlyEntry(s, n, k) ==
    [ver |-> s.ver, entries |-> [s.entries EXCEPT ![n] = k], list |-> s.list]

\* newAddressState, with the address added for the name
WithAddress(s, n, k) ==
    [ver |-> s.ver, entries |-> [s.entries EXCEPT ![n] = k],
     list |-> Append(s.list, k)]

\* ValidateConfigmapBeforePutting
Valid(s) == s.ver # 0 /\ Cardinality(Assigned(s)) = Len(s.list)

-----------------------------------------------------------------------------
(* getUniqueAddress *)

Goto(t, pc) == work' = [work EXCEPT ![t].pc = pc]

\* The request to the API server fails, before it has any effect
Fails == /\ spent.failures < MaxFailures
         /\ spent' = [spent EXCEPT !.failures = @ + 1]

Call(t, n) ==
    /\ work[t] = Idle
    /\ MaxTries > 0
    /\ work' = [work EXCEPT ![t] = [pc |-> "lookup", name |-> n, tries |-> 0,
                                    snap |-> Absent, addr |-> None]]
    /\ UNCHANGED <<store, cache, granted, spent>>

\* The call returns
Return(t, addr) ==
    /\ work' = [work EXCEPT ![t] = Idle]
    /\ granted' = IF addr = None THEN granted
                  ELSE granted \cup {[name |-> work[t].name, addr |-> addr]}

\* GetLocalAddressForSe: an address in the cache needs no configmap
Lookup(t) ==
    /\ work[t].pc = "lookup"
    /\ LET addr == cache[PodOf[t]][work[t].name]
       IN IF addr # None \/ DisableIPGeneration
          THEN Return(t, addr)
          ELSE Goto(t, "get") /\ UNCHANGED granted
    /\ UNCHANGED <<store, cache, spent>>

\* GenerateNewAddressAndAddToConfigMap on the configmap s it got
Generate(t, s) ==
    IF s.entries[work[t].name] # None
    THEN work' = [work EXCEPT ![t].pc = "reload", ![t].snap = s,
                              ![t].addr = s.entries[work[t].name]]
    ELSE \E k \in FreePositions(s.list) :
            work' = [work EXCEPT ![t].pc = "put", ![t].addr = k,
                                 ![t].snap = WithAddress(s, work[t].name, k)]

\* GetConfigMap
Get(t) ==
    /\ work[t].pc = "get"
    /\ IF store.ver = 0 THEN Goto(t, "create") ELSE Generate(t, store)
    /\ UNCHANGED <<store, cache, granted, spent>>

\* GetConfigMap creates the configmap that was not found; this fails if
\* somebody else has created it since
Create(t) ==
    /\ work[t].pc = "create"
    /\ IF store.ver = 0
       THEN store' = [store EXCEPT !.ver = 1] /\ Generate(t, store')
       ELSE Goto(t, "retry") /\ UNCHANGED store
    /\ UNCHANGED <<cache, granted, spent>>

GetFails(t) ==
    /\ work[t].pc \in {"get", "create"}
    /\ Fails
    /\ Goto(t, "retry")
    /\ UNCHANGED <<store, cache, granted>>

\* Mutant: the update has no resource version
AcceptedAnyway(t) == Valid(work[t].snap)

\* putServiceEntryStateFromConfigmap sends the update only if it is valid, and
\* the API server stores it only if the version is still the one that was read
Accepted(t) == Valid(work[t].snap) /\ work[t].snap.ver = store.ver

Updated(t) == store' = [work[t].snap EXCEPT !.ver = @ + 1]

\* PutConfigMap
Put(t) ==
    /\ work[t].pc = "put"
    /\ IF Accepted(t) THEN Updated(t) /\ Goto(t, "reload")
                      ELSE UNCHANGED store /\ Goto(t, "retry")
    /\ UNCHANGED <<cache, granted, spent>>

\* The request fails, before or after the API server stored the update
PutFails(t) ==
    /\ work[t].pc = "put"
    /\ Fails
    /\ Goto(t, "retry")
    /\ \/ Accepted(t) /\ Updated(t)
       \/ UNCHANGED store
    /\ UNCHANGED <<cache, granted>>

\* Mutant: the loop runs too often
RetryTooOften(t) ==
    /\ work[t].pc = "retry"
    /\ work' = IF work[t].tries <= MaxTries
               THEN [work EXCEPT ![t].pc = "lookup", ![t].tries = @ + 1,
                                 ![t].addr = None]
               ELSE [work EXCEPT ![t] = Idle]
    /\ UNCHANGED <<store, cache, granted, spent>>

\* The next round of the loop, or the error after the last one
Retry(t) ==
    /\ work[t].pc = "retry"
    /\ work' = IF work[t].tries + 1 < MaxTries
               THEN [work EXCEPT ![t].pc = "lookup", ![t].tries = @ + 1,
                                 ![t].addr = None]
               ELSE [work EXCEPT ![t] = Idle]
    /\ UNCHANGED <<store, cache, granted, spent>>

\* loadServiceEntryCacheData: the configmap is read ...
Reload(t) ==
    /\ work[t].pc = "reload"
    /\ work' = [work EXCEPT ![t].pc = "assign", ![t].snap = store]
    /\ UNCHANGED <<store, cache, granted, spent>>

\* ... and the cache is replaced by what was read
Assign(t) ==
    /\ work[t].pc = "assign"
    /\ cache' = [cache EXCEPT ![PodOf[t]] = work[t].snap.entries]
    /\ Return(t, work[t].addr)
    /\ UNCHANGED <<store, spent>>

\* The read fails: the cache stays as it is
ReloadFails(t) ==
    /\ work[t].pc = "reload"
    /\ Fails
    /\ Return(t, work[t].addr)
    /\ UNCHANGED <<store, cache>>

\* A pod restarts and loads the configmap, if it can, before it starts to work
Restart(p) ==
    /\ spent.restarts < MaxRestarts
    /\ spent' = [spent EXCEPT !.restarts = @ + 1]
    /\ work' = [t \in Tasks |-> IF PodOf[t] = p THEN Idle ELSE work[t]]
    /\ \/ /\ store' = [store EXCEPT !.ver = IF @ = 0 THEN 1 ELSE @]
          /\ cache' = [cache EXCEPT ![p] = store.entries]
       \/ /\ cache' = [cache EXCEPT ![p] = Absent.entries]
          /\ UNCHANGED store
    /\ UNCHANGED granted

-----------------------------------------------------------------------------
Step(t) ==
    \/ Lookup(t) \/ Get(t) \/ Create(t) \/ Put(t)
    \/ Retry(t) \/ Reload(t) \/ Assign(t)

Fault(t) == GetFails(t) \/ PutFails(t) \/ ReloadFails(t)

Next ==
    \/ \E t \in Tasks, n \in Names : Call(t, n)
    \/ \E t \in Tasks : Step(t) \/ Fault(t)
    \/ \E p \in Pods : Restart(p)

Spec == Init /\ [][Next]_vars
-----------------------------------------------------------------------------
(* Properties *)

\* The configmap never gives one address to two service entries, and its list
\* of addresses is exactly the list of those addresses (the loop of
\* GenerateNewAddressAndAddToConfigMap, guarded by the resource version).
StoreConsistent == Consistent(store)

\* An address that getUniqueAddress has returned for a service entry, from the
\* configmap, from a cache or after a retry, stays the address of that service
\* entry and of no other ("a guarenteed unique local address").
GrantsAreFinal ==
    /\ \A g \in granted : store.entries[g.name] = g.addr
    /\ \A g, h \in granted : g.addr = h.addr => g.name = h.name

\* ValidateConfigmapBeforePutting never refuses an update: its own comment says
\* that a list and a map of different lengths "should be impossible".
NeverInvalid == \A t \in Tasks : work[t].pc = "put" => Valid(work[t].snap)

Book == INSTANCE AddressBook WITH book <- store.entries, answers <- granted

\* The pods, their caches and the configmap together behave like one book of
\* addresses: an update of the configmap enters one new address or changes
\* nothing, and every answer, from a cache however old, is the book's.
ImplementsBook == Book!Spec
=============================================================================
