-------------------------- MODULE LeaseStateChecker --------------------------
(***************************************************************************)
(* The DynamoDB based state checker that decides which Admiral pod is in   *)
(* read-write mode:                                                        *)
(*   admiral/pkg/clusters/admiralReadWriteLeaseStateChecker.go             *)
(*   admiral/pkg/clusters/dynamoDB.go     (the lease table)                *)
(*   admiral/pkg/clusters/registry.go     (start of a pod)                 *)
(*                                                                         *)
(* Time is discrete and kept as ages, so that it is unbounded: a time      *)
(* stamp t is represented by now - t, which Tick increments, up to a value *)
(* beyond which no comparison of the code changes any more.                *)
(***************************************************************************)
EXTENDS Naturals, FiniteSets

CONSTANTS
    Pods,           \* podIdentifier of every Admiral instance
    SkipPod,        \* skipLeaseCheckPodName
    NoOwner,        \* the empty LeaseOwner
    Wait,           \* WaitTimeInSeconds, the period of the ticker
    Threshold,      \* FailureThreshold
    Warmup,         \* CacheReconcileDuration, the time IsCacheWarmupTime holds
    InitTimeout,    \* how long a pod waits for its state to be initialized
    MaxPause,       \* longest delay of a due check, and longest check
    \* Bounds of the environment
    MaxCrashes,     \* pods that crash
    MaxFailures,    \* requests to DynamoDB that fail
    MaxParks        \* leases an operator hands to the skip pod

ASSUME LeaseAssumption ==
    /\ Wait \in Nat \ {0} /\ Threshold \in Nat /\ Warmup \in Nat
    /\ InitTimeout \in Nat /\ MaxPause \in Nat
    /\ MaxCrashes \in Nat /\ MaxFailures \in Nat /\ MaxParks \in Nat
    /\ NoOwner \notin Pods \cup {SkipPod}

Owners   == Pods \cup {SkipPod, NoOwner}
Lifetime == Wait * Threshold

\* Ages from which on every comparison has the same outcome
LeaseCap == Lifetime + MaxPause + 1
UpCap    == IF Warmup > InitTimeout THEN Warmup ELSE InitTimeout + 1

VARIABLES
    lease,      \* the lease's item in the table: its owner, the age of UpdatedTime
    pods,       \* the state of each pod
    spent       \* how much of each environment bound is used up

vars == <<lease, pods, spent>>

PodState ==
    [up       : BOOLEAN,
     age      : 0 .. UpCap,         \* time since StartTime
     left     : 1 .. Wait,          \* time until the ticker fires again
     tick     : BOOLEAN,            \* a tick waits in ticker.C
     pc       : {"wait", "scan", "decide", "put"},
     clock    : 0 .. MaxPause,      \* time since currentTime was read
     seen     : Owners,             \* LeaseOwner that getReadWriteLease returned
     expired  : BOOLEAN,            \* UpdatedTime < currentTime - Lifetime
     readOnly : BOOLEAN,            \* CurrentAdmiralState.ReadOnly
     init     : BOOLEAN]            \* CurrentAdmiralState.IsStateInitialized

TypeOK ==
    /\ lease \in [owner : Owners, age : 0 .. LeaseCap]
    /\ pods \in [Pods -> PodState]
    /\ spent \in [crashes : 0 .. MaxCrashes, failures : 0 .. MaxFailures,
                  parks : 0 .. MaxParks]

\* InitAdmiral, and runStateCheck up to its first, immediate check
Started ==
    [up |-> TRUE, age |-> 0, left |-> Wait, tick |-> TRUE, pc |-> "wait",
     clock |-> 0, seen |-> NoOwner, expired |-> FALSE,
     readOnly |-> TRUE, init |-> FALSE]

Init ==
    /\ lease = [owner |-> NoOwner, age |-> 0]
    /\ pods = [p \in Pods |-> Started]
    /\ spent = [crashes |-> 0, failures |-> 0, parks |-> 0]

IsCacheWarmupTime(p) == pods[p].age < Warmup

\* A finished check waits for the next tick; what it knew is forgotten
Idle(s) == [s EXCEPT !.pc = "wait", !.clock = 0, !.expired = FALSE]

-----------------------------------------------------------------------------
(* ExecuteStateCheck *)

\* The ticker wakes the checker, which reads the clock
StartCheck(p) ==
    /\ pods[p].up /\ pods[p].pc = "wait" /\ pods[p].tick
    /\ pods' = [pods EXCEPT ![p].tick = FALSE, ![p].pc = "scan", ![p].clock = 0]
    /\ UNCHANGED <<lease, spent>>

\* getReadWriteLease and filterOrCreateLeaseIfNotFound.  The code's Scan is
\* eventually consistent: an answer that is d old is a Scan d earlier in this
\* check, with a pause before Decide.  Answers older than the check are left out.
Scan(p) ==
    /\ pods[p].up /\ pods[p].pc = "scan"
    /\ pods' = [pods EXCEPT ![p] = [@ EXCEPT
            !.pc = "decide",
            !.seen = lease.owner,
            !.expired = lease.age > Lifetime + pods[p].clock]]
    /\ UNCHANGED <<lease, spent>>

\* The scan fails: the pod stops writing and leaves its state uninitialized
ScanFails(p) ==
    /\ pods[p].up /\ pods[p].pc = "scan"
    /\ spent.failures < MaxFailures
    /\ spent' = [spent EXCEPT !.failures = @ + 1]
    /\ pods' = [pods EXCEPT ![p] = [Idle(@) EXCEPT !.readOnly = TRUE]]
    /\ UNCHANGED lease

\* Mutant: the skip pod's lease is taken over as any other
TakesAnyLease(p) ==
    \/ pods[p].seen = NoOwner
    \/ pods[p].seen # p /\ pods[p].expired /\ ~IsCacheWarmupTime(p)

\* A pod that takes the lease does not change its mode until the next check
TakesLease(p) ==
    LET s == pods[p]
    IN \/ s.seen = NoOwner
       \/ /\ s.seen \notin {NoOwner, SkipPod, p}
          /\ s.expired /\ ~IsCacheWarmupTime(p)

\* Mutant: the owner's caches may still be warming up
RenewsAtOnce(p) == pods[p].seen = p /\ p # SkipPod

\* The owner renews the lease, except while its caches warm up
Renews(p) == pods[p].seen = p /\ p # SkipPod /\ ~IsCacheWarmupTime(p)

\* Mutant: a pod that takes the lease starts to write at once
WritesUnconfirmed(p) ==
    /\ pods[p].up /\ pods[p].pc = "decide"
    /\ pods' = [pods EXCEPT ![p] =
          IF TakesLease(p) \/ Renews(p)
          THEN [@ EXCEPT !.pc = "put", !.readOnly = FALSE, !.init = TRUE]
          ELSE [Idle(@) EXCEPT !.readOnly = TRUE, !.init = TRUE]]
    /\ UNCHANGED <<lease, spent>>

\* Mutant: a pod that is not the owner keeps its mode
KeepsMode(p) ==
    /\ pods[p].up /\ pods[p].pc = "decide"
    /\ pods' = [pods EXCEPT ![p] =
          IF TakesLease(p) THEN [@ EXCEPT !.pc = "put"]
          ELSE IF Renews(p)
          THEN [@ EXCEPT !.pc = "put", !.readOnly = FALSE, !.init = TRUE]
          ELSE [Idle(@) EXCEPT !.init = TRUE]]
    /\ UNCHANGED <<lease, spent>>

\* Mutant: the owner does not renew its lease
NeverRenews(p) ==
    /\ pods[p].up /\ pods[p].pc = "decide"
    /\ pods' = [pods EXCEPT ![p] =
          IF TakesLease(p) THEN [@ EXCEPT !.pc = "put"]
          ELSE [Idle(@) EXCEPT !.readOnly = ~Renews(p), !.init = TRUE]]
    /\ UNCHANGED <<lease, spent>>

\* The mode is set before the lease is written
Decide(p) ==
    /\ pods[p].up /\ pods[p].pc = "decide"
    /\ pods' = [pods EXCEPT ![p] =
          IF TakesLease(p) THEN [@ EXCEPT !.pc = "put"]
          ELSE IF Renews(p)
          THEN [@ EXCEPT !.pc = "put", !.readOnly = FALSE, !.init = TRUE]
          ELSE [Idle(@) EXCEPT !.readOnly = TRUE, !.init = TRUE]]
    /\ UNCHANGED <<lease, spent>>

\* Mutant: UpdatedTime is left at its zero value
PutWithoutTime(p) ==
    /\ pods[p].up /\ pods[p].pc = "put"
    /\ lease' = [owner |-> p, age |-> LeaseCap + 1]
    /\ pods' = [pods EXCEPT ![p] = Idle(@)]
    /\ UNCHANGED spent

\* updatedReadWriteLease: an unconditional PutItem, whatever the table holds
Put(p) ==
    /\ pods[p].up /\ pods[p].pc = "put"
    /\ lease' = [owner |-> p, age |-> pods[p].clock]
    /\ pods' = [pods EXCEPT ![p] = Idle(@)]
    /\ UNCHANGED spent

\* The write fails; the error is dropped and the mode stays as it is
PutFails(p) ==
    /\ pods[p].up /\ pods[p].pc = "put"
    /\ spent.failures < MaxFailures
    /\ spent' = [spent EXCEPT !.failures = @ + 1]
    /\ pods' = [pods EXCEPT ![p] = Idle(@)]
    /\ UNCHANGED lease

-----------------------------------------------------------------------------
(* Pods and time *)

Crash(p) ==
    /\ pods[p].up
    /\ spent.crashes < MaxCrashes
    /\ spent' = [spent EXCEPT !.crashes = @ + 1]
    /\ pods' = [pods EXCEPT ![p] = [Started EXCEPT !.up = FALSE]]
    /\ UNCHANGED lease

Restart(p) ==
    /\ ~pods[p].up
    /\ pods' = [pods EXCEPT ![p] = Started]
    /\ UNCHANGED <<lease, spent>>

\* pauseForAdmiralToInitializeState ends the process
Exit(p) ==
    /\ pods[p].up /\ ~pods[p].init /\ pods[p].age > InitTimeout
    /\ pods' = [pods EXCEPT ![p] = [Started EXCEPT !.up = FALSE]]
    /\ UNCHANGED <<lease, spent>>

\* An operator writes the name of the skip pod into the lease
Park ==
    /\ lease.owner # NoOwner
    /\ spent.parks < MaxParks
    /\ spent' = [spent EXCEPT !.parks = @ + 1]
    /\ lease' = [lease EXCEPT !.owner = SkipPod]
    /\ UNCHANGED pods

Older(a, cap) == IF a < cap THEN a + 1 ELSE a

\* Nothing is delayed beyond MaxPause
OnTime(s) ==
    s.up => IF s.pc = "wait" THEN s.tick => Wait - s.left < MaxPause
                             ELSE s.clock < MaxPause

\* The ticker keeps at most one tick that the checker has not received
Tick ==
    /\ \A p \in Pods : OnTime(pods[p])
    /\ lease' = [lease EXCEPT !.age = Older(@, LeaseCap)]
    /\ pods' = [p \in Pods |->
          LET s == pods[p]
          IN IF ~s.up THEN s
             ELSE [s EXCEPT !.age = Older(@, UpCap),
                            !.left = IF @ = 1 THEN Wait ELSE @ - 1,
                            !.tick = @ \/ s.left = 1,
                            !.clock = IF s.pc = "wait" THEN 0 ELSE @ + 1]]
    /\ UNCHANGED spent

-----------------------------------------------------------------------------
Check(p) == StartCheck(p) \/ Scan(p) \/ Decide(p) \/ Put(p)

Fault(p) == ScanFails(p) \/ PutFails(p) \/ Crash(p)

Next ==
    \/ Tick
    \/ Park
    \/ \E p \in Pods : Check(p) \/ Fault(p) \/ Restart(p) \/ Exit(p)

Spec == Init /\ [][Next]_vars

\* Time passes, pods run their checks and a pod that went down comes back
Fairness ==
    /\ WF_vars(Tick)
    /\ \A p \in Pods : WF_vars(Check(p)) /\ WF_vars(Restart(p)) /\ WF_vars(Exit(p))

FairSpec == Spec /\ Fairness
-----------------------------------------------------------------------------
(* Properties *)

\* The pods in read-write mode
Writers == {p \in Pods : pods[p].up /\ ~pods[p].readOnly}

\* A pod between two checks is in read-write mode only if its last check saw
\* the pod itself as the owner of the lease ("Not updating read-write mode
\* until we confirm this pod has the lease").
WritersConfirmed == \A p \in Writers : pods[p].pc = "wait" => pods[p].seen = p

\* A pod whose caches are warming up is never in read-write mode, not even
\* if it owned the lease before it was restarted.
NoWriterInWarmup == \A p \in Writers : ~IsCacheWarmupTime(p)

\* Two pods in read-write mode at once is a state that ends soon: one of them
\* has a check under way, due, or due within two pauses.  A double claim (two
\* unconditional writes of the lease by updatedReadWriteLease) never lives
\* through a full period of the ticker.
OverlapIsShort ==
    \A p, q \in Writers : p # q =>
        \E r \in {p, q} : \/ pods[r].pc # "wait" \/ pods[r].tick
                          \/ pods[r].left <= 2 * MaxPause

\* The skip pod owns the lease, and no pod is about to overwrite it because of
\* what it has read before
Parked == /\ lease.owner = SkipPod
          /\ \A p \in Pods : pods[p].pc \in {"decide", "put"} => pods[p].seen = SkipPod

\* When crashes and failures stop, one pod ends up in read-write mode and
\* stays there: the lease does not lie idle and does not change hands, unless
\* an operator has parked it.
OneWriterEventually == <>Parked \/ \E p \in Pods : <>[](Writers = {p})

\* Once the lease is parked at the skip pod, all pods become passive for good
\* ("Update the podname field to SKIP-LEASE-POD to test Admiral pods in passive
\* mode"): ExecuteStateCheck never takes that lease over, although nobody renews
\* it and its time is long past.
SkipMeansPassive == Parked ~> [](Writers = {})
=============================================================================
