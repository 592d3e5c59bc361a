---------------------------- MODULE LeaseProofs ----------------------------
(***************************************************************************)
(* Proofs about the lease: its state is typed, and no pod is in read-write *)
(* mode while its caches warm up, for every set of pods and all timing     *)
(* constants, whatever is delayed, fails or crashes.  If the constants     *)
(* relate as they do in any sensible configuration, pods write only by a   *)
(* lease that they have confirmed, and two of them only for a short time.  *)
(***************************************************************************)
EXTENDS LeaseStateChecker, TLAPS

\* The comparison IsCacheWarmupTime is decided below the cap on a pod's age,
\* and Lifetime is a number.
LEMMA Caps == UpCap \in Nat /\ LeaseCap \in Nat /\ Warmup <= UpCap
  BY LeaseAssumption DEF UpCap, LeaseCap, Lifetime

\* A pod as it is started.
LEMMA StartedType == Started \in PodState
  BY LeaseAssumption, Caps DEF Started, PodState, Owners

\* A finished check leaves a pod in a typed state.
LEMMA IdleType ==
    ASSUME NEW s \in PodState
    PROVE  Idle(s) \in PodState
  <1> DEFINE t == [s EXCEPT !.pc = "wait", !.clock = 0]
  <1>0. 0 \in 0 .. MaxPause
    BY LeaseAssumption
  <1>1. t \in PodState
    BY <1>0 DEF PodState
  <1>2. [t EXCEPT !.expired = FALSE] \in PodState
    BY <1>1 DEF PodState
  <1>3. Idle(s) = [t EXCEPT !.expired = FALSE]
    BY DEF Idle
  <1> QED
    BY <1>2, <1>3

\* A pod that does not run, or whose caches warm up, does not write.  This is
\* what NoWriterInWarmup says of one pod.
Warm(s) == s.up /\ ~s.readOnly => ~(s.age < Warmup)

LEMMA WarmPods == NoWriterInWarmup <=> \A p \in Pods : Warm(pods[p])
  BY DEF NoWriterInWarmup, Writers, Warm, IsCacheWarmupTime

\* An action of one pod keeps types and warmth if the pod's new state has both.
LEMMA OnePod ==
    ASSUME TypeOK, NEW p \in Pods, NEW s \in PodState,
           pods' = [pods EXCEPT ![p] = s]
    PROVE  /\ pods' \in [Pods -> PodState]
           /\ NoWriterInWarmup /\ Warm(s) => NoWriterInWarmup'
  <1>1. pods' \in [Pods -> PodState]
    BY DEF TypeOK
  <1>2. \A q \in Pods : pods'[q] = IF q = p THEN s ELSE pods[q]
    BY DEF TypeOK
  <1>3. ASSUME NoWriterInWarmup, Warm(s)
        PROVE  NoWriterInWarmup'
    <2>1. \A q \in Pods : Warm(pods'[q])
      BY <1>2, <1>3, WarmPods
    <2> QED
      BY <2>1 DEF NoWriterInWarmup, Writers, Warm, IsCacheWarmupTime
  <1> QED
    BY <1>1, <1>3

\* Time makes pods older and changes no mode.
LEMMA TickKeeps ==
    ASSUME TypeOK, Tick
    PROVE  TypeOK' /\ (NoWriterInWarmup => NoWriterInWarmup')
  <1> DEFINE next(s) ==
        IF ~s.up THEN s
        ELSE [s EXCEPT !.age = Older(@, UpCap),
                       !.left = IF @ = 1 THEN Wait ELSE @ - 1,
                       !.tick = @ \/ s.left = 1,
                       !.clock = IF s.pc = "wait" THEN 0 ELSE @ + 1]
  <1>1. \A p \in Pods : pods'[p] = next(pods[p])
    BY DEF Tick
  <1>2. ASSUME NEW s \in PodState, OnTime(s)
        PROVE  next(s) \in PodState /\ (Warm(s) => Warm(next(s)))
    <2>1. CASE ~s.up
      BY <2>1
    <2>2. CASE s.up
      <3>1. Older(s.age, UpCap) \in 0 .. UpCap /\ Older(s.age, UpCap) >= s.age
        BY Caps DEF PodState, Older
      <3>2. (IF s.left = 1 THEN Wait ELSE s.left - 1) \in 1 .. Wait
        BY LeaseAssumption DEF PodState
      <3>3. (IF s.pc = "wait" THEN 0 ELSE s.clock + 1) \in 0 .. MaxPause
        BY <1>2, <2>2, LeaseAssumption DEF PodState, OnTime
      <3>4. (s.tick \/ s.left = 1) \in BOOLEAN
        OBVIOUS
      <3>5. next(s) \in PodState
        BY <2>2, <3>1, <3>2, <3>3, <3>4 DEF PodState
      <3>6. Warm(s) => Warm(next(s))
        BY <2>2, <3>1, LeaseAssumption DEF PodState, Warm
      <3> QED
        BY <3>5, <3>6
    <2> QED
      BY <2>1, <2>2 DEF PodState
  <1>3. \A p \in Pods : pods[p] \in PodState /\ OnTime(pods[p])
    BY DEF TypeOK, Tick
  <1> HIDE DEF next
  <1>4. pods' \in [Pods -> PodState]
    <2>1. pods' = [p \in Pods |-> next(pods[p])]
      BY DEF Tick, next
    <2> QED
      BY <2>1, <1>2, <1>3
  <1>5. lease' \in [owner : Owners, age : 0 .. LeaseCap]
    <2>1. Older(lease.age, LeaseCap) \in 0 .. LeaseCap
      BY Caps DEF TypeOK, Older
    <2>2. lease' = [lease EXCEPT !.age = Older(lease.age, LeaseCap)]
      BY DEF Tick
    <2> QED
      BY <2>1, <2>2 DEF TypeOK
  <1>6. NoWriterInWarmup => NoWriterInWarmup'
    <2>1. NoWriterInWarmup => \A p \in Pods : Warm(pods'[p])
      BY <1>1, <1>2, <1>3, WarmPods
    <2> QED
      BY <2>1 DEF NoWriterInWarmup, Writers, Warm, IsCacheWarmupTime
  <1> QED
    BY <1>4, <1>5, <1>6 DEF TypeOK, Tick

\* Every action of a pod keeps the types, and makes a pod a writer only if its
\* caches are warm: Decide tests it in Renews, all others leave the mode alone
\* or turn it off.
LEMMA PodKeeps ==
    ASSUME TypeOK, NEW p \in Pods, Check(p) \/ Fault(p) \/ Restart(p) \/ Exit(p)
    PROVE  TypeOK' /\ (NoWriterInWarmup => NoWriterInWarmup')
  <1> DEFINE s == pods[p]
  <1>0. s \in PodState
    BY DEF TypeOK
  <1>w. NoWriterInWarmup => Warm(s)
    BY WarmPods
  <1>i. Idle(s) \in PodState /\ (Warm(s) => Warm(Idle(s)))
    BY <1>0, IdleType DEF Idle, Warm, PodState
  <1>1. CASE StartCheck(p)
    <2> DEFINE t == [s EXCEPT !.tick = FALSE, !.pc = "scan", !.clock = 0]
    <2>1. pods' = [pods EXCEPT ![p] = t]
      BY <1>1 DEF StartCheck, TypeOK
    <2>2. t \in PodState
      <3>0. 0 \in 0 .. MaxPause
        BY LeaseAssumption
      <3>1. [s EXCEPT !.pc = "scan", !.clock = 0] \in PodState
        BY <1>0, <3>0 DEF PodState
      <3>2. [[s EXCEPT !.pc = "scan", !.clock = 0] EXCEPT !.tick = FALSE] \in PodState
        BY <3>1 DEF PodState
      <3> QED
        BY <1>0, <3>2 DEF PodState
    <2>3. Warm(s) => Warm(t)
      BY <1>0 DEF PodState, Warm
    <2> QED
      BY <1>1, <1>w, <2>1, <2>2, <2>3, OnePod DEF StartCheck, TypeOK
  <1>2. CASE Scan(p)
    <2> DEFINE t == [s EXCEPT !.pc = "decide", !.seen = lease.owner,
                              !.expired = lease.age > Lifetime + s.clock]
    <2>1. pods' = [pods EXCEPT ![p] = t]
      BY <1>2 DEF Scan
    <2>2. lease.owner \in Owners /\ (lease.age > Lifetime + s.clock) \in BOOLEAN
      BY DEF TypeOK
    <2>3. t \in PodState
      BY <1>0, <2>2 DEF PodState
    <2>4. Warm(s) => Warm(t)
      BY <1>0 DEF PodState, Warm
    <2> QED
      BY <1>2, <1>w, <2>1, <2>3, <2>4, OnePod DEF Scan, TypeOK
  <1>3. CASE ScanFails(p)
    <2> DEFINE t == [Idle(s) EXCEPT !.readOnly = TRUE]
    <2>1. pods' = [pods EXCEPT ![p] = t]
      BY <1>3 DEF ScanFails
    <2>2. t \in PodState /\ Warm(t)
      BY <1>i DEF PodState, Warm
    <2>3. spent' \in [crashes : 0 .. MaxCrashes, failures : 0 .. MaxFailures,
                      parks : 0 .. MaxParks]
      BY <1>3, LeaseAssumption DEF ScanFails, TypeOK
    <2> QED
      BY <1>3, <2>1, <2>2, <2>3, OnePod DEF ScanFails, TypeOK
  <1>4. CASE Decide(p)
    <2> DEFINE t == IF TakesLease(p) THEN [s EXCEPT !.pc = "put"]
                    ELSE IF Renews(p)
                    THEN [s EXCEPT !.pc = "put", !.readOnly = FALSE, !.init = TRUE]
                    ELSE [Idle(s) EXCEPT !.readOnly = TRUE, !.init = TRUE]
    <2>1. pods' = [pods EXCEPT ![p] = t]
      BY <1>4 DEF Decide
    <2>2. t \in PodState /\ (Warm(s) => Warm(t))
      <3>1. CASE TakesLease(p)
        BY <1>0, <3>1 DEF PodState, Warm
      <3>2. CASE ~TakesLease(p) /\ Renews(p)
        BY <1>0, <3>2 DEF PodState, Warm, Renews, IsCacheWarmupTime
      <3>3. CASE ~TakesLease(p) /\ ~Renews(p)
        BY <1>i, <3>3 DEF PodState, Warm
      <3> QED
        BY <3>1, <3>2, <3>3
    <2> QED
      BY <1>4, <1>w, <2>1, <2>2, OnePod DEF Decide, TypeOK
  <1>5. CASE Put(p)
    <2>1. pods' = [pods EXCEPT ![p] = Idle(s)]
      BY <1>5 DEF Put
    <2>2. lease' \in [owner : Owners, age : 0 .. LeaseCap]
      BY <1>0, <1>5, LeaseAssumption DEF Put, PodState, Owners, LeaseCap, Lifetime
    <2> QED
      BY <1>5, <1>w, <1>i, <2>1, <2>2, OnePod DEF Put, TypeOK
  <1>6. CASE PutFails(p)
    <2>1. pods' = [pods EXCEPT ![p] = Idle(s)]
      BY <1>6 DEF PutFails
    <2>2. spent' \in [crashes : 0 .. MaxCrashes, failures : 0 .. MaxFailures,
                      parks : 0 .. MaxParks]
      BY <1>6, LeaseAssumption DEF PutFails, TypeOK
    <2> QED
      BY <1>6, <1>w, <1>i, <2>1, <2>2, OnePod DEF PutFails, TypeOK
  <1>7. CASE Crash(p) \/ Exit(p)
    <2> DEFINE t == [Started EXCEPT !.up = FALSE]
    <2>1. pods' = [pods EXCEPT ![p] = t]
      BY <1>7 DEF Crash, Exit
    <2>2. t \in PodState /\ Warm(t)
      BY StartedType DEF PodState, Warm, Started
    <2>3. spent' \in [crashes : 0 .. MaxCrashes, failures : 0 .. MaxFailures,
                      parks : 0 .. MaxParks]
      BY <1>7, LeaseAssumption DEF Crash, Exit, TypeOK
    <2> QED
      BY <1>7, <2>1, <2>2, <2>3, OnePod DEF Crash, Exit, TypeOK
  <1>8. CASE Restart(p)
    <2>1. Warm(Started)
      BY DEF Warm, Started
    <2> QED
      BY <1>8, <2>1, StartedType, OnePod DEF Restart, TypeOK
  <1> QED
    BY <1>1, <1>2, <1>3, <1>4, <1>5, <1>6, <1>7, <1>8 DEF Check, Fault

\* One step of the system keeps both.
LEMMA StepKeeps ==
    ASSUME TypeOK, [Next]_vars
    PROVE  TypeOK' /\ (NoWriterInWarmup => NoWriterInWarmup')
  <1>1. CASE Tick
    BY <1>1, TickKeeps
  <1>4. CASE Park
    <2>1. lease' \in [owner : Owners, age : 0 .. LeaseCap]
      BY <1>4 DEF Park, TypeOK, Owners
    <2>2. spent' \in [crashes : 0 .. MaxCrashes, failures : 0 .. MaxFailures,
                      parks : 0 .. MaxParks]
      BY <1>4, LeaseAssumption DEF Park, TypeOK
    <2> QED
      BY <1>4, <2>1, <2>2 DEF Park, TypeOK, NoWriterInWarmup, Writers, IsCacheWarmupTime
  <1>2. CASE \E p \in Pods : Check(p) \/ Fault(p) \/ Restart(p) \/ Exit(p)
    BY <1>2, PodKeeps
  <1>3. CASE UNCHANGED vars
    BY <1>3 DEF vars, TypeOK, NoWriterInWarmup, Writers, IsCacheWarmupTime
  <1> QED
    BY <1>1, <1>2, <1>3, <1>4 DEF Next

LEMMA InitKeeps ==
    ASSUME Init
    PROVE  TypeOK /\ NoWriterInWarmup
  <1>1. lease \in [owner : Owners, age : 0 .. LeaseCap]
    BY Caps DEF Init, Owners
  <1>2. spent \in [crashes : 0 .. MaxCrashes, failures : 0 .. MaxFailures,
                      parks : 0 .. MaxParks]
    BY LeaseAssumption DEF Init
  <1>3. pods \in [Pods -> PodState]
    BY StartedType DEF Init
  <1>4. \A p \in Pods : Warm(pods[p])
    BY DEF Init, Warm, Started
  <1> QED
    BY <1>1, <1>2, <1>3, <1>4, WarmPods DEF TypeOK

\* The lease item, every pod's record of ExecuteStateCheck and the spent
\* bounds keep their types.
THEOREM LeaseTypeCorrect == Spec => []TypeOK
  BY InitKeeps, StepKeeps, PTL DEF Spec

\* No pod is in read-write mode while IsCacheWarmupTime holds for it: the
\* tests of ExecuteStateCheck suffice, even for the owner of the lease that
\* restarts and finds its own name in the table.
THEOREM WarmPodsOnly == Spec => []NoWriterInWarmup
  <1>1. TypeOK /\ NoWriterInWarmup /\ [Next]_vars => NoWriterInWarmup'
    BY StepKeeps
  <1> QED
    BY InitKeeps, LeaseTypeCorrect, <1>1, PTL DEF Spec

-----------------------------------------------------------------------------
(***************************************************************************)
(* Who writes, and for how long two pods may.  These depend on how the     *)
(* period of the checks, their delays, the lifetime of the lease and the   *)
(* warm-up time relate.                                                    *)
(***************************************************************************)

\* A check is over before half of a period, a lease outlives a period and the
\* delays of two checks, and the caches take about a period to warm up
Timing ==
    /\ 2 * MaxPause < Wait
    /\ Wait + 2 * MaxPause <= Lifetime
    /\ Wait <= Warmup + 2 * MaxPause

\* At most the time since a pod last scanned the table, measured by its ticker
Elapsed(s) == Wait - s.left + (IF s.tick \/ s.pc = "scan" THEN Wait ELSE 0)

\* The ticker does not fire during a check, and a check starts in time
OnBeat(s) ==
    s.up => /\ s.pc # "wait" => ~s.tick /\ Wait - s.left <= MaxPause + s.clock
            /\ s.pc = "wait" /\ s.tick => Wait - s.left <= MaxPause

\* The last scan of pod p showed it its own lease, and it acts on that
Claims(p, s) ==
    /\ s.up /\ p # SkipPod
    /\ s.pc \in {"decide", "put"} => s.seen = p
    /\ s.pc \in {"wait", "scan"} => ~s.readOnly

\* A pod in read-write mode has a reason to be, or is about to leave it
Faithful(p, s) ==
    s.up /\ ~s.readOnly =>
        /\ p # SkipPod
        /\ s.pc # "decide" => s.seen = p
        /\ s.pc = "decide" => /\ s.seen # NoOwner
                              /\ s.seen \in {p, SkipPod} \/ ~s.expired

Beats == \A p \in Pods : OnBeat(pods[p]) /\ Faithful(p, pods[p])

\* A lease that somebody else has written since is not much older than the scan
Fresh ==
    \A p \in Pods : Claims(p, pods[p]) =>
        /\ lease.owner # NoOwner
        /\ lease.owner \in {p, SkipPod} \/ lease.age <= MaxPause + Elapsed(pods[p])

\* If q has taken the lease from p, the scan of p came before the check in
\* which q did so, or q has been restarted since
Overtaken ==
    \A p, q \in Pods :
        Claims(p, pods[p]) /\ p # q /\ q # SkipPod /\ lease.owner = q /\ pods[q].up =>
            \/ Elapsed(pods[q]) <= Elapsed(pods[p]) + 2 * MaxPause
            \/ pods[q].age <= Elapsed(pods[p])

Late(s, t) == Wait <= Elapsed(s) + 2 * MaxPause \/ t.age <= Elapsed(s)

\* Of two pods that both have seen their own lease, one has seen it long ago
Rivals ==
    \A p, q \in Pods :
        Claims(p, pods[p]) /\ Claims(q, pods[q]) /\ p # q =>
            Late(pods[p], pods[q]) \/ Late(pods[q], pods[p])

TimeInv == TypeOK /\ Beats /\ Fresh /\ Overtaken /\ Rivals

LEMMA Numbers == /\ Wait \in Nat /\ Wait >= 1 /\ MaxPause \in Nat /\ Warmup \in Nat
                 /\ Lifetime \in Nat
  BY LeaseAssumption DEF Lifetime

LEMMA PodNumbers ==
    ASSUME NEW s \in PodState
    PROVE  /\ s.left \in Nat /\ 1 <= s.left /\ s.left <= Wait /\ s.age \in Nat
           /\ s.clock \in Nat /\ s.clock <= MaxPause /\ s.tick \in BOOLEAN /\ s.up \in BOOLEAN
           /\ s.readOnly \in BOOLEAN /\ s.expired \in BOOLEAN
           /\ s.pc \in {"wait", "scan", "decide", "put"}
           /\ Elapsed(s) \in Nat /\ (s.tick \/ s.pc = "scan" => Elapsed(s) >= Wait)
<1>1. /\ s.left \in Nat /\ 1 <= s.left /\ s.left <= Wait /\ s.age \in Nat
      /\ s.clock \in Nat /\ s.clock <= MaxPause /\ s.tick \in BOOLEAN /\ s.up \in BOOLEAN
      /\ s.readOnly \in BOOLEAN /\ s.expired \in BOOLEAN
      /\ s.pc \in {"wait", "scan", "decide", "put"}
  BY Numbers, Caps DEF PodState
<1>2. QED
  BY <1>1, Numbers DEF Elapsed

\* One pod goes on without looking at the table, and nobody writes it
LEMMA OnePodTimely ==
    ASSUME TimeInv, NEW p \in Pods, NEW t \in PodState, pods' = [pods EXCEPT ![p] = t],
           UNCHANGED lease, OnBeat(t), Faithful(p, t),
           Claims(p, t) => Claims(p, pods[p]) /\ Elapsed(t) >= Elapsed(pods[p]),
           t.up => \/ t.age = 0
                   \/ pods[p].up /\ t.age = pods[p].age /\ Elapsed(t) <= Elapsed(pods[p])
    PROVE  Beats' /\ Fresh' /\ Overtaken' /\ Rivals'
<1>1. \A q \in Pods : pods[q] \in PodState /\ pods'[q] = IF q = p THEN t ELSE pods[q]
  BY DEF TimeInv, TypeOK
<1>2. /\ \A q \in Pods : Elapsed(pods[q]) \in Nat /\ pods[q].age \in Nat
      /\ Elapsed(t) \in Nat /\ t.age \in Nat /\ lease.age \in Nat
  <2>1. lease.age \in Nat
    BY Caps DEF TimeInv, TypeOK
  <2>2. QED
    BY <1>1, <2>1, PodNumbers
<1>3. Beats'
  BY <1>1 DEF TimeInv, Beats
<1>4. ASSUME NEW q \in Pods, Claims(q, pods'[q])
      PROVE  Claims(q, pods[q]) /\ Elapsed(pods'[q]) >= Elapsed(pods[q])
  BY <1>1, <1>2, <1>4
<1>5. ASSUME NEW q \in Pods, pods'[q].up
      PROVE  \/ pods'[q].age = 0
             \/ /\ pods[q].up /\ pods'[q].age = pods[q].age
                /\ Elapsed(pods'[q]) <= Elapsed(pods[q])
  BY <1>1, <1>2, <1>5
<1>6. Fresh'
  <2>1. SUFFICES ASSUME NEW q \in Pods, Claims(q, pods'[q])
                 PROVE  /\ lease.owner # NoOwner
                        /\ \/ lease.owner \in {q, SkipPod}
                           \/ lease.age <= MaxPause + Elapsed(pods'[q])
    BY DEF Fresh, Claims, Elapsed
  <2>2. /\ lease.owner # NoOwner
        /\ lease.owner \in {q, SkipPod} \/ lease.age <= MaxPause + Elapsed(pods[q])
    BY <1>4, <2>1 DEF TimeInv, Fresh
  <2>3. Elapsed(pods'[q]) >= Elapsed(pods[q]) /\ Elapsed(pods'[q]) \in Nat
    BY <1>1, <1>2, <1>4, <2>1
  <2>4. QED
    BY <1>2, <2>2, <2>3, Numbers
<1>7. Overtaken'
  <2>1. SUFFICES ASSUME NEW r \in Pods, NEW q \in Pods, Claims(r, pods'[r]), r # q, q # SkipPod,
                        lease.owner = q, pods'[q].up
                 PROVE  \/ Elapsed(pods'[q]) <= Elapsed(pods'[r]) + 2 * MaxPause
                        \/ pods'[q].age <= Elapsed(pods'[r])
    BY DEF Overtaken, Claims, Elapsed
  <2>2. /\ Elapsed(pods'[r]) >= Elapsed(pods[r]) /\ Elapsed(pods'[r]) \in Nat
        /\ Elapsed(pods'[q]) \in Nat /\ pods'[q].age \in Nat
    BY <1>1, <1>2, <1>4, <2>1
  <2>3. CASE pods'[q].age = 0
    BY <2>2, <2>3
  <2>4. CASE /\ pods[q].up /\ pods'[q].age = pods[q].age
             /\ Elapsed(pods'[q]) <= Elapsed(pods[q])
    <3>1. \/ Elapsed(pods[q]) <= Elapsed(pods[r]) + 2 * MaxPause
          \/ pods[q].age <= Elapsed(pods[r])
      BY <1>4, <2>1, <2>4 DEF TimeInv, Overtaken
    <3>2. QED
      BY <1>2, <2>2, <2>4, <3>1, Numbers
  <2>5. QED
    BY <1>5, <2>1, <2>3, <2>4
<1>8. Rivals'
  <2>1. SUFFICES ASSUME NEW r \in Pods, NEW q \in Pods, Claims(r, pods'[r]), Claims(q, pods'[q]),
                        r # q
                 PROVE  Late(pods'[r], pods'[q]) \/ Late(pods'[q], pods'[r])
    BY DEF Rivals, Claims, Late, Elapsed
  <2>2. ASSUME NEW a \in {r, q}, NEW b \in {r, q}, Late(pods[a], pods[b])
        PROVE  Late(pods'[a], pods'[b])
    <3>1. Elapsed(pods'[a]) >= Elapsed(pods[a]) /\ Elapsed(pods'[a]) \in Nat
      BY <1>1, <1>2, <1>4, <2>1
    <3>2. pods'[b].age \in Nat /\ pods'[b].age <= pods[b].age
      BY <1>1, <1>2, <1>5, <2>1 DEF Claims
    <3>3. QED
      BY <1>2, <2>2, <3>1, <3>2, Numbers DEF Late
  <2>3. Late(pods[r], pods[q]) \/ Late(pods[q], pods[r])
    BY <1>4, <2>1 DEF TimeInv, Rivals
  <2>4. QED
    BY <2>2, <2>3
<1>9. QED
  BY <1>3, <1>6, <1>7, <1>8

\* The state t into which an action puts the pod p
LEMMA NewState ==
    ASSUME TypeOK, TypeOK', NEW p \in Pods, NEW t, pods' = [pods EXCEPT ![p] = t]
    PROVE  t \in PodState
  BY DEF TypeOK

\* A check that ends leaves the pod waiting, and its mode and ticker as they are
LEMMA IdleFields ==
    ASSUME NEW s \in PodState
    PROVE  /\ Idle(s).pc = "wait" /\ Idle(s).up = s.up /\ Idle(s).age = s.age
           /\ Idle(s).left = s.left /\ Idle(s).tick = s.tick /\ Idle(s).seen = s.seen
           /\ Idle(s).readOnly = s.readOnly
  BY DEF Idle, PodState

LEMMA PodTimely ==
    ASSUME Timing, TimeInv, TypeOK', NEW p \in Pods,
           \/ StartCheck(p) \/ ScanFails(p) \/ Decide(p) \/ PutFails(p)
           \/ Crash(p) \/ Exit(p) \/ Restart(p)
    PROVE  Beats' /\ Fresh' /\ Overtaken' /\ Rivals'
<1>1. PICK s \in PodState : s = pods[p]
  BY DEF TimeInv, TypeOK
<1>2. OnBeat(s) /\ Faithful(p, s) /\ Wait \in Nat /\ MaxPause \in Nat /\ 2 * MaxPause < Wait
  BY <1>1, Numbers DEF TimeInv, Beats, Timing
<1>3. /\ s.left \in Nat /\ s.left <= Wait /\ s.clock \in Nat /\ s.clock <= MaxPause
      /\ s.age \in Nat /\ Elapsed(s) \in Nat /\ p # NoOwner
      /\ s.tick \in BOOLEAN /\ s.up \in BOOLEAN /\ s.readOnly \in BOOLEAN /\ s.expired \in BOOLEAN
  BY PodNumbers, LeaseAssumption
<1>4. CASE StartCheck(p)
  <2> DEFINE t == [s EXCEPT !.tick = FALSE, !.pc = "scan", !.clock = 0]
  <2>1. pods' = [pods EXCEPT ![p] = t] /\ UNCHANGED lease /\ s.up /\ s.pc = "wait" /\ s.tick
    BY <1>1, <1>4 DEF StartCheck, TimeInv, TypeOK
  <2>2. /\ t.up = s.up /\ t.age = s.age /\ t.left = s.left /\ t.tick = FALSE /\ t.pc = "scan"
        /\ t.clock = 0 /\ t.seen = s.seen /\ t.readOnly = s.readOnly
    BY DEF PodState
  <2> HIDE DEF t
  <2>3. t \in PodState
    BY <2>1, NewState DEF TimeInv
  <2>4. OnBeat(t) /\ Faithful(p, t)
    BY <1>2, <1>3, <2>1, <2>2 DEF OnBeat, Faithful
  <2>5. /\ Claims(p, t) => Claims(p, s)
        /\ Elapsed(t) <= Elapsed(s) /\ Elapsed(t) >= Elapsed(s)
    BY <1>3, <2>1, <2>2 DEF Claims, Elapsed
  <2>6. QED
    BY <1>1, <1>3, <2>1, <2>2, <2>3, <2>4, <2>5, OnePodTimely
<1>5. CASE ScanFails(p)
  <2> DEFINE t == [Idle(s) EXCEPT !.readOnly = TRUE]
  <2>1. pods' = [pods EXCEPT ![p] = t] /\ UNCHANGED lease /\ s.up /\ s.pc = "scan"
    BY <1>1, <1>5 DEF ScanFails, TimeInv, TypeOK
  <2>2. /\ t.up = s.up /\ t.age = s.age /\ t.left = s.left /\ t.tick = s.tick /\ t.pc = "wait"
        /\ t.readOnly
    BY IdleFields, IdleType DEF PodState
  <2> HIDE DEF t
  <2>3. t \in PodState
    BY <2>1, NewState DEF TimeInv
  <2>4. OnBeat(t) /\ Faithful(p, t) /\ ~Claims(p, t)
    BY <1>2, <1>3, <2>1, <2>2 DEF OnBeat, Faithful, Claims
  <2>5. Elapsed(t) <= Elapsed(s)
    BY <1>2, <1>3, <2>1, <2>2 DEF OnBeat, Elapsed
  <2>6. QED
    BY <1>1, <1>3, <2>1, <2>2, <2>3, <2>4, <2>5, OnePodTimely
<1>6. CASE Decide(p)
  <2>1. /\ UNCHANGED lease /\ s.up /\ s.pc = "decide"
        /\ pods' = [pods EXCEPT ![p] =
              IF TakesLease(p) THEN [s EXCEPT !.pc = "put"]
              ELSE IF Renews(p)
              THEN [s EXCEPT !.pc = "put", !.readOnly = FALSE, !.init = TRUE]
              ELSE [Idle(s) EXCEPT !.readOnly = TRUE, !.init = TRUE]]
    BY <1>1, <1>6 DEF Decide, TimeInv, TypeOK
  <2>2. /\ ~s.tick /\ Wait - s.left <= MaxPause + s.clock
    BY <1>2, <2>1 DEF OnBeat
  <2>3. CASE TakesLease(p)
    <3> DEFINE t == [s EXCEPT !.pc = "put"]
    <3>1. pods' = [pods EXCEPT ![p] = t]
      BY <2>1, <2>3
    <3>2. /\ t.up = s.up /\ t.age = s.age /\ t.left = s.left /\ t.tick = s.tick /\ t.pc = "put"
          /\ t.clock = s.clock /\ t.seen = s.seen /\ t.readOnly = s.readOnly
      BY DEF PodState
    <3> HIDE DEF t
    <3>3. t \in PodState
      BY <3>1, NewState DEF TimeInv
    <3>4. s.seen # p /\ s.readOnly
      BY <1>1, <1>2, <1>3, <2>1, <2>3 DEF TakesLease, Faithful
    <3>5. OnBeat(t) /\ Faithful(p, t) /\ ~Claims(p, t)
      BY <1>2, <1>3, <2>1, <2>2, <3>2, <3>4 DEF OnBeat, Faithful, Claims
    <3>6. Elapsed(t) <= Elapsed(s) /\ Elapsed(t) >= Elapsed(s)
      BY <1>2, <1>3, <2>1, <2>2, <3>2 DEF Elapsed
    <3>7. QED
      BY <1>1, <1>3, <2>1, <3>1, <3>2, <3>3, <3>5, <3>6, OnePodTimely
  <2>4. CASE ~TakesLease(p) /\ Renews(p)
    <3> DEFINE t == [s EXCEPT !.pc = "put", !.readOnly = FALSE, !.init = TRUE]
    <3>1. pods' = [pods EXCEPT ![p] = t]
      BY <2>1, <2>4
    <3>2. /\ t.up = s.up /\ t.age = s.age /\ t.left = s.left /\ t.tick = s.tick /\ t.pc = "put"
          /\ t.clock = s.clock /\ t.seen = s.seen
      BY DEF PodState
    <3> HIDE DEF t
    <3>3. t \in PodState
      BY <3>1, NewState DEF TimeInv
    <3>4. s.seen = p /\ p # SkipPod
      BY <1>1, <2>4 DEF Renews
    <3>5. OnBeat(t) /\ Faithful(p, t) /\ Claims(p, s)
      BY <1>2, <1>3, <2>1, <2>2, <3>2, <3>4 DEF OnBeat, Faithful, Claims
    <3>6. Elapsed(t) <= Elapsed(s) /\ Elapsed(t) >= Elapsed(s)
      BY <1>2, <1>3, <2>1, <2>2, <3>2 DEF Elapsed
    <3>7. QED
      BY <1>1, <1>3, <2>1, <3>1, <3>2, <3>3, <3>5, <3>6, OnePodTimely
  <2>5. CASE ~TakesLease(p) /\ ~Renews(p)
    <3> DEFINE t == [Idle(s) EXCEPT !.readOnly = TRUE, !.init = TRUE]
    <3>1. pods' = [pods EXCEPT ![p] = t]
      BY <2>1, <2>5
    <3>2. /\ t.up = s.up /\ t.age = s.age /\ t.left = s.left /\ t.tick = s.tick /\ t.pc = "wait"
          /\ t.readOnly
      BY IdleFields, IdleType DEF PodState
    <3> HIDE DEF t
    <3>3. t \in PodState
      BY <3>1, NewState DEF TimeInv
    <3>4. OnBeat(t) /\ Faithful(p, t) /\ ~Claims(p, t)
      BY <1>2, <1>3, <2>1, <2>2, <3>2 DEF OnBeat, Faithful, Claims
    <3>5. Elapsed(t) <= Elapsed(s) /\ Elapsed(t) >= Elapsed(s)
      BY <1>2, <1>3, <2>1, <2>2, <3>2 DEF Elapsed
    <3>6. QED
      BY <1>1, <1>3, <2>1, <3>1, <3>2, <3>3, <3>4, <3>5, OnePodTimely
  <2>6. QED
    BY <2>3, <2>4, <2>5
<1>7. CASE PutFails(p)
  <2> DEFINE t == Idle(s)
  <2>1. pods' = [pods EXCEPT ![p] = t] /\ UNCHANGED lease /\ s.up /\ s.pc = "put"
    BY <1>1, <1>7 DEF PutFails, TimeInv, TypeOK
  <2>2. /\ t.up = s.up /\ t.age = s.age /\ t.left = s.left /\ t.tick = s.tick /\ t.pc = "wait"
        /\ t.readOnly = s.readOnly /\ t.seen = s.seen
    BY IdleFields
  <2> HIDE DEF t
  <2>3. t \in PodState
    BY <2>1, NewState DEF TimeInv
  <2>4. OnBeat(t) /\ Faithful(p, t) /\ (Claims(p, t) => Claims(p, s))
    BY <1>2, <1>3, <2>1, <2>2 DEF OnBeat, Faithful, Claims
  <2>5. Elapsed(t) <= Elapsed(s) /\ Elapsed(t) >= Elapsed(s)
    BY <1>2, <1>3, <2>1, <2>2 DEF Elapsed
  <2>6. QED
    BY <1>1, <1>3, <2>1, <2>2, <2>3, <2>4, <2>5, OnePodTimely
<1>8. CASE Crash(p) \/ Exit(p) \/ Restart(p)
  <2>1. PICK t \in {Started, [Started EXCEPT !.up = FALSE]} :
           pods' = [pods EXCEPT ![p] = t] /\ UNCHANGED lease
    BY <1>8 DEF Crash, Exit, Restart
  <2>2. /\ t.age = 0 /\ t.left = Wait /\ t.tick /\ t.pc = "wait" /\ t.readOnly
    BY <2>1 DEF Started
  <2>3. t \in PodState
    BY <2>1, NewState DEF TimeInv
  <2>4. OnBeat(t) /\ Faithful(p, t) /\ ~Claims(p, t)
    BY <1>2, <2>2 DEF OnBeat, Faithful, Claims
  <2>5. QED
    BY <2>1, <2>2, <2>3, <2>4, OnePodTimely
<1>9. QED
  BY <1>4, <1>5, <1>6, <1>7, <1>8

LEMMA ScanTimely ==
    ASSUME Timing, TimeInv, TypeOK', NEW p \in Pods, Scan(p)
    PROVE  Beats' /\ Fresh' /\ Overtaken' /\ Rivals'
<1>1. PICK s \in PodState : s = pods[p]
  BY DEF TimeInv, TypeOK
<1> DEFINE t == [s EXCEPT !.pc = "decide", !.seen = lease.owner,
                          !.expired = lease.age > Lifetime + s.clock]
<1>2. pods' = [pods EXCEPT ![p] = t] /\ UNCHANGED lease /\ s.up /\ s.pc = "scan"
  BY <1>1 DEF Scan
<1>3. /\ t.up = s.up /\ t.age = s.age /\ t.left = s.left /\ t.tick = s.tick /\ t.pc = "decide"
      /\ t.clock = s.clock /\ t.seen = lease.owner /\ t.readOnly = s.readOnly
      /\ t.expired = (lease.age > Lifetime + s.clock)
  BY DEF PodState
<1> HIDE DEF t
<1>4. t \in PodState
  BY <1>2, NewState DEF TimeInv
<1>5. /\ Wait \in Nat /\ MaxPause \in Nat /\ Lifetime \in Nat /\ 2 * MaxPause < Wait
      /\ Wait + 2 * MaxPause <= Lifetime /\ lease.age \in Nat
  BY Numbers, Caps DEF TimeInv, Timing, TypeOK
<1>6. /\ s.left \in Nat /\ s.left <= Wait /\ s.clock \in Nat /\ s.age \in Nat
      /\ Elapsed(s) \in Nat /\ Elapsed(t) \in Nat
      /\ s.tick \in BOOLEAN /\ s.up \in BOOLEAN /\ s.readOnly \in BOOLEAN
  BY <1>4, PodNumbers
<1>7. OnBeat(s) /\ Faithful(p, s)
  BY <1>1 DEF TimeInv, Beats
<1>8. ~s.tick /\ Wait - s.left <= MaxPause + s.clock
  BY <1>2, <1>7 DEF OnBeat
<1>9. Elapsed(t) = Wait - s.left /\ Elapsed(s) = Wait - s.left + Wait
  BY <1>2, <1>3, <1>5, <1>6, <1>8 DEF Elapsed
<1>10. OnBeat(t)
  BY <1>3, <1>8 DEF OnBeat
<1>11. Faithful(p, t)
  <2>1. SUFFICES ASSUME ~s.readOnly
                 PROVE  /\ p # SkipPod /\ lease.owner # NoOwner
                        /\ lease.owner \in {p, SkipPod} \/ ~(lease.age > Lifetime + s.clock)
    BY <1>3 DEF Faithful
  <2>2. p # SkipPod /\ Claims(p, s)
    BY <1>2, <1>7, <2>1 DEF Faithful, Claims
  <2>3. /\ lease.owner # NoOwner
        /\ lease.owner \in {p, SkipPod} \/ lease.age <= MaxPause + Elapsed(s)
    BY <1>1, <2>2 DEF TimeInv, Fresh
  <2>4. MaxPause + Elapsed(s) <= Lifetime + s.clock
    BY <1>5, <1>6, <1>8, <1>9
  <2>5. QED
    BY <1>5, <1>6, <2>2, <2>3, <2>4
<1>12. CASE lease.owner # p \/ p = SkipPod
  <2>1. ~Claims(p, t)
    BY <1>3, <1>12 DEF Claims
  <2>2. Elapsed(t) <= Elapsed(s)
    BY <1>5, <1>6, <1>9
  <2>3. QED
    BY <1>1, <1>2, <1>3, <1>4, <1>10, <1>11, <2>1, <2>2, OnePodTimely
<1>13. CASE lease.owner = p /\ p # SkipPod
  <2>1. \A q \in Pods : pods[q] \in PodState /\ pods'[q] = IF q = p THEN t ELSE pods[q]
    BY <1>2 DEF TimeInv, TypeOK
  <2>2. \A q \in Pods : Elapsed(pods[q]) \in Nat /\ pods[q].age \in Nat
    BY <2>1, PodNumbers
  <2>3. Beats'
    BY <1>10, <1>11, <2>1 DEF TimeInv, Beats
  <2>4. \A q \in Pods : q # p /\ Claims(q, pods[q]) =>
           Wait <= Elapsed(pods[q]) + 2 * MaxPause \/ t.age <= Elapsed(pods[q])
    <3>1. SUFFICES ASSUME NEW q \in Pods, q # p, Claims(q, pods[q])
                   PROVE  Wait <= Elapsed(pods[q]) + 2 * MaxPause \/ t.age <= Elapsed(pods[q])
      OBVIOUS
    <3>2. Elapsed(s) <= Elapsed(pods[q]) + 2 * MaxPause \/ s.age <= Elapsed(pods[q])
      BY <1>1, <1>2, <1>13, <3>1 DEF TimeInv, Overtaken
    <3>3. QED
      BY <1>3, <1>5, <1>6, <1>9, <2>2, <3>2
  <2>5. Fresh'
    <3>1. \A q \in Pods : Claims(q, pods'[q]) =>
             /\ lease.owner # NoOwner
             /\ lease.owner \in {q, SkipPod} \/ lease.age <= MaxPause + Elapsed(pods'[q])
      BY <1>13, <2>1, LeaseAssumption DEF TimeInv, Fresh
    <3>2. QED
      BY <1>2, <3>1 DEF Fresh, Claims, Elapsed
  <2>6. Overtaken'
    <3>1. SUFFICES ASSUME NEW r \in Pods, Claims(r, pods[r]), r # p
                   PROVE  Elapsed(t) <= Elapsed(pods[r]) + 2 * MaxPause \/ t.age <= Elapsed(pods[r])
      BY <1>2, <1>13, <2>1 DEF Overtaken, Claims, Elapsed
    <3>2. Elapsed(s) <= Elapsed(pods[r]) + 2 * MaxPause \/ s.age <= Elapsed(pods[r])
      BY <1>1, <1>2, <1>13, <3>1 DEF TimeInv, Overtaken
    <3>3. QED
      BY <1>3, <1>5, <1>6, <1>9, <2>2, <3>2
  <2>7. Rivals'
    <3>1. SUFFICES ASSUME NEW r \in Pods, NEW q \in Pods, r # q, Claims(r, pods'[r]),
                          Claims(q, pods'[q])
                   PROVE  Late(pods'[r], pods'[q]) \/ Late(pods'[q], pods'[r])
      BY DEF Rivals, Claims, Late, Elapsed
    <3>2. CASE r # p /\ q # p
      BY <2>1, <3>1, <3>2 DEF TimeInv, Rivals
    <3>3. CASE r = p
      BY <2>1, <2>4, <3>1, <3>3 DEF Late
    <3>4. CASE q = p
      BY <2>1, <2>4, <3>1, <3>4 DEF Late
    <3>5. QED
      BY <3>2, <3>3, <3>4
  <2>8. QED
    BY <2>3, <2>5, <2>6, <2>7
<1>14. QED
  BY <1>12, <1>13

LEMMA PutTimely ==
    ASSUME Timing, TimeInv, TypeOK', NEW p \in Pods, Put(p)
    PROVE  Beats' /\ Fresh' /\ Overtaken' /\ Rivals'
<1>1. PICK s \in PodState : s = pods[p]
  BY DEF TimeInv, TypeOK
<1>2. PICK t : t = Idle(s)
  OBVIOUS
<1>3. /\ pods' = [pods EXCEPT ![p] = t] /\ lease'.owner = p /\ lease'.age = s.clock
      /\ s.up /\ s.pc = "put"
  BY <1>1, <1>2 DEF Put
<1>4. /\ t.up = s.up /\ t.age = s.age /\ t.left = s.left /\ t.tick = s.tick /\ t.pc = "wait"
      /\ t.seen = s.seen /\ t.readOnly = s.readOnly
  BY <1>2, IdleFields
<1>5. t \in PodState
  BY <1>3, NewState DEF TimeInv
<1>6. /\ s.left \in Nat /\ s.left <= Wait /\ s.clock \in Nat /\ s.clock <= MaxPause
      /\ s.age \in Nat /\ s.tick \in BOOLEAN /\ s.up \in BOOLEAN /\ s.readOnly \in BOOLEAN
      /\ Wait \in Nat /\ MaxPause \in Nat /\ 2 * MaxPause < Wait
  BY PodNumbers, Numbers DEF Timing
<1>7. OnBeat(s) /\ Faithful(p, s)
  BY <1>1 DEF TimeInv, Beats
<1>8. ~s.tick /\ Wait - s.left <= 2 * MaxPause
  BY <1>3, <1>6, <1>7 DEF OnBeat
<1>9. OnBeat(t) /\ Faithful(p, t) /\ (Claims(p, t) => Claims(p, s))
  BY <1>3, <1>4, <1>6, <1>7, <1>8 DEF OnBeat, Faithful, Claims
<1>10. Elapsed(t) = Elapsed(s) /\ Elapsed(t) <= 2 * MaxPause
  BY <1>3, <1>4, <1>6, <1>8 DEF Elapsed
<1>11. \A q \in Pods : pods[q] \in PodState /\ pods'[q] = IF q = p THEN t ELSE pods[q]
  BY <1>3 DEF TimeInv, TypeOK
<1>12. \A q \in Pods : /\ Elapsed(pods[q]) \in Nat /\ Elapsed(pods'[q]) = Elapsed(pods[q])
                       /\ pods'[q].age = pods[q].age
                       /\ Claims(q, pods'[q]) => Claims(q, pods[q])
  BY <1>1, <1>4, <1>9, <1>10, <1>11, PodNumbers
<1>13. Beats'
  BY <1>9, <1>11 DEF TimeInv, Beats
<1>14. Fresh'
  <2>1. \A q \in Pods : lease'.owner # NoOwner /\ lease'.age <= MaxPause + Elapsed(pods'[q])
    BY <1>3, <1>6, <1>12, LeaseAssumption
  <2>2. QED
    BY <2>1 DEF Fresh, Claims, Elapsed
<1>15. Overtaken'
  <2>1. \A r \in Pods : Elapsed(pods'[p]) <= Elapsed(pods'[r]) + 2 * MaxPause
    <3>1. Elapsed(pods'[p]) <= 2 * MaxPause
      BY <1>10, <1>11
    <3>2. QED
      BY <1>6, <1>12, <3>1
  <2>2. QED
    BY <1>3, <2>1 DEF Overtaken, Claims, Elapsed
<1>16. Rivals'
  <2>1. SUFFICES ASSUME NEW r \in Pods, NEW q \in Pods, r # q, Claims(r, pods'[r]),
                        Claims(q, pods'[q])
                 PROVE  Late(pods'[r], pods'[q]) \/ Late(pods'[q], pods'[r])
    BY DEF Rivals, Claims, Late, Elapsed
  <2>2. Late(pods[r], pods[q]) \/ Late(pods[q], pods[r])
    BY <1>12, <2>1 DEF TimeInv, Rivals
  <2>3. QED
    BY <1>12, <2>2 DEF Late
<1>17. QED
  BY <1>13, <1>14, <1>15, <1>16

\* What a unit of time does to a pod
LEMMA TickPod ==
    ASSUME Timing, TimeInv, Tick, NEW p \in Pods
    PROVE  /\ pods'[p].up = pods[p].up /\ pods'[p].pc = pods[p].pc
           /\ pods'[p].seen = pods[p].seen /\ pods'[p].readOnly = pods[p].readOnly
           /\ pods'[p].expired = pods[p].expired /\ OnBeat(pods'[p])
           /\ pods[p].up => /\ Elapsed(pods'[p]) = Elapsed(pods[p]) + 1
                            /\ pods'[p].age \in Nat /\ pods'[p].age <= pods[p].age + 1
<1>1. PICK s \in PodState : s = pods[p] /\ OnTime(s) /\ OnBeat(s)
  BY DEF TimeInv, TypeOK, Tick, Beats
<1>2. CASE ~s.up
  <2>1. pods'[p] = s
    BY <1>1, <1>2 DEF Tick
  <2>2. QED
    BY <1>1, <1>2, <2>1 DEF OnBeat
<1>3. CASE s.up
  <2> DEFINE t == [s EXCEPT !.age = Older(@, UpCap),
                            !.left = IF @ = 1 THEN Wait ELSE @ - 1,
                            !.tick = @ \/ s.left = 1,
                            !.clock = IF s.pc = "wait" THEN 0 ELSE @ + 1]
  <2>1. pods'[p] = t
    BY <1>1, <1>3 DEF Tick
  <2>2. /\ t.up = s.up /\ t.pc = s.pc /\ t.seen = s.seen /\ t.readOnly = s.readOnly
        /\ t.expired = s.expired /\ t.age = Older(s.age, UpCap)
        /\ t.left = (IF s.left = 1 THEN Wait ELSE s.left - 1)
        /\ t.tick = (s.tick \/ s.left = 1)
        /\ t.clock = (IF s.pc = "wait" THEN 0 ELSE s.clock + 1)
    BY DEF PodState
  <2> HIDE DEF t
  <2>3. /\ s.left \in Nat /\ 1 <= s.left /\ s.left <= Wait /\ s.clock \in Nat /\ s.age \in Nat
        /\ s.tick \in BOOLEAN /\ s.pc \in {"wait", "scan", "decide", "put"}
        /\ Wait \in Nat /\ MaxPause \in Nat /\ 2 * MaxPause < Wait
    BY PodNumbers, Numbers DEF Timing
  <2>4. t.age \in Nat /\ t.age <= s.age + 1
    BY <2>2, <2>3 DEF Older
  <2>5. CASE s.pc = "wait"
    <3>1. s.tick => s.left > 1 /\ Wait - s.left < MaxPause
      BY <1>1, <1>3, <2>3, <2>5 DEF OnTime
    <3>2. OnBeat(t)
      BY <2>2, <2>3, <2>5, <3>1 DEF OnBeat
    <3>3. Elapsed(t) = Elapsed(s) + 1
      <4>1. CASE s.left = 1
        <5>1. t.left = Wait /\ Elapsed(t) = Wait - t.left + Wait
          BY <2>2, <4>1 DEF Elapsed
        <5>2. Elapsed(s) = Wait - s.left + 0
          BY <2>5, <3>1, <4>1, <2>3 DEF Elapsed
        <5>3. QED
          BY <2>3, <4>1, <5>1, <5>2
      <4>2. CASE s.left # 1 /\ s.tick
        <5>1. t.left = s.left - 1 /\ Elapsed(t) = Wait - t.left + Wait
          BY <2>2, <4>2 DEF Elapsed
        <5>2. Elapsed(s) = Wait - s.left + Wait
          BY <4>2 DEF Elapsed
        <5>3. QED
          BY <2>3, <5>1, <5>2
      <4>3. CASE s.left # 1 /\ ~s.tick
        BY <2>2, <2>3, <2>5, <4>3 DEF Elapsed
      <4>4. QED
        BY <4>1, <4>2, <4>3
    <3>4. QED
      BY <1>1, <2>1, <2>2, <2>4, <3>2, <3>3
  <2>6. CASE s.pc # "wait"
    <3>1. /\ ~s.tick /\ s.clock < MaxPause /\ Wait - s.left <= MaxPause + s.clock
      BY <1>1, <1>3, <2>6 DEF OnTime, OnBeat
    <3>2. s.left > 1
      BY <2>3, <3>1
    <3>3. OnBeat(t)
      BY <2>2, <2>3, <2>6, <3>1, <3>2 DEF OnBeat
    <3>4. Elapsed(t) = Elapsed(s) + 1
      BY <2>2, <2>3, <2>6, <3>1, <3>2 DEF Elapsed
    <3>5. QED
      BY <1>1, <2>1, <2>2, <2>4, <3>3, <3>4
  <2>7. QED
    BY <2>5, <2>6
<1>4. QED
  BY <1>2, <1>3, <1>1, PodNumbers

LEMMA TickTimely ==
    ASSUME Timing, TimeInv, Tick
    PROVE  Beats' /\ Fresh' /\ Overtaken' /\ Rivals'
<1>1. /\ lease'.owner = lease.owner /\ lease.age \in Nat /\ lease'.age \in Nat
      /\ lease'.age <= lease.age + 1
  <2>1. /\ lease \in [owner : Owners, age : 0 .. LeaseCap]
        /\ lease' = [lease EXCEPT !.age = Older(lease.age, LeaseCap)]
    BY DEF Tick, TimeInv, TypeOK
  <2>2. lease.age \in Nat /\ lease'.age = Older(lease.age, LeaseCap) /\ lease'.owner = lease.owner
    BY <2>1, Caps
  <2>3. QED
    BY <2>2, Caps DEF Older
<1>2. \A q \in Pods : /\ Elapsed(pods[q]) \in Nat /\ pods[q].age \in Nat
                      /\ pods'[q].up = pods[q].up
                      /\ Claims(q, pods'[q]) = Claims(q, pods[q])
                      /\ pods[q].up => /\ Elapsed(pods'[q]) = Elapsed(pods[q]) + 1
                                       /\ pods'[q].age \in Nat
                                       /\ pods'[q].age <= pods[q].age + 1
  <2>1. \A q \in Pods : pods[q] \in PodState
    BY DEF TimeInv, TypeOK
  <2>2. \A q \in Pods : Elapsed(pods[q]) \in Nat /\ pods[q].age \in Nat
    BY <2>1, PodNumbers
  <2>3. \A q \in Pods : Claims(q, pods'[q]) = Claims(q, pods[q])
    BY TickPod DEF Claims
  <2>4. QED
    BY <2>2, <2>3, TickPod
<1>3. \A q \in Pods : Claims(q, pods[q]) => pods[q].up
  BY DEF Claims
<1>4. Beats'
  <2>1. \A q \in Pods : OnBeat(pods'[q]) /\ Faithful(q, pods'[q])
    BY TickPod DEF TimeInv, Beats, Faithful
  <2>2. QED
    BY <2>1 DEF Beats
<1>5. Fresh'
  <2>1. \A q \in Pods : Claims(q, pods'[q]) =>
           /\ lease'.owner # NoOwner
           /\ lease'.owner \in {q, SkipPod} \/ lease'.age <= MaxPause + Elapsed(pods'[q])
    BY <1>1, <1>2, <1>3, Numbers DEF TimeInv, Fresh
  <2>2. QED
    BY <2>1 DEF Fresh, Claims, Elapsed
<1>6. Overtaken'
  <2>1. SUFFICES ASSUME NEW r \in Pods, NEW q \in Pods, Claims(r, pods'[r]), r # q, q # SkipPod,
                        lease'.owner = q, pods'[q].up
                 PROVE  \/ Elapsed(pods'[q]) <= Elapsed(pods'[r]) + 2 * MaxPause
                        \/ pods'[q].age <= Elapsed(pods'[r])
    BY DEF Overtaken, Claims, Elapsed
  <2>2. \/ Elapsed(pods[q]) <= Elapsed(pods[r]) + 2 * MaxPause
        \/ pods[q].age <= Elapsed(pods[r])
    BY <1>1, <1>2, <2>1 DEF TimeInv, Overtaken
  <2>3. QED
    BY <1>2, <1>3, <2>1, <2>2, Numbers
<1>7. Rivals'
  <2>1. SUFFICES ASSUME NEW r \in Pods, NEW q \in Pods, r # q, Claims(r, pods'[r]),
                        Claims(q, pods'[q])
                 PROVE  Late(pods'[r], pods'[q]) \/ Late(pods'[q], pods'[r])
    BY DEF Rivals, Claims, Late, Elapsed
  <2>2. Late(pods[r], pods[q]) \/ Late(pods[q], pods[r])
    BY <1>2, <2>1 DEF TimeInv, Rivals
  <2>3. QED
    BY <1>2, <1>3, <2>1, <2>2, Numbers DEF Late
<1>8. QED
  BY <1>4, <1>5, <1>6, <1>7

LEMMA ParkTimely ==
    ASSUME TimeInv, Park
    PROVE  Beats' /\ Fresh' /\ Overtaken' /\ Rivals'
<1>1. lease'.owner = SkipPod /\ SkipPod # NoOwner /\ pods' = pods
  <2>1. lease \in [owner : Owners, age : 0 .. LeaseCap] /\ lease' = [lease EXCEPT !.owner = SkipPod]
    BY DEF Park, TimeInv, TypeOK
  <2>2. QED
    BY <2>1, LeaseAssumption DEF Park
<1>2. QED
  BY <1>1 DEF TimeInv, Beats, Fresh, Overtaken, Rivals, OnBeat, Faithful, Claims, Late, Elapsed

LEMMA TimeInit == Init => TimeInv
<1> SUFFICES ASSUME Init
             PROVE  TimeInv
  OBVIOUS
<1>1. TypeOK /\ \A p \in Pods : pods[p] = Started
  BY InitKeeps DEF Init
<1>2. Beats
  BY <1>1, Numbers DEF Beats, OnBeat, Faithful, Started
<1>3. \A p \in Pods : ~Claims(p, pods[p])
  BY <1>1 DEF Claims, Started
<1>4. QED
  BY <1>1, <1>2, <1>3 DEF TimeInv, Fresh, Overtaken, Rivals

LEMMA TimeStep ==
    ASSUME Timing
    PROVE  TimeInv /\ [Next]_vars => TimeInv'
<1> SUFFICES ASSUME TimeInv, [Next]_vars
             PROVE  TimeInv'
  OBVIOUS
<1>1. TypeOK'
  BY StepKeeps DEF TimeInv
<1>2. ASSUME NEW p \in Pods, Check(p) \/ Fault(p) \/ Restart(p) \/ Exit(p)
      PROVE  TimeInv'
  BY <1>1, <1>2, PodTimely, ScanTimely, PutTimely DEF Check, Fault, TimeInv
<1>3. CASE Tick
  BY <1>1, <1>3, TickTimely DEF TimeInv
<1>4. CASE Park
  BY <1>1, <1>4, ParkTimely DEF TimeInv
<1>5. CASE UNCHANGED vars
  <2>1. pods' = pods /\ lease' = lease
    BY <1>5 DEF vars
  <2>2. Beats' /\ Fresh' /\ Overtaken' /\ Rivals'
    BY <2>1 DEF TimeInv, Beats, Fresh, Overtaken, Rivals, OnBeat, Faithful, Claims, Late, Elapsed
  <2>3. QED
    BY <1>1, <2>2 DEF TimeInv
<1>6. QED
  BY <1>2, <1>3, <1>4, <1>5 DEF Next

\* A pod that waits for its next check in read-write mode has seen its own
\* lease in the last one.  In particular a pod in read-write mode never comes
\* to take over the lease: it would write on without having confirmed that it
\* has it.  This needs the lease to outlive the time between two scans of a pod.
THEOREM ConfirmedWriters ==
    ASSUME Timing
    PROVE  Spec => []WritersConfirmed
<1>1. TimeInv => WritersConfirmed
  BY DEF TimeInv, Beats, Faithful, WritersConfirmed, Writers
<1>2. TimeInv /\ [Next]_vars => TimeInv'
  BY TimeStep
<1>3. QED
  BY <1>1, <1>2, TimeInit, PTL DEF Spec

\* Two pods are in read-write mode at once only until the next check of one of
\* them, and that check is under way or near: of any number of pods that write
\* the lease unconditionally, at most one goes on for a full period.
THEOREM ShortOverlap ==
    ASSUME Timing
    PROVE  Spec => []OverlapIsShort
<1>1. TimeInv /\ NoWriterInWarmup => OverlapIsShort
  <2>1. SUFFICES ASSUME TimeInv, NoWriterInWarmup, NEW p \in Writers, NEW q \in Writers, p # q,
                        pods[p].pc = "wait", ~pods[p].tick, pods[q].pc = "wait", ~pods[q].tick
                 PROVE  pods[p].left <= 2 * MaxPause \/ pods[q].left <= 2 * MaxPause
    BY DEF OverlapIsShort
  <2>2. \A r \in {p, q} : /\ r \in Pods /\ pods[r] \in PodState /\ pods[r].up /\ ~pods[r].readOnly
                          /\ ~(pods[r].age < Warmup) /\ Elapsed(pods[r]) = Wait - pods[r].left + 0
    BY <2>1 DEF TimeInv, TypeOK, Writers, NoWriterInWarmup, IsCacheWarmupTime, Elapsed
  <2>3. Claims(p, pods[p]) /\ Claims(q, pods[q])
    BY <2>1, <2>2 DEF TimeInv, Beats, Faithful, Claims
  <2>4. Late(pods[p], pods[q]) \/ Late(pods[q], pods[p])
    BY <2>1, <2>2, <2>3 DEF TimeInv, Rivals
  <2>5. \A r \in {p, q} : pods[r].left \in Nat /\ pods[r].age \in Nat /\ pods[r].age >= Warmup
    BY <2>2, PodNumbers, Numbers
  <2>6. QED
    BY <2>2, <2>4, <2>5, Numbers DEF Late, Timing
<1>2. TimeInv /\ [Next]_vars => TimeInv'
  BY TimeStep
<1>3. QED
  BY <1>1, <1>2, TimeInit, WarmPodsOnly, PTL DEF Spec
=============================================================================
