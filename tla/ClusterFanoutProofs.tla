------------------------- MODULE ClusterFanoutProofs -------------------------
(***************************************************************************)
(* Proofs about ClusterFanout, for any entries, any finite set of clusters,*)
(* any number of workers and any outcomes.                                 *)
(***************************************************************************)
EXTENDS ClusterFanout, FiniteSetTheorems, TLAPS

-----------------------------------------------------------------------------
(* Type correctness                                                        *)

LEMMA ClustersLen == clustersLen \in Nat
  BY FanoutAssumption, FS_CardinalityType DEF clustersLen

LEMMA TypeInit == Init => TypeOK
  BY FanoutAssumption DEF Init, TypeOK, Caller, Errors, nil

\* What a worker that is busy has
LEMMA BusyType ==
    ASSUME TypeOK, NEW e \in Entries, NEW w \in Workers,
           work[e][w].pc \in {"working", "skipping", "sending"}
    PROVE  /\ work[e][w] \in Busy
           /\ work[e][w].cluster \in Clusters
           /\ work[e][w].err \in Errors
  BY DEF TypeOK, Busy, Unstarted, Waiting, Exited

\* A step of a worker that leaves it busy, waiting or exited
LEMMA WorkType ==
    ASSUME TypeOK, NEW e \in Entries, NEW w \in Workers,
           NEW task \in Busy \cup {Unstarted, Waiting, Exited},
           work' = [work EXCEPT ![e][w] = task]
    PROVE  work' \in [Entries -> [Workers -> Busy \cup {Unstarted, Waiting, Exited}]]
  BY DEF TypeOK

LEMMA CallerType ==
    ASSUME TypeOK
    PROVE  /\ caller.pc # "refused" => caller.err \in Errors
           /\ caller.pc \in {"feed", "collect"} => caller.entry \in Entries
           /\ caller.pc = "feed" =>
                 caller = [pc |-> "feed", err |-> caller.err, entry |-> caller.entry,
                           left |-> caller.left] /\ caller.left \subseteq Clusters
           /\ caller.pc = "collect" =>
                 caller = [pc |-> "collect", err |-> caller.err, entry |-> caller.entry,
                           left |-> caller.left] /\ caller.left \in 0 .. clustersLen
  BY DEF TypeOK, Caller

LEMMA TypeStep == TypeOK /\ [Next]_vars => TypeOK'
<1> SUFFICES ASSUME TypeOK, [Next]_vars
             PROVE  TypeOK'
  OBVIOUS
<1>1. ASSUME NEW e \in Entries, NextEntry(e)
      PROVE  TypeOK'
  <2>1. caller' \in Caller
    BY <1>1, CallerType DEF NextEntry, Caller
  <2>2. work' \in [Entries -> [Workers -> Busy \cup {Unstarted, Waiting, Exited}]]
    <3>1. [u \in Workers |-> Waiting] \in [Workers -> Busy \cup {Unstarted, Waiting, Exited}]
      OBVIOUS
    <3>2. QED
      BY <1>1, <3>1 DEF NextEntry, TypeOK
  <2>3. QED
    BY <1>1, <2>1, <2>2 DEF NextEntry, TypeOK
<1>2. ASSUME NEW c \in Clusters, Feed(c)
      PROVE  TypeOK'
  <2>1. caller' \in Caller
    BY <1>2, CallerType DEF Feed, Caller
  <2>2. clusters' \in [Entries -> [queue : Seq(Clusters), closed : BOOLEAN]]
    <3>1. Append(clusters[caller.entry].queue, c) \in Seq(Clusters) /\ caller.entry \in Entries
      BY <1>2, CallerType DEF Feed, TypeOK
    <3>2. QED
      BY <1>2, <3>1 DEF Feed, TypeOK
  <2>3. QED
    BY <1>2, <2>1, <2>2 DEF Feed, TypeOK
<1>3. CASE Close
  <2>1. caller' = [pc |-> "collect", err |-> caller.err, entry |-> caller.entry,
                   left |-> clustersLen]
    BY <1>3, CallerType DEF Close
  <2>2. caller' \in Caller
    BY <1>3, <2>1, CallerType, ClustersLen DEF Close, Caller
  <2>3. clusters' \in [Entries -> [queue : Seq(Clusters), closed : BOOLEAN]]
    BY <1>3, CallerType DEF Close, TypeOK
  <2>4. QED
    BY <1>3, <2>2, <2>3 DEF Close, TypeOK
<1>4. CASE Collect
  <2>1. /\ Head(errors[caller.entry]) \in Errors /\ Tail(errors[caller.entry]) \in Seq(Errors)
        /\ caller.entry \in Entries
    BY <1>4, CallerType DEF Collect, TypeOK
  <2>2. caller' = [pc |-> "collect", err |-> caller.err \cup Head(errors[caller.entry]),
                   entry |-> caller.entry, left |-> caller.left - 1]
    BY <1>4, CallerType DEF Collect
  <2>3. caller.err \cup Head(errors[caller.entry]) \in Errors /\ caller.left - 1 \in 0 .. clustersLen
    BY <1>4, <2>1, CallerType, ClustersLen DEF Collect, Errors
  <2>4. caller' \in Caller
    BY <2>1, <2>2, <2>3 DEF Caller
  <2>5. errors' \in [Entries -> Seq(Errors)]
    BY <1>4, <2>1 DEF Collect, TypeOK
  <2>6. QED
    BY <1>4, <2>4, <2>5 DEF Collect, TypeOK
<1>5. CASE Continue
  BY <1>5, CallerType DEF Continue, TypeOK, Caller
<1>6. CASE Return
  BY <1>6, CallerType DEF Return, TypeOK, Caller
<1>7. ASSUME NEW e \in Entries, NEW w \in Workers, Take(e, w)
      PROVE  TypeOK'
  <2>1. Head(clusters[e].queue) \in Clusters /\ Tail(clusters[e].queue) \in Seq(Clusters)
    BY <1>7 DEF Take, TypeOK
  <2>2. work' \in [Entries -> [Workers -> Busy \cup {Unstarted, Waiting, Exited}]]
    BY <1>7, <2>1, WorkType DEF Take, Busy, Errors, nil
  <2>3. clusters' \in [Entries -> [queue : Seq(Clusters), closed : BOOLEAN]]
    BY <1>7, <2>1 DEF Take, TypeOK
  <2>4. QED
    BY <1>7, <2>2, <2>3 DEF Take, TypeOK
<1>8. ASSUME NEW e \in Entries, NEW w \in Workers, Drop(e, w) \/ NoPairs(e, w)
      PROVE  TypeOK'
  <2>1. work[e][w] \in Busy /\ work[e][w].cluster \in Clusters
    BY <1>8, BusyType DEF Drop, NoPairs
  <2>2. work' \in [Entries -> [Workers -> Busy \cup {Unstarted, Waiting, Exited}]]
    <3>1. work' = [work EXCEPT ![e][w].pc = "sending"]
      BY <1>8 DEF Drop, NoPairs
    <3>2. QED
      BY <2>1, <3>1 DEF TypeOK, Busy
  <2>3. /\ done' \in [Entries -> [Clusters -> Nat]]
        /\ \A f \in Entries, c \in Clusters : done'[f][c] <= NumSeDrs[f]
    <3>1. done' = [done EXCEPT ![e][work[e][w].cluster] = NumSeDrs[e]] /\ NumSeDrs[e] \in Nat
      BY <1>8, FanoutAssumption DEF Drop, NoPairs
    <3>2. done' \in [Entries -> [Clusters -> Nat]]
      BY <3>1, <2>1 DEF TypeOK
    <3>3. QED
      BY <3>1, <3>2, <2>1 DEF TypeOK
  <2>4. QED
    BY <1>8, <2>2, <2>3 DEF Drop, NoPairs, TypeOK
<1>9. ASSUME NEW e \in Entries, NEW w \in Workers, Exit(e, w)
      PROVE  TypeOK'
  BY <1>9, WorkType DEF Exit, TypeOK
<1>10. ASSUME NEW e \in Entries, NEW w \in Workers, HandleSeDr(e, w)
       PROVE  TypeOK'
  <2> DEFINE c == work[e][w].cluster
  <2>1. work[e][w] \in Busy /\ c \in Clusters
    BY <1>10, BusyType DEF HandleSeDr
  <2>2. work' \in [Entries -> [Workers -> Busy \cup {Unstarted, Waiting, Exited}]]
    <3>1. CASE UNCHANGED work
      BY <3>1 DEF TypeOK
    <3>2. CASE work' = [work EXCEPT ![e][w].err = @ \cup {<<e, c>>}]
      <4>1. [work[e][w] EXCEPT !.err = @ \cup {<<e, c>>}] \in Busy
        BY <2>1 DEF Busy, Errors
      <4>2. work' = [work EXCEPT ![e][w] = [work[e][w] EXCEPT !.err = @ \cup {<<e, c>>}]]
        BY <3>2
      <4>3. QED
        BY <4>1, <4>2, WorkType
    <3>3. CASE work' = [work EXCEPT ![e][w].pc = "skipping"]
      BY <2>1, <3>3 DEF TypeOK, Busy
    <3>4. QED
      BY <1>10, <3>1, <3>2, <3>3 DEF HandleSeDr
  <2>3. /\ done' \in [Entries -> [Clusters -> Nat]]
        /\ \A f \in Entries, d \in Clusters : done'[f][d] <= NumSeDrs[f]
    <3>1. /\ done' = [done EXCEPT ![e][c] = @ + 1] /\ done[e][c] < NumSeDrs[e]
      BY <1>10 DEF HandleSeDr
    <3>2. done[e][c] \in Nat /\ NumSeDrs[e] \in Nat
      BY <2>1, FanoutAssumption DEF TypeOK
    <3>3. done' \in [Entries -> [Clusters -> Nat]]
      BY <3>1, <3>2, <2>1 DEF TypeOK
    <3>4. QED
      BY <3>1, <3>2, <3>3, <2>1 DEF TypeOK
  <2>4. failed' \subseteq Entries \X Clusters
    BY <1>10, <2>1 DEF HandleSeDr, TypeOK
  <2>5. QED
    BY <1>10, <2>2, <2>3, <2>4 DEF HandleSeDr, TypeOK
<1>11. ASSUME NEW e \in Entries, NEW w \in Workers, SendSkip(e, w)
       PROVE  TypeOK'
  <2>1. work[e][w] \in Busy
    BY <1>11, BusyType DEF SendSkip
  <2>2. work' \in [Entries -> [Workers -> Busy \cup {Unstarted, Waiting, Exited}]]
    BY <1>11, <2>1 DEF SendSkip, TypeOK, Busy
  <2>3. errors' \in [Entries -> Seq(Errors)]
    BY <1>11 DEF SendSkip, TypeOK, Errors, nil
  <2>4. QED
    BY <1>11, <2>2, <2>3 DEF SendSkip, TypeOK
<1>12. ASSUME NEW e \in Entries, NEW w \in Workers, EndCluster(e, w)
       PROVE  TypeOK'
  <2>1. work[e][w] \in Busy /\ work[e][w].cluster \in Clusters
    BY <1>12, BusyType DEF EndCluster
  <2>2. work' \in [Entries -> [Workers -> Busy \cup {Unstarted, Waiting, Exited}]]
    BY <1>12, <2>1 DEF EndCluster, TypeOK, Busy
  <2>3. QED
    BY <1>12, <2>1, <2>2 DEF EndCluster, TypeOK
<1>13. ASSUME NEW e \in Entries, NEW w \in Workers, Send(e, w)
       PROVE  TypeOK'
  <2>1. work[e][w].err \in Errors
    BY <1>13, BusyType DEF Send
  <2>2. errors' \in [Entries -> Seq(Errors)]
    BY <1>13, <2>1 DEF Send, TypeOK
  <2>3. QED
    BY <1>13, <2>2, WorkType DEF Send, TypeOK
<1>14. CASE UNCHANGED vars
  BY <1>14 DEF vars, TypeOK
<1>15. QED
  BY <1>1, <1>2, <1>3, <1>4, <1>5, <1>6, <1>7, <1>8, <1>9, <1>10, <1>11, <1>12, <1>13, <1>14
  DEF Next, CallerStep, WorkerStep

\* Type correctness of AddServiceEntriesWithDrToAllCluster: among others, no
\* worker handles more objects of an entry in a cluster than there are.
THEOREM FanoutTypeCorrect == Spec => []TypeOK
  BY TypeInit, TypeStep, PTL DEF Spec

-----------------------------------------------------------------------------
(***************************************************************************)
(* Where a cluster is.  The answers the caller receives carry no name of a *)
(* cluster: that all are in is known from their number only.  The          *)
(* invariant therefore counts.  A cluster the caller still has, one in the *)
(* channel and one held by a worker is in that place only, and the others  *)
(* are as many as the answers received and those in the channel.           *)
(***************************************************************************)
Current(e) == caller.pc \in {"feed", "collect"} /\ caller.entry = e

\* The workers of e were started
Begun(e) == Current(e) \/ \E w \in Workers : work[e][w] # Unstarted

Left(e, c)     == caller.pc = "feed" /\ caller.entry = e /\ c \in caller.left
Queued(e, c)   == \E i \in 1 .. Len(clusters[e].queue) : clusters[e].queue[i] = c
Holds(e, w, c) == /\ work[e][w].pc \in {"working", "skipping", "sending"}
                  /\ work[e][w].cluster = c
Held(e, c)     == \E w \in Workers : Holds(e, w, c)

\* The clusters that a worker has sent its answer for
Answered(e) == {c \in Clusters : ~Left(e, c) /\ ~Queued(e, c) /\ ~Held(e, c)}

\* How many answers the caller has received
Received(e) ==
    IF ~Current(e) THEN clustersLen
    ELSE IF caller.pc = "feed" THEN 0 ELSE clustersLen - caller.left

OnePlace(e) ==
    /\ \A i, j \in 1 .. Len(clusters[e].queue) :
         clusters[e].queue[i] = clusters[e].queue[j] => i = j
    /\ \A u, w \in Workers, c \in Clusters : Holds(e, u, c) /\ Holds(e, w, c) => u = w
    /\ \A c \in Clusters : /\ ~ (Left(e, c) /\ Queued(e, c))
                           /\ ~ (Left(e, c) /\ Held(e, c))
                           /\ ~ (Queued(e, c) /\ Held(e, c))

Counted(e) == Cardinality(Answered(e)) = Received(e) + Len(errors[e])

Handled(e) ==
    /\ \A c \in Answered(e) : done[e][c] = NumSeDrs[e]
    /\ \A w \in Workers : work[e][w].pc = "sending" =>
                             done[e][work[e][w].cluster] = NumSeDrs[e]

\* An entry the caller has not come to has empty channels
Untouched ==
    \A e \in todo : /\ ~Begun(e) /\ errors[e] = << >>
                    /\ clusters[e].queue = << >>

Accounts == \A e \in Entries \ skipped : Begun(e) => OnePlace(e) /\ Counted(e) /\ Handled(e)

\* A failure is known to a worker, in the channel, or received
Told ==
    \A e \in Entries, c \in Clusters : <<e, c>> \in failed =>
       \/ caller.pc = "refused" \/ <<e, c>> \in caller.err
       \/ \E i \in 1 .. Len(errors[e]) : <<e, c>> \in errors[e][i]
       \/ \E w \in Workers : Holds(e, w, c) /\ <<e, c>> \in work[e][w].err

FanoutInv == TypeOK /\ Untouched /\ Accounts /\ Told

LEMMA InvInit == Init => FanoutInv
<1> SUFFICES ASSUME Init
             PROVE  FanoutInv
  OBVIOUS
<1>1. \A e \in Entries : ~Begun(e)
  BY DEF Init, Begun, Current
<1>2. Untouched
  BY <1>1, FanoutAssumption DEF Init, Untouched
<1>3. Accounts /\ Told
  BY <1>1 DEF Init, Accounts, Told
<1>4. QED
  BY <1>2, <1>3, TypeInit DEF FanoutInv

LEMMA AnsweredFinite == \A e : IsFiniteSet(Answered(e)) /\ Cardinality(Answered(e)) \in Nat
<1> SUFFICES ASSUME NEW e
             PROVE  IsFiniteSet(Answered(e)) /\ Cardinality(Answered(e)) \in Nat
  OBVIOUS
<1>1. Answered(e) \in SUBSET Clusters
  BY DEF Answered
<1>2. QED
  BY <1>1, FanoutAssumption, FS_Subset, FS_CardinalityType

\* A step that moves no cluster of e and receives no answer for it
LEMMA Unmoved ==
    ASSUME NEW e \in Entries,
           clusters'[e].queue = clusters[e].queue, errors'[e] = errors[e],
           \A w \in Workers, c \in Clusters : Holds(e, w, c)' <=> Holds(e, w, c),
           \A c \in Clusters : Left(e, c)' <=> Left(e, c),
           Received(e)' = Received(e), OnePlace(e), Counted(e)
    PROVE  OnePlace(e)' /\ Counted(e)' /\ Answered(e)' = Answered(e)
<1>1. \A c \in Clusters : (Queued(e, c)' <=> Queued(e, c)) /\ (Held(e, c)' <=> Held(e, c))
  BY DEF Queued, Held
<1>2. Answered(e)' = Answered(e)
  BY <1>1 DEF Answered
<1>3. OnePlace(e)'
  BY <1>1 DEF OnePlace
<1>4. QED
  BY <1>2, <1>3 DEF Counted

\* A step that does not concern e
LEMMA Elsewhere ==
    ASSUME NEW e \in Entries,
           clusters'[e].queue = clusters[e].queue, errors'[e] = errors[e],
           work'[e] = work[e], done'[e] = done[e],
           \A c \in Clusters : Left(e, c)' <=> Left(e, c),
           Received(e)' = Received(e), OnePlace(e), Counted(e), Handled(e)
    PROVE  OnePlace(e)' /\ Counted(e)' /\ Handled(e)'
<1>1. \A w \in Workers, c \in Clusters : Holds(e, w, c)' <=> Holds(e, w, c)
  BY DEF Holds
<1>2. OnePlace(e)' /\ Counted(e)' /\ Answered(e)' = Answered(e)
  BY <1>1, Unmoved
<1>3. QED
  BY <1>2 DEF Handled

\* A worker takes a step for e: the other entries
LEMMA OtherEntries ==
    ASSUME FanoutInv, NEW e \in Entries, UNCHANGED <<caller, todo>>,
           \A f \in Entries \ {e} :
              /\ clusters'[f] = clusters[f] /\ errors'[f] = errors[f]
              /\ work'[f] = work[f] /\ done'[f] = done[f]
              /\ f \in skipped <=> f \in skipped',
           Begun(e),
           e \notin skipped' => OnePlace(e)' /\ Counted(e)' /\ Handled(e)'
    PROVE  Untouched' /\ Accounts'
<1>1. \A f \in Entries : /\ Received(f)' = Received(f) /\ Current(f)' = Current(f)
                          /\ \A c \in Clusters : Left(f, c)' <=> Left(f, c)
  BY DEF Received, Current, Left
<1>2. \A f \in Entries \ {e} : Begun(f)' <=> Begun(f)
  BY <1>1 DEF Begun
<1>3. Untouched'
  <2>1. e \notin todo /\ todo' = todo /\ todo \subseteq Entries
    BY DEF FanoutInv, Untouched, TypeOK
  <2>2. QED
    BY <1>2, <2>1 DEF FanoutInv, Untouched
<1>4. ASSUME NEW f \in Entries \ skipped', Begun(f)'
      PROVE  OnePlace(f)' /\ Counted(f)' /\ Handled(f)'
  <2>1. CASE f = e
    BY <2>1, <1>4
  <2>2. CASE f # e
    <3>1. OnePlace(f) /\ Counted(f) /\ Handled(f)
      BY <1>2, <1>4, <2>2 DEF FanoutInv, Accounts
    <3>2. QED
      BY <1>1, <2>2, <3>1, Elsewhere
  <2>3. QED
    BY <2>1, <2>2
<1>5. QED
  BY <1>3, <1>4 DEF Accounts

-----------------------------------------------------------------------------
(* The workers                                                             *)

\* A worker goes on with the cluster it holds, or with none
LEMMA WorkerGoesOn ==
    ASSUME FanoutInv, NEW e \in Entries, NEW w \in Workers, Begun(e),
           UNCHANGED <<caller, todo, clusters, errors, skipped>>,
           \A f \in Entries \ {e} : work'[f] = work[f] /\ done'[f] = done[f],
           \A u \in Workers, c \in Clusters : Holds(e, u, c)' <=> Holds(e, u, c),
           \A u \in Workers \ {w} : work'[e][u] = work[e][u],
           \A c \in Clusters : ~Holds(e, w, c) => done'[e][c] = done[e][c],
           work'[e][w].pc = "sending" => done'[e][work'[e][w].cluster] = NumSeDrs[e]
    PROVE  Untouched' /\ Accounts'
<1>1. ASSUME e \notin skipped'
      PROVE  OnePlace(e)' /\ Counted(e)' /\ Handled(e)'
  <2>1. OnePlace(e) /\ Counted(e) /\ Handled(e)
    BY <1>1 DEF FanoutInv, Accounts
  <2>2. Received(e)' = Received(e) /\ \A c \in Clusters : Left(e, c)' <=> Left(e, c)
    BY DEF Received, Current, Left
  <2>3. OnePlace(e)' /\ Counted(e)' /\ Answered(e)' = Answered(e)
    BY <2>1, <2>2, Unmoved
  <2>4. \A c \in Answered(e) : done'[e][c] = NumSeDrs[e]
    BY <2>1 DEF Handled, Answered, Held
  <2>5. ASSUME NEW u \in Workers, work'[e][u].pc = "sending"
        PROVE  done'[e][work'[e][u].cluster] = NumSeDrs[e]
    <3>1. CASE u = w
      BY <2>5, <3>1
    <3>2. CASE u # w
      <4> DEFINE c == work[e][u].cluster
      <4>1. work[e][u].pc = "sending" /\ work'[e][u].cluster = c /\ c \in Clusters
        BY <2>5, <3>2, BusyType DEF FanoutInv
      <4>2. Holds(e, u, c) /\ ~Holds(e, w, c)
        BY <4>1, <3>2, <2>1 DEF Holds, OnePlace
      <4>3. QED
        BY <4>1, <4>2, <2>1 DEF Handled
    <3>3. QED
      BY <3>1, <3>2
  <2>6. QED
    BY <2>3, <2>4, <2>5 DEF Handled
<1>2. QED
  BY <1>1, OtherEntries

LEMMA TakeStep ==
    ASSUME FanoutInv, NEW e \in Entries, NEW w \in Workers, Take(e, w)
    PROVE  Untouched' /\ Accounts'
<1> DEFINE q == clusters[e].queue
           h == Head(clusters[e].queue)
<1>1. /\ work[e][w] = Waiting /\ q # << >>
      /\ work' = [work EXCEPT ![e][w] = [pc |-> "working", err |-> nil, cluster |-> h]]
      /\ clusters' = [clusters EXCEPT ![e].queue = Tail(q)]
      /\ UNCHANGED <<caller, todo, errors, done, skipped>>
  BY DEF Take
<1>2. /\ q \in Seq(Clusters) /\ h \in Clusters /\ h = q[1]
      /\ clusters'[e].queue = Tail(q)
      /\ work'[e][w] = [pc |-> "working", err |-> nil, cluster |-> h]
      /\ \A u \in Workers \ {w} : work'[e][u] = work[e][u]
  BY <1>1 DEF FanoutInv, TypeOK
<1>3. Begun(e)
  BY <1>1 DEF Begun, Waiting, Unstarted
<1>4. ASSUME e \notin skipped'
      PROVE  OnePlace(e)' /\ Counted(e)' /\ Handled(e)'
  <2>1. OnePlace(e) /\ Counted(e) /\ Handled(e)
    BY <1>1, <1>3, <1>4 DEF FanoutInv, Accounts
  <2>2. Received(e)' = Received(e) /\ \A c \in Clusters : Left(e, c)' <=> Left(e, c)
    BY <1>1 DEF Received, Current, Left
  <2>3. /\ Len(Tail(q)) = Len(q) - 1
        /\ \A i \in 1 .. Len(Tail(q)) : Tail(q)[i] = q[i + 1]
        /\ Len(q) \in Nat /\ Len(q) > 0
    BY <1>1, <1>2
  <2>4. /\ \A i, j \in 1 .. Len(q) : q[i] = q[j] => i = j
        /\ \A u, v \in Workers, c \in Clusters : Holds(e, u, c) /\ Holds(e, v, c) => u = v
        /\ \A c \in Clusters : /\ ~ (Left(e, c) /\ Queued(e, c))
                               /\ ~ (Left(e, c) /\ Held(e, c))
                               /\ ~ (Queued(e, c) /\ Held(e, c))
    BY <2>1 DEF OnePlace
  <2>5. \A c \in Clusters : Queued(e, c)' <=> Queued(e, c) /\ c # h
    <3>1. ASSUME NEW c \in Clusters, Queued(e, c)'
          PROVE  Queued(e, c) /\ c # h
      <4>1. PICK i \in 1 .. Len(Tail(q)) : Tail(q)[i] = c
        BY <3>1, <1>2 DEF Queued
      <4>2. i + 1 \in 1 .. Len(q) /\ q[i + 1] = c /\ i + 1 # 1
        BY <4>1, <2>3
      <4>3. c # q[1]
        BY <4>2, <2>3, <2>4
      <4>4. QED
        BY <4>2, <4>3, <1>2 DEF Queued
    <3>2. ASSUME NEW c \in Clusters, Queued(e, c), c # h
          PROVE  Queued(e, c)'
      <4>1. PICK i \in 1 .. Len(q) : q[i] = c
        BY <3>2 DEF Queued
      <4>2. i - 1 \in 1 .. Len(Tail(q)) /\ Tail(q)[i - 1] = c
        BY <4>1, <3>2, <1>2, <2>3
      <4>3. QED
        BY <4>2, <1>2 DEF Queued
    <3>3. QED
      BY <3>1, <3>2
  <2>6. Queued(e, h)
    BY <1>2, <2>3 DEF Queued
  <2>7. \A u \in Workers, c \in Clusters :
           Holds(e, u, c)' <=> (u = w /\ c = h) \/ (u # w /\ Holds(e, u, c))
    BY <1>2 DEF Holds
  <2>8. \A c \in Clusters : ~Holds(e, w, c)
    BY <1>1 DEF Holds, Waiting
  <2>9. \A c \in Clusters : Held(e, c)' <=> Held(e, c) \/ c = h
    BY <2>7, <2>8 DEF Held
  <2>10. Answered(e)' = Answered(e)
    BY <2>2, <2>5, <2>6, <2>9 DEF Answered
  <2>11. OnePlace(e)'
    <3>1. \A i, j \in 1 .. Len(Tail(q)) : Tail(q)[i] = Tail(q)[j] => i = j
      BY <2>3, <2>4
    <3>2. \A u, v \in Workers, c \in Clusters : Holds(e, u, c)' /\ Holds(e, v, c)' => u = v
      BY <2>4, <2>6, <2>7 DEF Held
    <3>3. \A c \in Clusters : /\ ~ (Left(e, c)' /\ Queued(e, c)')
                              /\ ~ (Left(e, c)' /\ Held(e, c)')
                              /\ ~ (Queued(e, c)' /\ Held(e, c)')
      BY <2>2, <2>4, <2>5, <2>6, <2>9
    <3>4. QED
      BY <1>2, <3>1, <3>2, <3>3 DEF OnePlace
  <2>12. Counted(e)'
    BY <1>1, <2>1, <2>2, <2>10 DEF Counted
  <2>13. Handled(e)'
    BY <1>1, <1>2, <2>1, <2>10 DEF Handled
  <2>14. QED
    BY <2>11, <2>12, <2>13
<1>5. \A f \in Entries \ {e} :
         /\ clusters'[f] = clusters[f] /\ errors'[f] = errors[f]
         /\ work'[f] = work[f] /\ done'[f] = done[f]
         /\ f \in skipped <=> f \in skipped'
  BY <1>1 DEF FanoutInv, TypeOK
<1>6. QED
  BY <1>1, <1>3, <1>4, <1>5, OtherEntries

LEMMA SendStep ==
    ASSUME FanoutInv, NEW e \in Entries, NEW w \in Workers, Send(e, w)
    PROVE  Untouched' /\ Accounts'
<1> DEFINE h == work[e][w].cluster
<1>1. /\ work[e][w].pc = "sending"
      /\ errors' = [errors EXCEPT ![e] = Append(@, work[e][w].err)]
      /\ work' = [work EXCEPT ![e][w] = Waiting]
      /\ UNCHANGED <<caller, todo, clusters, done, skipped>>
  BY DEF Send
<1>2. /\ h \in Clusters /\ Len(errors'[e]) = Len(errors[e]) + 1 /\ Len(errors[e]) \in Nat
      /\ work'[e][w] = Waiting
      /\ \A u \in Workers \ {w} : work'[e][u] = work[e][u]
  BY <1>1, BusyType DEF FanoutInv, TypeOK
<1>3. Begun(e)
  BY <1>1 DEF Begun, Unstarted
<1>4. ASSUME e \notin skipped'
      PROVE  OnePlace(e)' /\ Counted(e)' /\ Handled(e)'
  <2>1. OnePlace(e) /\ Counted(e) /\ Handled(e)
    BY <1>1, <1>3, <1>4 DEF FanoutInv, Accounts
  <2>2. Received(e)' = Received(e) /\ \A c \in Clusters : Left(e, c)' <=> Left(e, c)
    BY <1>1 DEF Received, Current, Left
  <2>3. \A c \in Clusters : Queued(e, c)' <=> Queued(e, c)
    BY <1>1 DEF Queued
  <2>4. \A u \in Workers, c \in Clusters : Holds(e, u, c)' <=> u # w /\ Holds(e, u, c)
    BY <1>2 DEF Holds, Waiting
  <2>5. Holds(e, w, h) /\ Held(e, h)
    BY <1>1 DEF Holds, Held
  <2>6. \A c \in Clusters : Held(e, c)' <=> Held(e, c) /\ c # h
    BY <1>2, <2>1, <2>4, <2>5 DEF Held, OnePlace, Holds
  <2>7. Answered(e)' = Answered(e) \cup {h} /\ h \notin Answered(e)
    BY <1>2, <2>1, <2>2, <2>3, <2>5, <2>6 DEF Answered, OnePlace
  <2>8. OnePlace(e)'
    BY <1>1, <2>1, <2>2, <2>3, <2>4, <2>6 DEF OnePlace
  <2>9. Cardinality(Answered(e)') = Cardinality(Answered(e)) + 1
    BY <2>7, AnsweredFinite, FS_AddElement
  <2>10. Received(e) \in Int
    BY ClustersLen, CallerType DEF FanoutInv, Received, Current
  <2>11. Counted(e)'
    BY <1>2, <2>1, <2>2, <2>9, <2>10 DEF Counted
  <2>12. done[e][h] = NumSeDrs[e]
    BY <1>1, <2>1 DEF Handled
  <2>13. Handled(e)'
    BY <1>1, <1>2, <2>1, <2>7, <2>12 DEF Handled, Waiting
  <2>14. QED
    BY <2>8, <2>11, <2>13
<1>5. \A f \in Entries \ {e} :
         /\ clusters'[f] = clusters[f] /\ errors'[f] = errors[f]
         /\ work'[f] = work[f] /\ done'[f] = done[f]
         /\ f \in skipped <=> f \in skipped'
  BY <1>1 DEF FanoutInv, TypeOK
<1>6. QED
  BY <1>1, <1>3, <1>4, <1>5, OtherEntries

LEMMA WorkerAccounts ==
    ASSUME FanoutInv, NEW e \in Entries, NEW w \in Workers, WorkerStep(e, w)
    PROVE  Untouched' /\ Accounts'
<1>1. CASE Take(e, w)
  BY <1>1, TakeStep
<1>2. CASE Drop(e, w) \/ NoPairs(e, w)
  <2>1. /\ work[e][w].pc = "working"
        /\ done' = [done EXCEPT ![e][work[e][w].cluster] = NumSeDrs[e]]
        /\ work' = [work EXCEPT ![e][w].pc = "sending"]
        /\ UNCHANGED <<caller, todo, clusters, errors, skipped>>
    BY <1>2 DEF Drop, NoPairs
  <2>2. work[e][w] \in Busy /\ work[e][w].cluster \in Clusters
    BY <2>1, BusyType DEF FanoutInv
  <2>3. /\ work'[e][w].pc = "sending" /\ work'[e][w].cluster = work[e][w].cluster
        /\ \A u \in Workers \ {w} : work'[e][u] = work[e][u]
        /\ \A f \in Entries \ {e} : work'[f] = work[f] /\ done'[f] = done[f]
    BY <2>1, <2>2 DEF FanoutInv, TypeOK, Busy
  <2>4. \A u \in Workers, c \in Clusters : Holds(e, u, c)' <=> Holds(e, u, c)
    BY <2>1, <2>3 DEF Holds
  <2>5. /\ done'[e][work[e][w].cluster] = NumSeDrs[e]
        /\ \A c \in Clusters : c # work[e][w].cluster => done'[e][c] = done[e][c]
    BY <2>1, <2>2 DEF FanoutInv, TypeOK
  <2>6. \A c \in Clusters : ~Holds(e, w, c) => done'[e][c] = done[e][c]
    BY <2>1, <2>5 DEF Holds
  <2>7. Begun(e)
    BY <2>1 DEF Begun, Unstarted
  <2>8. QED
    BY <2>1, <2>3, <2>4, <2>5, <2>6, <2>7, WorkerGoesOn
<1>3. CASE Exit(e, w)
  <2>1. /\ work[e][w] = Waiting /\ work' = [work EXCEPT ![e][w] = Exited]
        /\ UNCHANGED <<caller, todo, clusters, errors, done, skipped>>
    BY <1>3 DEF Exit
  <2>2. /\ work'[e][w] = Exited
        /\ \A u \in Workers \ {w} : work'[e][u] = work[e][u]
        /\ \A f \in Entries \ {e} : work'[f] = work[f] /\ done'[f] = done[f]
    BY <2>1 DEF FanoutInv, TypeOK
  <2>3. \A u \in Workers, c \in Clusters : Holds(e, u, c)' <=> Holds(e, u, c)
    BY <2>1, <2>2 DEF Holds, Waiting, Exited
  <2>4. Begun(e) /\ work'[e][w].pc # "sending"
    BY <2>1, <2>2 DEF Begun, Waiting, Unstarted, Exited
  <2>5. QED
    BY <2>1, <2>2, <2>3, <2>4, WorkerGoesOn
<1>4. CASE HandleSeDr(e, w)
  <2> DEFINE h == work[e][w].cluster
  <2>1. /\ work[e][w].pc = "working"
        /\ done' = [done EXCEPT ![e][h] = @ + 1]
        /\ \/ UNCHANGED work
           \/ work' = [work EXCEPT ![e][w].err = @ \cup {<<e, h>>}]
           \/ work' = [work EXCEPT ![e][w].pc = "skipping"]
        /\ UNCHANGED <<caller, todo, clusters, errors, skipped>>
    BY <1>4 DEF HandleSeDr
  <2>2. work[e][w] \in Busy /\ h \in Clusters
    BY <2>1, BusyType DEF FanoutInv
  <2>3. /\ work'[e][w].pc \in {"working", "skipping"} /\ work'[e][w].cluster = h
        /\ \A u \in Workers \ {w} : work'[e][u] = work[e][u]
        /\ \A f \in Entries \ {e} : work'[f] = work[f] /\ done'[f] = done[f]
    <3>1. \A f \in Entries \ {e} : done'[f] = done[f]
      BY <2>1 DEF FanoutInv, TypeOK
    <3>2. CASE UNCHANGED work
      BY <2>1, <3>1, <3>2
    <3>3. CASE work' = [work EXCEPT ![e][w].err = @ \cup {<<e, h>>}]
      BY <2>1, <2>2, <3>1, <3>3 DEF FanoutInv, TypeOK, Busy
    <3>4. CASE work' = [work EXCEPT ![e][w].pc = "skipping"]
      BY <2>1, <2>2, <3>1, <3>4 DEF FanoutInv, TypeOK, Busy
    <3>5. QED
      BY <2>1, <3>2, <3>3, <3>4
  <2>4. \A u \in Workers, c \in Clusters : Holds(e, u, c)' <=> Holds(e, u, c)
    BY <2>1, <2>3 DEF Holds
  <2>5. \A c \in Clusters : c # h => done'[e][c] = done[e][c]
    BY <2>1, <2>2 DEF FanoutInv, TypeOK
  <2>6. \A c \in Clusters : ~Holds(e, w, c) => done'[e][c] = done[e][c]
    BY <2>1, <2>5 DEF Holds
  <2>7. Begun(e)
    BY <2>1 DEF Begun, Unstarted
  <2>8. QED
    BY <2>1, <2>3, <2>4, <2>6, <2>7, WorkerGoesOn
<1>5. CASE SendSkip(e, w)
  <2>1. /\ work[e][w].pc = "skipping" /\ skipped' = skipped \cup {e}
        /\ errors' = [errors EXCEPT ![e] = Append(@, nil)]
        /\ work' = [work EXCEPT ![e][w].pc = "working"]
        /\ UNCHANGED <<caller, todo, clusters, done>>
    BY <1>5 DEF SendSkip
  <2>2. \A f \in Entries \ {e} :
           /\ clusters'[f] = clusters[f] /\ errors'[f] = errors[f]
           /\ work'[f] = work[f] /\ done'[f] = done[f]
           /\ f \in skipped <=> f \in skipped'
    BY <2>1 DEF FanoutInv, TypeOK
  <2>3. Begun(e)
    BY <2>1 DEF Begun, Unstarted
  <2>4. QED
    BY <2>1, <2>2, <2>3, OtherEntries
<1>6. CASE EndCluster(e, w)
  <2>1. /\ work[e][w].pc = "working" /\ done[e][work[e][w].cluster] = NumSeDrs[e]
        /\ work' = [work EXCEPT ![e][w].pc = "sending"]
        /\ UNCHANGED <<caller, todo, clusters, errors, done, skipped>>
    BY <1>6 DEF EndCluster
  <2>2. work[e][w] \in Busy
    BY <2>1, BusyType DEF FanoutInv
  <2>3. /\ work'[e][w].pc = "sending" /\ work'[e][w].cluster = work[e][w].cluster
        /\ \A u \in Workers \ {w} : work'[e][u] = work[e][u]
        /\ \A f \in Entries \ {e} : work'[f] = work[f] /\ done'[f] = done[f]
    BY <2>1, <2>2 DEF FanoutInv, TypeOK, Busy
  <2>4. \A u \in Workers, c \in Clusters : Holds(e, u, c)' <=> Holds(e, u, c)
    BY <2>1, <2>3 DEF Holds
  <2>5. Begun(e)
    BY <2>1 DEF Begun, Unstarted
  <2>6. QED
    BY <2>1, <2>3, <2>4, <2>5, WorkerGoesOn
<1>7. CASE Send(e, w)
  BY <1>7, SendStep
<1>8. QED
  BY <1>1, <1>2, <1>3, <1>4, <1>5, <1>6, <1>7 DEF WorkerStep

-----------------------------------------------------------------------------
(* The caller                                                              *)

\* The caller takes a step for e, or for no entry
LEMMA OthersOfCaller ==
    ASSUME FanoutInv, NEW e \in Entries, e \notin todo', todo' \subseteq todo,
           UNCHANGED <<done, skipped>>,
           \A f \in Entries \ {e} :
              /\ clusters'[f] = clusters[f] /\ errors'[f] = errors[f] /\ work'[f] = work[f]
              /\ ~Current(f) /\ ~Current(f)',
           e \notin skipped /\ Begun(e)' => OnePlace(e)' /\ Counted(e)' /\ Handled(e)'
    PROVE  Untouched' /\ Accounts'
<1>1. \A f \in Entries \ {e} : /\ Received(f)' = Received(f)
                               /\ \A c \in Clusters : Left(f, c)' <=> Left(f, c)
  BY DEF Received, Current, Left, clustersLen
<1>2. \A f \in Entries \ {e} : Begun(f)' <=> Begun(f)
  BY DEF Begun
<1>3. Untouched'
  <2>1. todo' \subseteq Entries \ {e}
    BY DEF FanoutInv, TypeOK
  <2>2. QED
    BY <1>2, <2>1 DEF FanoutInv, Untouched
<1>4. ASSUME NEW f \in Entries \ skipped', Begun(f)'
      PROVE  OnePlace(f)' /\ Counted(f)' /\ Handled(f)'
  <2>1. CASE f = e
    BY <2>1, <1>4
  <2>2. CASE f # e
    <3>1. OnePlace(f) /\ Counted(f) /\ Handled(f)
      BY <1>2, <1>4, <2>2 DEF FanoutInv, Accounts
    <3>2. QED
      BY <1>1, <2>2, <3>1, Elsewhere
  <2>3. QED
    BY <2>1, <2>2
<1>5. QED
  BY <1>3, <1>4 DEF Accounts

\* A step of the caller between two entries
LEMMA Between ==
    ASSUME FanoutInv, caller.pc \notin {"feed", "collect"}, caller'.pc \notin {"feed", "collect"},
           todo' \subseteq todo, UNCHANGED <<clusters, errors, work, done, skipped>>
    PROVE  Untouched' /\ Accounts'
<1>1. \A f \in Entries : /\ ~Current(f) /\ ~Current(f)' /\ Received(f)' = Received(f)
                         /\ \A c \in Clusters : Left(f, c)' <=> Left(f, c)
  BY DEF Received, Current, Left, clustersLen
<1>2. \A f \in Entries : Begun(f)' <=> Begun(f)
  BY <1>1 DEF Begun
<1>3. Untouched'
  BY <1>2 DEF FanoutInv, Untouched, TypeOK
<1>4. ASSUME NEW f \in Entries \ skipped', Begun(f)'
      PROVE  OnePlace(f)' /\ Counted(f)' /\ Handled(f)'
  <2>1. OnePlace(f) /\ Counted(f) /\ Handled(f)
    BY <1>2, <1>4 DEF FanoutInv, Accounts
  <2>2. QED
    BY <1>1, <2>1, Elsewhere
<1>5. QED
  BY <1>3, <1>4 DEF Accounts

LEMMA NextEntryStep ==
    ASSUME FanoutInv, NEW e \in Entries, NextEntry(e)
    PROVE  Untouched' /\ Accounts'
<1>1. /\ caller.pc = "range" /\ e \in todo /\ todo' = todo \ {e}
      /\ UNCHANGED <<clusters, errors, done, skipped>>
  BY DEF NextEntry
<1>2. CASE e \in NoHosts
  BY <1>1, <1>2, Between DEF NextEntry
<1>3. CASE e \notin NoHosts
  <2>1. /\ caller' = [pc |-> "feed", err |-> caller.err, entry |-> e, left |-> Clusters]
        /\ work' = [work EXCEPT ![e] = [w \in Workers |-> Waiting]]
    BY <1>3 DEF NextEntry
  <2>2. /\ \A w \in Workers : work'[e][w] = Waiting
        /\ errors'[e] = << >> /\ clusters'[e].queue = << >>
    BY <1>1, <2>1 DEF FanoutInv, TypeOK, Untouched
  <2>3. \A c \in Clusters : /\ Left(e, c)' /\ ~Queued(e, c)' /\ ~Held(e, c)'
                            /\ \A w \in Workers : ~Holds(e, w, c)'
    BY <2>1, <2>2 DEF Left, Queued, Held, Holds, Waiting
  <2>4. Answered(e)' = {} /\ Received(e)' = 0
    BY <2>1, <2>3 DEF Answered, Received, Current
  <2>5. OnePlace(e)'
    BY <2>2, <2>3 DEF OnePlace
  <2>6. Counted(e)'
    BY <2>2, <2>4, FS_EmptySet DEF Counted
  <2>7. Handled(e)'
    BY <2>2, <2>4 DEF Handled, Waiting
  <2>8. \A f \in Entries \ {e} :
           /\ clusters'[f] = clusters[f] /\ errors'[f] = errors[f] /\ work'[f] = work[f]
           /\ ~Current(f) /\ ~Current(f)'
    BY <1>1, <2>1 DEF Current, FanoutInv, TypeOK
  <2>9. QED
    BY <1>1, <2>5, <2>6, <2>7, <2>8, OthersOfCaller
<1>4. QED
  BY <1>2, <1>3

\* The entry the caller is at
LEMMA CurrentEntry ==
    ASSUME FanoutInv, caller.pc \in {"feed", "collect"}
    PROVE  /\ caller.entry \in Entries \ todo /\ Current(caller.entry)
           /\ caller.entry \notin skipped =>
                 /\ OnePlace(caller.entry) /\ Counted(caller.entry) /\ Handled(caller.entry)
<1>1. caller.entry \in Entries /\ Current(caller.entry)
  BY CallerType DEF FanoutInv, Current
<1>2. Begun(caller.entry)
  BY <1>1 DEF Begun
<1>3. QED
  BY <1>1, <1>2 DEF FanoutInv, Untouched, Accounts

LEMMA FeedStep ==
    ASSUME FanoutInv, NEW h \in Clusters, Feed(h)
    PROVE  Untouched' /\ Accounts'
<1>0. PICK e \in Entries : e = caller.entry
  BY CallerType DEF Feed, FanoutInv
<1> DEFINE q == clusters[e].queue
<1>1. /\ caller.pc = "feed" /\ h \in caller.left
      /\ clusters' = [clusters EXCEPT ![e].queue = Append(@, h)]
      /\ caller' = [caller EXCEPT !.left = @ \ {h}]
      /\ UNCHANGED <<todo, errors, work, done, skipped>>
  BY <1>0 DEF Feed
<1>2. /\ e \in Entries \ todo /\ Current(e)
      /\ e \notin skipped => OnePlace(e) /\ Counted(e) /\ Handled(e)
  BY <1>0, <1>1, CurrentEntry
<1>3. /\ caller'.pc = "feed" /\ caller'.entry = e /\ caller'.left = caller.left \ {h}
      /\ q \in Seq(Clusters) /\ clusters'[e].queue = Append(q, h)
  BY <1>0, <1>1, <1>2, CallerType DEF FanoutInv, TypeOK
<1>4. ASSUME e \notin skipped
      PROVE  OnePlace(e)' /\ Counted(e)' /\ Handled(e)'
  <2>1. OnePlace(e) /\ Counted(e) /\ Handled(e)
    BY <1>2, <1>4
  <2>2. \A c \in Clusters : Left(e, c)' <=> Left(e, c) /\ c # h
    BY <1>1, <1>3 DEF Left
  <2>3. Left(e, h) /\ ~Queued(e, h) /\ ~Held(e, h)
    BY <1>0, <1>1, <2>1 DEF Left, OnePlace
  <2>4. /\ Len(Append(q, h)) = Len(q) + 1 /\ Len(q) \in Nat
        /\ \A i \in 1 .. Len(q) : Append(q, h)[i] = q[i]
        /\ Append(q, h)[Len(q) + 1] = h
    BY <1>3
  <2>5. \A c \in Clusters : Queued(e, c)' <=> Queued(e, c) \/ c = h
    BY <1>3, <2>4 DEF Queued
  <2>6. \A c \in Clusters : /\ Held(e, c)' <=> Held(e, c)
                            /\ \A w \in Workers : Holds(e, w, c)' <=> Holds(e, w, c)
    BY <1>1 DEF Held, Holds
  <2>7. Answered(e)' = Answered(e)
    BY <2>2, <2>3, <2>5, <2>6 DEF Answered
  <2>8. OnePlace(e)'
    <3>1. \A i, j \in 1 .. Len(Append(q, h)) : Append(q, h)[i] = Append(q, h)[j] => i = j
      <4>1. \A i \in 1 .. Len(q) : q[i] # h
        BY <2>3 DEF Queued
      <4>2. \A i, j \in 1 .. Len(q) : q[i] = q[j] => i = j
        BY <2>1 DEF OnePlace
      <4>3. QED
        BY <2>4, <4>1, <4>2
    <3>2. QED
      BY <1>3, <2>1, <2>2, <2>3, <2>5, <2>6, <3>1 DEF OnePlace
  <2>9. Received(e)' = Received(e)
    BY <1>1, <1>3 DEF Received, Current
  <2>10. Counted(e)' /\ Handled(e)'
    BY <1>1, <2>1, <2>7, <2>9 DEF Counted, Handled
  <2>11. QED
    BY <2>8, <2>10
<1>5. \A f \in Entries \ {e} :
         /\ clusters'[f] = clusters[f] /\ errors'[f] = errors[f] /\ work'[f] = work[f]
         /\ ~Current(f) /\ ~Current(f)'
  BY <1>1, <1>3 DEF Current, FanoutInv, TypeOK
<1>6. QED
  BY <1>1, <1>2, <1>4, <1>5, OthersOfCaller

LEMMA CloseStep ==
    ASSUME FanoutInv, Close
    PROVE  Untouched' /\ Accounts'
<1>0. PICK e \in Entries : e = caller.entry
  BY CallerType DEF Close, FanoutInv
<1>1. /\ caller.pc = "feed" /\ caller.left = {}
      /\ clusters' = [clusters EXCEPT ![e].closed = TRUE]
      /\ caller' = [caller EXCEPT !.pc = "collect", !.left = clustersLen]
      /\ UNCHANGED <<todo, errors, work, done, skipped>>
  BY <1>0 DEF Close
<1>2. /\ e \in Entries \ todo /\ Current(e)
      /\ e \notin skipped => OnePlace(e) /\ Counted(e) /\ Handled(e)
  BY <1>0, <1>1, CurrentEntry
<1>3. /\ caller'.pc = "collect" /\ caller'.entry = e /\ caller'.left = clustersLen
      /\ clusters'[e].queue = clusters[e].queue
  BY <1>0, <1>1, <1>2, CallerType DEF FanoutInv, TypeOK
<1>4. Received(e)' = Received(e)
  BY <1>1, <1>3, ClustersLen DEF Received, Current, clustersLen
<1>5. \A c \in Clusters : Left(e, c)' <=> Left(e, c)
  BY <1>1, <1>3 DEF Left
<1>6. \A f \in Entries \ {e} :
         /\ clusters'[f] = clusters[f] /\ errors'[f] = errors[f] /\ work'[f] = work[f]
         /\ ~Current(f) /\ ~Current(f)'
  BY <1>1, <1>3 DEF Current, FanoutInv, TypeOK
<1>7. e \notin skipped => OnePlace(e)' /\ Counted(e)' /\ Handled(e)'
  BY <1>1, <1>2, <1>3, <1>4, <1>5, Elsewhere
<1>8. QED
  BY <1>1, <1>2, <1>6, <1>7, OthersOfCaller

LEMMA CollectStep ==
    ASSUME FanoutInv, Collect
    PROVE  Untouched' /\ Accounts'
<1>0. PICK e \in Entries : e = caller.entry
  BY CallerType DEF Collect, FanoutInv
<1>1. /\ caller.pc = "collect" /\ caller.left > 0 /\ errors[e] # << >>
      /\ caller' = [caller EXCEPT !.err = @ \cup Head(errors[e]), !.left = @ - 1]
      /\ errors' = [errors EXCEPT ![e] = Tail(@)]
      /\ UNCHANGED <<todo, clusters, work, done, skipped>>
  BY <1>0 DEF Collect
<1>2. /\ e \in Entries \ todo /\ Current(e)
      /\ e \notin skipped => OnePlace(e) /\ Counted(e) /\ Handled(e)
  BY <1>0, <1>1, CurrentEntry
<1>3. /\ caller'.pc = "collect" /\ caller'.entry = e /\ caller'.left = caller.left - 1
      /\ caller.left \in Int /\ clustersLen \in Int
  BY <1>0, <1>1, <1>2, CallerType, ClustersLen DEF FanoutInv, TypeOK
<1>4. /\ Len(errors[e]) \in Nat /\ Len(errors'[e]) = Len(errors[e]) - 1
  BY <1>1, <1>2 DEF FanoutInv, TypeOK
<1>5. ASSUME e \notin skipped
      PROVE  OnePlace(e)' /\ Counted(e)' /\ Handled(e)'
  <2>1. OnePlace(e) /\ Counted(e) /\ Handled(e)
    BY <1>2, <1>5
  <2>2. \A c \in Clusters : /\ Left(e, c)' <=> Left(e, c)
                            /\ Queued(e, c)' <=> Queued(e, c)
                            /\ Held(e, c)' <=> Held(e, c)
                            /\ \A w \in Workers : Holds(e, w, c)' <=> Holds(e, w, c)
    <3>1. \A c \in Clusters : Left(e, c)' <=> Left(e, c)
      BY <1>1, <1>3 DEF Left
    <3>2. QED
      BY <1>1, <3>1 DEF Queued, Held, Holds
  <2>3. Answered(e)' = Answered(e)
    BY <2>2 DEF Answered
  <2>4. OnePlace(e)' /\ Handled(e)'
    BY <1>1, <2>1, <2>2, <2>3 DEF OnePlace, Handled
  <2>5. Received(e)' = Received(e) + 1 /\ Received(e) \in Int
    BY <1>1, <1>3 DEF Received, Current, clustersLen
  <2>6. Counted(e)'
    BY <1>4, <2>1, <2>3, <2>5 DEF Counted
  <2>7. QED
    BY <2>4, <2>6
<1>6. \A f \in Entries \ {e} :
         /\ clusters'[f] = clusters[f] /\ errors'[f] = errors[f] /\ work'[f] = work[f]
         /\ ~Current(f) /\ ~Current(f)'
  BY <1>1, <1>3 DEF Current, FanoutInv, TypeOK
<1>7. QED
  BY <1>1, <1>2, <1>5, <1>6, OthersOfCaller

LEMMA ContinueStep ==
    ASSUME FanoutInv, Continue
    PROVE  Untouched' /\ Accounts'
<1>0. PICK e \in Entries : e = caller.entry
  BY CallerType DEF Continue, FanoutInv
<1>1. /\ caller.pc = "collect" /\ caller.left = 0 /\ caller' = [pc |-> "range", err |-> caller.err]
      /\ UNCHANGED <<todo, clusters, errors, work, done, skipped>>
  BY <1>0 DEF Continue
<1>2. /\ e \in Entries \ todo /\ Current(e)
      /\ e \notin skipped => OnePlace(e) /\ Counted(e) /\ Handled(e)
  BY <1>0, <1>1, CurrentEntry
<1>3. Received(e)' = Received(e)
  BY <1>1, ClustersLen DEF Received, Current, clustersLen
<1>4. \A c \in Clusters : Left(e, c)' <=> Left(e, c)
  BY <1>1 DEF Left
<1>5. e \notin skipped => OnePlace(e)' /\ Counted(e)' /\ Handled(e)'
  BY <1>1, <1>2, <1>3, <1>4, Elsewhere
<1>6. \A f \in Entries \ {e} : ~Current(f) /\ ~Current(f)'
  BY <1>0, <1>1 DEF Current
<1>7. QED
  BY <1>1, <1>2, <1>5, <1>6, OthersOfCaller

LEMMA CallerAccounts ==
    ASSUME FanoutInv, CallerStep
    PROVE  Untouched' /\ Accounts'
<1>1. CASE Return
  BY <1>1, Between DEF Return
<1>2. QED
  BY <1>1, NextEntryStep, FeedStep, CloseStep, CollectStep, ContinueStep DEF CallerStep

-----------------------------------------------------------------------------
(* Failures, and the theorems                                              *)

LEMMA ToldStep ==
    ASSUME FanoutInv, TypeOK', [Next]_vars
    PROVE  Told'
<1> DEFINE Kept(e, c) ==
      \/ caller.pc = "refused" \/ <<e, c>> \in caller.err
      \/ \E i \in 1 .. Len(errors[e]) : <<e, c>> \in errors[e][i]
      \/ \E w \in Workers : Holds(e, w, c) /\ <<e, c>> \in work[e][w].err
<1> SUFFICES ASSUME NEW e \in Entries, NEW c \in Clusters, <<e, c>> \in failed'
             PROVE  Kept(e, c)'
  BY DEF Told
<1>1. <<e, c>> \in failed => Kept(e, c)
  BY DEF FanoutInv, Told
<1>2. ASSUME NEW f \in Entries, NextEntry(f)
      PROVE  Kept(e, c)'
  <2>1. /\ caller'.pc = "refused" \/ caller'.err = caller.err
        /\ caller.pc # "refused" /\ UNCHANGED <<errors, failed>>
    BY <1>2 DEF NextEntry
  <2>2. \A w \in Workers : Holds(e, w, c) => work'[e][w] = work[e][w]
    <3>1. CASE e # f
      BY <1>2, <3>1 DEF NextEntry, FanoutInv, TypeOK
    <3>2. CASE e = f
      BY <1>2, <3>2 DEF NextEntry, FanoutInv, Untouched, Begun, Holds, Unstarted
    <3>3. QED
      BY <3>1, <3>2
  <2>3. QED
    BY <1>1, <2>1, <2>2 DEF Holds
<1>3. ASSUME NEW d \in Clusters, Feed(d)
      PROVE  Kept(e, c)'
  <2>1. caller'.err = caller.err /\ caller'.pc = caller.pc /\ UNCHANGED <<errors, work, failed>>
    BY <1>3, CallerType DEF Feed, FanoutInv
  <2>2. QED
    BY <1>1, <2>1 DEF Holds
<1>4. CASE Close
  <2>1. caller'.err = caller.err /\ caller.pc # "refused" /\ UNCHANGED <<errors, work, failed>>
    BY <1>4, CallerType DEF Close, FanoutInv
  <2>2. QED
    BY <1>1, <2>1 DEF Holds
<1>5. CASE Collect
  <2>0. PICK f \in Entries : f = caller.entry
    BY <1>5, CallerType DEF Collect, FanoutInv
  <2>1. /\ caller.pc = "collect" /\ errors[f] # << >> /\ errors[f] \in Seq(Errors)
        /\ caller'.err = caller.err \cup Head(errors[f])
        /\ errors' = [errors EXCEPT ![f] = Tail(errors[f])] /\ UNCHANGED <<work, failed>>
    BY <1>5, <2>0, CallerType DEF Collect, FanoutInv, TypeOK
  <2>2. ASSUME NEW i \in 1 .. Len(errors[e]), <<e, c>> \in errors[e][i]
        PROVE  Kept(e, c)'
    <3>1. CASE e # f
      BY <2>1, <2>2, <3>1 DEF FanoutInv, TypeOK
    <3>2. CASE e = f /\ i = 1
      BY <2>1, <2>2, <3>2
    <3>3. CASE e = f /\ i # 1
      <4>1. errors'[e] = Tail(errors[e])
        BY <2>1, <3>3 DEF FanoutInv, TypeOK
      <4>2. i - 1 \in 1 .. Len(errors'[e]) /\ errors'[e][i - 1] = errors[e][i]
        <5>1. errors[e] \in Seq(Errors) /\ errors[e] # << >>
          BY <2>1, <3>3
        <5>2. QED
          BY <2>2, <3>3, <4>1, <5>1
      <4>3. QED
        BY <2>2, <4>2
    <3>4. QED
      BY <3>1, <3>2, <3>3
  <2>3. QED
    BY <1>1, <2>1, <2>2 DEF Holds
<1>6. CASE Continue
  <2>1. caller'.err = caller.err /\ caller.pc # "refused" /\ UNCHANGED <<errors, work, failed>>
    BY <1>6 DEF Continue
  <2>2. QED
    BY <1>1, <2>1 DEF Holds
<1>7. CASE Return
  <2>1. caller'.err = caller.err /\ caller.pc # "refused" /\ UNCHANGED <<errors, work, failed>>
    BY <1>7 DEF Return
  <2>2. QED
    BY <1>1, <2>1 DEF Holds
<1>8. ASSUME NEW f \in Entries, NEW w \in Workers, Take(f, w)
      PROVE  Kept(e, c)'
  <2>1. /\ work[f][w] = Waiting /\ UNCHANGED <<caller, errors, failed>>
        /\ \A u \in Workers : e # f \/ u # w => work'[e][u] = work[e][u]
    BY <1>8 DEF Take, FanoutInv, TypeOK
  <2>2. QED
    BY <1>1, <2>1 DEF Holds, Waiting
<1>9. ASSUME NEW f \in Entries, NEW w \in Workers,
             \/ Drop(f, w) \/ NoPairs(f, w) \/ EndCluster(f, w) \/ SendSkip(f, w)
             \/ HandleSeDr(f, w)
      PROVE  Kept(e, c)'
  <2>1. UNCHANGED caller /\ work[f][w].pc \in {"working", "skipping", "sending"}
    BY <1>9 DEF Drop, NoPairs, EndCluster, SendSkip, HandleSeDr
  <2>2. work[f][w] \in Busy
    BY <2>1, BusyType DEF FanoutInv
  <2>3. /\ work'[f][w].pc \in {"working", "skipping", "sending"}
        /\ work'[f][w].cluster = work[f][w].cluster
        /\ work[f][w].err \subseteq work'[f][w].err
        /\ \A u \in Workers : e # f \/ u # w => work'[e][u] = work[e][u]
    <3>1. CASE UNCHANGED work
      BY <2>1, <3>1
    <3>2. CASE \E p \in {"working", "skipping", "sending"} : work' = [work EXCEPT ![f][w].pc = p]
      BY <2>2, <3>2 DEF Busy, FanoutInv, TypeOK
    <3>3. CASE work' = [work EXCEPT ![f][w].err = @ \cup {<<f, work[f][w].cluster>>}]
      BY <2>1, <2>2, <3>3 DEF Busy, FanoutInv, TypeOK
    <3>4. QED
      BY <1>9, <3>1, <3>2, <3>3 DEF Drop, NoPairs, EndCluster, SendSkip, HandleSeDr
  <2>4. \A i \in 1 .. Len(errors[e]) : i \in 1 .. Len(errors'[e]) /\ errors'[e][i] = errors[e][i]
    <3>1. CASE UNCHANGED errors
      BY <3>1
    <3>2. CASE SendSkip(f, w)
      <4>1. errors' = [errors EXCEPT ![f] = Append(errors[f], nil)] /\ errors[f] \in Seq(Errors)
        BY <3>2 DEF SendSkip, FanoutInv, TypeOK
      <4>2. CASE e # f
        BY <4>1, <4>2 DEF FanoutInv, TypeOK
      <4>3. CASE e = f
        <5>1. errors'[e] = Append(errors[e], nil) /\ errors[e] \in Seq(Errors) /\ nil \in Errors
          BY <4>1, <4>3 DEF FanoutInv, TypeOK, Errors, nil
        <5>2. QED
          BY <5>1
      <4>4. QED
        BY <4>2, <4>3
    <3>3. QED
      BY <1>9, <3>1, <3>2 DEF Drop, NoPairs, EndCluster, HandleSeDr
  <2>5. CASE <<e, c>> \in failed
    BY <1>1, <2>1, <2>3, <2>4, <2>5 DEF Holds
  <2>6. CASE <<e, c>> \notin failed
    <3>1. /\ HandleSeDr(f, w) /\ failed' = failed \cup {<<f, work[f][w].cluster>>}
          /\ work' = [work EXCEPT ![f][w].err = @ \cup {<<f, work[f][w].cluster>>}]
      BY <1>9, <2>6 DEF Drop, NoPairs, EndCluster, SendSkip, HandleSeDr
    <3>2. e = f /\ c = work[f][w].cluster
      BY <3>1, <2>6
    <3>3. <<e, c>> \in work'[f][w].err
      BY <2>2, <3>1, <3>2 DEF Busy, FanoutInv, TypeOK
    <3>4. QED
      BY <2>3, <3>2, <3>3 DEF Holds
  <2>7. QED
    BY <2>5, <2>6
<1>10. ASSUME NEW f \in Entries, NEW w \in Workers, Exit(f, w)
       PROVE  Kept(e, c)'
  <2>1. /\ work[f][w] = Waiting /\ UNCHANGED <<caller, errors, failed>>
        /\ \A u \in Workers : e # f \/ u # w => work'[e][u] = work[e][u]
    BY <1>10 DEF Exit, FanoutInv, TypeOK
  <2>2. QED
    BY <1>1, <2>1 DEF Holds, Waiting
<1>11. ASSUME NEW f \in Entries, NEW w \in Workers, Send(f, w)
       PROVE  Kept(e, c)'
  <2>1. /\ work[f][w].pc = "sending" /\ UNCHANGED <<caller, failed>>
        /\ \A u \in Workers : e # f \/ u # w => work'[e][u] = work[e][u]
        /\ errors' = [errors EXCEPT ![f] = Append(errors[f], work[f][w].err)]
    BY <1>11 DEF Send, FanoutInv, TypeOK
  <2>2. work[f][w].err \in Errors /\ errors[f] \in Seq(Errors)
    BY <2>1, BusyType DEF FanoutInv, TypeOK
  <2>3. /\ \A i \in 1 .. Len(errors[e]) : i \in 1 .. Len(errors'[e]) /\ errors'[e][i] = errors[e][i]
        /\ e = f => \E i \in 1 .. Len(errors'[e]) : errors'[e][i] = work[f][w].err
    <3>1. CASE e # f
      BY <2>1, <3>1 DEF FanoutInv, TypeOK
    <3>2. CASE e = f
      <4>1. errors'[e] = Append(errors[e], work[f][w].err)
        BY <2>1, <3>2 DEF FanoutInv, TypeOK
      <4>2. /\ Len(errors'[e]) = Len(errors[e]) + 1 /\ Len(errors[e]) \in Nat
            /\ errors'[e][Len(errors[e]) + 1] = work[f][w].err
            /\ \A i \in 1 .. Len(errors[e]) : errors'[e][i] = errors[e][i]
        BY <2>2, <3>2, <4>1
      <4>3. QED
        BY <4>2
    <3>3. QED
      BY <3>1, <3>2
  <2>4. QED
    BY <1>1, <2>1, <2>3 DEF Holds
<1>12. CASE UNCHANGED vars
  BY <1>1, <1>12 DEF vars, Holds
<1>13. QED
  BY <1>2, <1>3, <1>4, <1>5, <1>6, <1>7, <1>8, <1>9, <1>10, <1>11, <1>12
  DEF Next, CallerStep, WorkerStep

LEMMA InvStep == FanoutInv /\ [Next]_vars => FanoutInv'
<1> SUFFICES ASSUME FanoutInv, [Next]_vars
             PROVE  FanoutInv'
  OBVIOUS
<1>1. TypeOK'
  BY TypeStep DEF FanoutInv
<1>2. Told'
  BY <1>1, ToldStep
<1>3. Untouched' /\ Accounts'
  <2>1. CASE Next
    BY <2>1, CallerAccounts, WorkerAccounts DEF Next
  <2>2. CASE UNCHANGED vars
    <3>1. \A f \in Entries : /\ Received(f)' = Received(f)
                             /\ Begun(f)' <=> Begun(f)
                             /\ \A c \in Clusters : Left(f, c)' <=> Left(f, c)
      <4>1. UNCHANGED <<caller, work>>
        BY <2>2 DEF vars
      <4>2. QED
        BY <4>1 DEF Received, Begun, Current, Left, clustersLen
    <3>2. UNCHANGED <<todo, clusters, errors, work, done, skipped>>
      BY <2>2 DEF vars
    <3>3. Untouched'
      BY <3>1, <3>2 DEF FanoutInv, Untouched, TypeOK
    <3>4. ASSUME NEW f \in Entries \ skipped', Begun(f)'
          PROVE  OnePlace(f)' /\ Counted(f)' /\ Handled(f)'
      BY <3>1, <3>2, <3>4, Elsewhere DEF FanoutInv, Accounts
    <3>5. QED
      BY <3>3, <3>4 DEF Accounts
  <2>3. QED
    BY <2>1, <2>2
<1>4. QED
  BY <1>1, <1>2, <1>3 DEF FanoutInv

\* As many answers as clusters have come in for an entry the caller has left:
\* every cluster has sent its own, and no answer is in the channel
LEMMA AllAnswered ==
    ASSUME FanoutInv, NEW e \in Collected \ skipped
    PROVE  /\ Answered(e) = Clusters /\ Len(errors[e]) = 0
           /\ OnePlace(e) /\ Handled(e)
<1>1. Begun(e) /\ ~Current(e) /\ e \in Entries
  BY DEF Collected, Begun, Current
<1>2. OnePlace(e) /\ Counted(e) /\ Handled(e)
  BY <1>1 DEF FanoutInv, Accounts
<1>3. Cardinality(Answered(e)) = clustersLen + Len(errors[e]) /\ Len(errors[e]) \in Nat
  BY <1>1, <1>2 DEF Counted, Received, FanoutInv, TypeOK
<1>4. Answered(e) \in SUBSET Clusters
  BY DEF Answered
<1>5. /\ Cardinality(Answered(e)) <= Cardinality(Clusters)
      /\ Cardinality(Clusters) = Cardinality(Answered(e)) => Clusters = Answered(e)
  BY <1>4, FanoutAssumption, FS_Subset
<1>6. QED
  BY <1>2, <1>3, <1>5, ClustersLen, AnsweredFinite DEF clustersLen

\* Once AddServiceEntriesWithDrToAllCluster has received a value for each
\* cluster, no worker is still writing the entry to a cluster: although the
\* values do not say which cluster they are for, none is counted twice, for any
\* number of clusters and workers, as long as no skip was sent.
THEOREM FanoutComplete == Spec => []NothingLeftBehind
<1>1. FanoutInv => NothingLeftBehind
  BY AllAnswered DEF NothingLeftBehind, Handled
<1>2. QED
  BY <1>1, InvInit, InvStep, PTL DEF Spec

\* A failed write of a worker is part of the error that is returned, whichever
\* worker met it, however the answers were interleaved, and whatever reads failed or
\* addresses were missing elsewhere; those are not reported.
THEOREM FanoutReports == Spec => []ErrorsReported
<1>1. FanoutInv => ErrorsReported
  <2> SUFFICES ASSUME FanoutInv, NEW e \in Collected \ skipped, NEW c \in Clusters,
                      <<e, c>> \in failed
               PROVE  caller.pc = "refused" \/ <<e, c>> \in caller.err
    BY DEF ErrorsReported, Reported
  <2>1. Answered(e) = Clusters /\ Len(errors[e]) = 0
    BY AllAnswered
  <2>2. \A w \in Workers : ~Holds(e, w, c)
    BY <2>1 DEF Answered, Held
  <2>3. QED
    BY <2>1, <2>2 DEF FanoutInv, Told, Collected
<1>2. QED
  BY <1>1, InvInit, InvStep, PTL DEF Spec
=============================================================================
