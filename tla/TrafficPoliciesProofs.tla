------------------------ MODULE TrafficPoliciesProofs ------------------------
(***************************************************************************)
(* Proofs about TrafficPolicies, for any clusters, regions, prefixes and   *)
(* policies of each kind, any comparison of versions, any number of        *)
(* retries and any number of changes, failures and overlapping runs.       *)
(***************************************************************************)
EXTENDS TrafficPolicies, TLAPS

-----------------------------------------------------------------------------
(* Types                                                                   *)

\* Policies are kept under their names
Named == \A c \in Clusters, n \in Names : live[c][n] # NoPolicy => live[c][n].name = n

\* A run writes clusters in which the identity runs
Visits ==
    \A w \in Workers : runs[w] # Idle =>
       /\ runs[w].over \subseteq sources
       /\ runs[w].pc # "gather" => runs[w].left \subseteq sources

TypeInv == TypeOK /\ Named /\ Visits

\* The best of some policies are among them
LEMMA BestIn ==
    ASSUME NEW S, S \subseteq Object, NEW p \in Best(S)
    PROVE  p \in Object \cup {NoPolicy}
BY DEF Best

\* A preference is a region of the new policy
LEMMA PreferenceType ==
    ASSUME NEW old, NEW new \in Object \cup {NoPolicy}, NEW r \in PreferenceRegions(old, new)
    PROVE  r \in Regions \cup {"none"}
<1>1. CASE Destinations(old, new) = {}
  BY <1>1 DEF PreferenceRegions
<1>2. CASE Destinations(old, new) # {}
  <2>1. new \in Object /\ \E x \in Prefixes : r = new.to[x]
    BY <1>2 DEF PreferenceRegions, Destinations, Moved
  <2>2. new.to \in Targets
    BY <2>1 DEF Object
  <2>3. QED
    BY <2>1, <2>2 DEF Targets
<1>3. QED
  BY <1>1, <1>2

LEMMA SpendType ==
    ASSUME TypeOK, NEW f \in {"changes", "joins", "failures", "overlaps"}, Spend(f)
    PROVE  budget' \in Budget
<1>1. budget \in Budget /\ budget[f] > 0 /\ budget' = [budget EXCEPT ![f] = @ - 1]
  BY DEF TypeOK, Spend
<1>2. budget[f] \in Nat
  BY <1>1 DEF Budget
<1>3. budget[f] - 1 \in Nat
  BY <1>1, <1>2
<1>4. QED
  BY <1>1, <1>3 DEF Budget

LEMMA OverlapType ==
    ASSUME TypeOK, Overlap
    PROVE  raced' \in BOOLEAN /\ budget' \in Budget
<1>1. CASE Alone
  BY <1>1 DEF TypeOK, Overlap
<1>2. CASE ~Alone
  BY <1>2, SpendType DEF Overlap
<1>3. QED
  BY <1>1, <1>2

\* A worker in a run
LEMMA InRun ==
    ASSUME TypeOK, NEW w \in Workers, runs[w] # Idle \/ runs[w].pc # "idle"
    PROVE  /\ runs[w] \in Run /\ runs[w] # Idle
           /\ w \in Clusters => runs[w].item \in Item
<1>1. runs[w] # Idle
  BY DEF Idle
<1>2. QED
  BY <1>1 DEF TypeOK

LEMMA NotIdle ==
    ASSUME NEW r \in Run
    PROVE  r # Idle
BY DEF Run, Idle

\* The rest of a queue
LEMMA TailParts ==
    ASSUME NEW S, NEW q \in Seq(S), q # << >>
    PROVE  /\ Head(q) \in S /\ Head(q) = q[1] /\ 1 \in 1 .. Len(q)
           /\ Tail(q) \in Seq(S)
           /\ Len(Tail(q)) = Len(q) - 1 /\ Len(q) \in Nat
           /\ \A k \in 1 .. Len(Tail(q)) : k + 1 \in 1 .. Len(q) /\ Tail(q)[k] = q[k + 1]
OBVIOUS

LEMMA AppendParts ==
    ASSUME NEW S, NEW q \in Seq(S), NEW x \in S
    PROVE  /\ Append(q, x) \in Seq(S) /\ Len(q) \in Nat
           /\ Len(Append(q, x)) = Len(q) + 1
           /\ \A k \in 1 .. Len(q) : Append(q, x)[k] = q[k]
           /\ Append(q, x)[Len(q) + 1] = x
OBVIOUS

\* A run goes on: it keeps its event
LEMMA RunMoves ==
    ASSUME TypeInv, NEW w \in Workers, runs[w] # Idle, NEW r \in Run, r.item = runs[w].item,
           r.over \subseteq sources, r.pc # "gather" => r.left \subseteq sources,
           runs' = [runs EXCEPT ![w] = r],
           UNCHANGED <<kind, live, clock, sources, queues, joined, cached, raced, misjudged>>,
           global' \in Object \cup {NoPolicy},
           used' \in [Clusters -> Object \cup {NoPolicy}],
           troubled' \in BOOLEAN, budget' \in Budget
    PROVE  TypeInv'
<1>0. TypeOK /\ Named /\ Visits
  BY DEF TypeInv
<1>1. /\ r # Idle
      /\ runs' \in [Workers -> Run \cup {Idle}] /\ runs'[w] = r
      /\ \A v \in Workers \ {w} : runs'[v] = runs[v]
  BY <1>0, NotIdle DEF TypeOK
<1>2. TypeOK'
  <2>1. \A c \in Clusters : runs'[c] # Idle => runs'[c].item \in Item
    BY <1>0, <1>1 DEF TypeOK, Workers
  <2>2. QED
    BY <1>0, <1>1, <2>1 DEF TypeOK
<1>3. Visits'
  BY <1>0, <1>1 DEF Visits
<1>4. QED
  BY <1>0, <1>2, <1>3 DEF TypeInv, Named

\* A run starts
LEMMA RunStarts ==
    ASSUME TypeInv, NEW w \in Workers, NEW item \in Item \cup {NoPolicy},
           w \in Clusters => item \in Item,
           runs' = [runs EXCEPT ![w] = NewRun(item)], sources' = sources
    PROVE  /\ runs' \in [Workers -> Run \cup {Idle}]
           /\ \A c \in Clusters : runs'[c] # Idle => runs'[c].item \in Item
           /\ Visits'
<1>0. TypeOK /\ Visits
  BY DEF TypeInv
<1>1. PICK r : r = NewRun(item)
  OBVIOUS
<1>2. r \in Run /\ r.over = {} /\ r.pc = "gather" /\ r.item = item
  BY <1>0, <1>1 DEF NewRun, Run, TypeOK
<1>3. /\ runs' \in [Workers -> Run \cup {Idle}] /\ runs'[w] = r
      /\ \A v \in Workers \ {w} : runs'[v] = runs[v]
  BY <1>0, <1>1, <1>2 DEF TypeOK
<1>4. \A c \in Clusters : runs'[c] # Idle => runs'[c].item \in Item
  BY <1>0, <1>2, <1>3 DEF TypeOK, Workers
<1>5. Visits'
  BY <1>0, <1>2, <1>3 DEF Visits
<1>6. QED
  BY <1>3, <1>4, <1>5

\* What the event at the head of a queue does to the cache of its cluster
LEMMA TakeParts ==
    ASSUME TypeInv, NEW c \in Clusters, NEW item \in Item,
           TakeTraffic(c, item) \/ TakeOutlier(c, item) \/ TakeConnection(c, item)
    PROVE  /\ cached' \in [Clusters -> SUBSET Object]
           /\ \A d \in Clusters \ {c} : cached'[d] = cached[d]
<1>1. item.obj \in Object /\ cached \in [Clusters -> SUBSET Object]
  BY DEF Item, TypeInv, TypeOK
<1>2. PICK S : /\ cached' = [cached EXCEPT ![c] = S]
               /\ S = Without(c, item.obj) \/ S = Without(c, item.obj) \cup {item.obj} \/ S = cached[c]
  BY DEF TakeTraffic, TakeOutlier, TakeConnection, PutTraffic, PutOutlier, PutConnection
<1>3. S \subseteq Object
  BY <1>1, <1>2 DEF Without
<1>4. QED
  BY <1>1, <1>2, <1>3

LEMMA TakePolicyType ==
    ASSUME TypeInv, NEW c \in Clusters, TakePolicy(c)
    PROVE  TypeInv'
<1> DEFINE item == Head(queues[c])
<1>0. TypeOK /\ Named /\ c \in Workers
  BY DEF TypeInv, Workers
<1>1. /\ queues[c] # << >>
      /\ queues' = [queues EXCEPT ![c] = Tail(queues[c])]
      /\ TakeTraffic(c, item) \/ TakeOutlier(c, item) \/ TakeConnection(c, item)
      /\ runs' = [runs EXCEPT ![c] = NewRun(item)]
      /\ misjudged' \in BOOLEAN /\ Overlap
      /\ UNCHANGED <<kind, live, clock, sources, joined, global, used, troubled>>
  BY <1>0 DEF TakePolicy, TypeOK
<1>2. queues \in [Clusters -> Seq(Item)] /\ queues[c] \in Seq(Item)
  BY <1>0 DEF TypeOK
<1>3. item \in Item /\ Tail(queues[c]) \in Seq(Item)
  BY <1>1, <1>2, TailParts
<1> HIDE DEF item
<1>4. cached' \in [Clusters -> SUBSET Object]
  BY <1>1, <1>3, TakeParts
<1>5. queues' \in [Clusters -> Seq(Item)]
  BY <1>1, <1>2, <1>3
<1>6. /\ runs' \in [Workers -> Run \cup {Idle}]
      /\ \A d \in Clusters : runs'[d] # Idle => runs'[d].item \in Item
      /\ Visits'
  BY <1>0, <1>1, <1>3, RunStarts
<1>7. raced' \in BOOLEAN /\ budget' \in Budget
  BY <1>0, <1>1, OverlapType
<1>8. TypeOK'
  BY <1>0, <1>1, <1>4, <1>5, <1>6, <1>7 DEF TypeOK
<1>9. QED
  BY <1>0, <1>1, <1>6, <1>8 DEF TypeInv, Named

LEMMA DropRetryType ==
    ASSUME TypeInv, NEW c \in Clusters, DropRetry(c)
    PROVE  TypeInv'
<1>0. TypeOK /\ Named /\ Visits
  BY DEF TypeInv
<1>1. /\ queues[c] # << >>
      /\ queues' = [queues EXCEPT ![c] = Tail(queues[c])]
      /\ misjudged' \in BOOLEAN
      /\ UNCHANGED <<kind, live, clock, sources, joined, cached, global, used, runs,
                     raced, troubled, budget>>
  BY <1>0 DEF DropRetry, TypeOK
<1>2. queues \in [Clusters -> Seq(Item)] /\ queues[c] \in Seq(Item)
  BY <1>0 DEF TypeOK
<1>3. Tail(queues[c]) \in Seq(Item)
  BY <1>1, <1>2, TailParts
<1>4. queues' \in [Clusters -> Seq(Item)]
  BY <1>1, <1>2, <1>3
<1>5. TypeOK'
  BY <1>0, <1>1, <1>4 DEF TypeOK
<1>6. QED
  BY <1>0, <1>1, <1>5 DEF TypeInv, Named, Visits

LEMMA TakeWorkloadType ==
    ASSUME TypeInv, TakeWorkload
    PROVE  TypeInv'
<1>0. TypeOK /\ Named /\ Workload \in Workers /\ Workload \notin Clusters
  BY PolicyAssumption DEF TypeInv, Workers
<1>1. /\ joined' = FALSE /\ runs' = [runs EXCEPT ![Workload] = NewRun(NoPolicy)] /\ Overlap
      /\ UNCHANGED <<kind, live, clock, sources, queues, cached, global, used,
                     misjudged, troubled>>
  BY DEF TakeWorkload
<1>2. /\ runs' \in [Workers -> Run \cup {Idle}]
      /\ \A d \in Clusters : runs'[d] # Idle => runs'[d].item \in Item
      /\ Visits'
  BY <1>0, <1>1, RunStarts
<1>3. raced' \in BOOLEAN /\ budget' \in Budget
  BY <1>0, <1>1, OverlapType
<1>4. TypeOK'
  BY <1>0, <1>1, <1>2, <1>3 DEF TypeOK
<1>5. QED
  BY <1>0, <1>1, <1>2, <1>4 DEF TypeInv, Named

\* The steps of a run
LEMMA GatherRun ==
    ASSUME TypeOK, NEW w \in Workers, Gather(w)
    PROVE  /\ runs[w] \in Run /\ runs[w].pc = "gather"
           /\ \E c \in runs[w].left, r \in Run :
                /\ runs' = [runs EXCEPT ![w] = r]
                /\ r.left = runs[w].left \ {c} /\ r.over = runs[w].over \cup ({c} \cap sources)
                /\ r.found = (IF c \in sources THEN runs[w].found \cup cached[c] ELSE runs[w].found)
                /\ r.pc = (IF runs[w].left = {c} THEN "publish" ELSE "gather")
                /\ r.prefer = runs[w].prefer /\ r.err = runs[w].err /\ r.item = runs[w].item
           /\ UNCHANGED <<kind, live, clock, sources, queues, joined, cached, global, used,
                          raced, misjudged, troubled, budget>>
<1>1. /\ runs[w].pc = "gather"
      /\ UNCHANGED <<kind, live, clock, sources, queues, joined, cached, global, used,
                     raced, misjudged, troubled, budget>>
  BY DEF Gather
<1>2. runs[w] \in Run
  BY <1>1, InRun
<1>3. PICK c \in runs[w].left :
         runs' = [runs EXCEPT ![w] = [runs[w] EXCEPT
            !.left = @ \ {c}, !.over = @ \cup ({c} \cap sources),
            !.found = IF c \in sources THEN @ \cup cached[c] ELSE @,
            !.pc = IF runs[w].left = {c} THEN "publish" ELSE "gather"]]
  BY DEF Gather
<1> DEFINE f == IF c \in sources THEN runs[w].found \cup cached[c] ELSE runs[w].found
<1> DEFINE r == [runs[w] EXCEPT !.left = @ \ {c}, !.over = @ \cup ({c} \cap sources), !.found = f,
                    !.pc = IF runs[w].left = {c} THEN "publish" ELSE "gather"]
<1>4. c \in Clusters /\ cached[c] \subseteq Object
  BY <1>2, <1>3 DEF TypeOK, Run
<1>5. f \subseteq Object
  BY <1>2, <1>4 DEF Run
<1>6. runs' = [runs EXCEPT ![w] = r]
  BY <1>3
<1>7. f = (IF c \in sources THEN runs[w].found \cup cached[c] ELSE runs[w].found)
  OBVIOUS
<1> HIDE DEF f
<1>8. r \in Run
  BY <1>2, <1>4, <1>5 DEF Run
<1>9. /\ r.left = runs[w].left \ {c} /\ r.over = runs[w].over \cup ({c} \cap sources) /\ r.found = f
      /\ r.pc = (IF runs[w].left = {c} THEN "publish" ELSE "gather")
      /\ r.prefer = runs[w].prefer /\ r.err = runs[w].err /\ r.item = runs[w].item
  BY <1>2 DEF Run
<1> HIDE DEF r
<1>10. r.found = (IF c \in sources THEN runs[w].found \cup cached[c] ELSE runs[w].found)
  BY <1>7, <1>9
<1>11. \E d \in runs[w].left, s \in Run :
         /\ runs' = [runs EXCEPT ![w] = s]
         /\ s.left = runs[w].left \ {d} /\ s.over = runs[w].over \cup ({d} \cap sources)
         /\ s.found = (IF d \in sources THEN runs[w].found \cup cached[d] ELSE runs[w].found)
         /\ s.pc = (IF runs[w].left = {d} THEN "publish" ELSE "gather")
         /\ s.prefer = runs[w].prefer /\ s.err = runs[w].err /\ s.item = runs[w].item
  BY <1>3, <1>6, <1>8, <1>9, <1>10, Zenon
<1>12. QED
  BY <1>1, <1>2, <1>11

LEMMA PublishRun ==
    ASSUME TypeInv, NEW w \in Workers, Publish(w)
    PROVE  /\ runs[w] \in Run /\ runs[w].pc = "publish"
           /\ global' \in Best(runs[w].found) /\ global' \in Object \cup {NoPolicy}
           /\ \E r \in Run :
                /\ runs' = [runs EXCEPT ![w] = r]
                /\ r.pc = "write" /\ r.left = runs[w].over /\ r.over = runs[w].over
                /\ kind = "gtp" => r.prefer \in PreferenceRegions(global, global')
                /\ r.found = runs[w].found /\ r.err = runs[w].err /\ r.item = runs[w].item
           /\ troubled' \in BOOLEAN /\ (troubled => troubled')
           /\ kind = "gtp" /\ ~troubled' => ~MovesApart(global, global')
           /\ UNCHANGED <<kind, live, clock, sources, queues, joined, cached, used,
                          raced, misjudged, budget>>
<1>0. TypeOK /\ troubled \in BOOLEAN
  BY DEF TypeInv, TypeOK
<1>1. /\ runs[w].pc = "publish"
      /\ UNCHANGED <<kind, live, clock, sources, queues, joined, cached, used,
                     raced, misjudged, budget>>
  BY DEF Publish
<1>2. runs[w] \in Run /\ runs[w] # Idle /\ runs[w].found \subseteq Object
  BY <1>0, <1>1, InRun DEF Run
<1>3. PICK best \in Best(runs[w].found) :
         PublishTraffic(w, best) \/ PublishOutlier(w, best) \/ PublishConnection(w, best)
  BY DEF Publish
<1>4. best \in Object \cup {NoPolicy}
  BY <1>2, BestIn
<1>5. global' = best
  BY <1>3 DEF PublishTraffic, PublishOutlier, PublishConnection,
              SetTraffic, SetOutlier, SetConnection
<1>6. PICK p \in Regions \cup {"none"} :
         ToWrite(w, p) /\ (kind = "gtp" => p \in PreferenceRegions(global, best))
  <2>1. CASE PublishTraffic(w, best)
    <3>1. PICK p \in PreferenceRegions(global, best) : ToWrite(w, p)
      BY <2>1 DEF PublishTraffic
    <3>2. p \in Regions \cup {"none"}
      BY <1>4, <3>1, PreferenceType
    <3>3. QED
      BY <3>1, <3>2
  <2>2. CASE PublishOutlier(w, best) \/ PublishConnection(w, best)
    BY <2>2 DEF PublishOutlier, PublishConnection, SetOutlier, SetConnection
  <2>3. QED
    BY <1>3, <2>1, <2>2
<1>7. /\ troubled' \in BOOLEAN /\ (troubled => troubled')
      /\ kind = "gtp" /\ ~troubled' => ~MovesApart(global, best)
  <2>1. CASE PublishTraffic(w, best)
    <3>1. troubled' = (troubled \/ MovesApart(global, best))
      BY <2>1 DEF PublishTraffic
    <3>2. QED
      BY <3>1
  <2>2. CASE PublishOutlier(w, best) \/ PublishConnection(w, best)
    <3>1. troubled' = troubled /\ kind # "gtp"
      BY <2>2 DEF PublishOutlier, PublishConnection, SetOutlier, SetConnection
    <3>2. QED
      BY <1>0, <3>1
  <2>3. QED
    BY <1>3, <2>1, <2>2
<1> DEFINE r == [runs[w] EXCEPT !.pc = "write", !.left = runs[w].over, !.prefer = p]
<1>8. /\ r \in Run /\ r.pc = "write" /\ r.left = runs[w].over /\ r.over = runs[w].over
      /\ r.prefer = p
      /\ r.found = runs[w].found /\ r.err = runs[w].err /\ r.item = runs[w].item
  BY <1>2, <1>6 DEF Run
<1>9. runs' = [runs EXCEPT ![w] = r]
  BY <1>6 DEF ToWrite
<1> HIDE DEF r
<1>10. \E s \in Run :
         /\ runs' = [runs EXCEPT ![w] = s]
         /\ s.pc = "write" /\ s.left = runs[w].over /\ s.over = runs[w].over
         /\ kind = "gtp" => s.prefer \in PreferenceRegions(global, best)
         /\ s.found = runs[w].found /\ s.err = runs[w].err /\ s.item = runs[w].item
  BY <1>6, <1>8, <1>9
<1>11. QED
  BY <1>1, <1>2, <1>3, <1>4, <1>5, <1>7, <1>10

LEMMA DatabaseRun ==
    ASSUME TypeOK, NEW w \in Workers, DatabaseFails(w)
    PROVE  /\ runs[w] \in Run /\ runs[w].pc = "publish"
           /\ \E r \in Run :
                /\ runs' = [runs EXCEPT ![w] = r]
                /\ r.pc = "write" /\ r.left = runs[w].over /\ r.over = runs[w].over
                /\ r.err = TRUE /\ r.found = runs[w].found /\ r.item = runs[w].item
           /\ troubled' = TRUE /\ budget' \in Budget
           /\ UNCHANGED <<kind, live, clock, sources, queues, joined, cached, global, used,
                          raced, misjudged>>
<1>1. /\ runs[w].pc = "publish" /\ Spend("failures") /\ troubled' = TRUE
      /\ runs' = [runs EXCEPT ![w] =
                    [runs[w] EXCEPT !.pc = "write", !.left = runs[w].over, !.err = TRUE]]
      /\ UNCHANGED <<kind, live, clock, sources, queues, joined, cached, global, used,
                     raced, misjudged>>
  BY DEF DatabaseFails
<1>2. runs[w] \in Run
  BY <1>1, InRun
<1>3. budget' \in Budget
  BY <1>1, SpendType
<1> DEFINE r == [runs[w] EXCEPT !.pc = "write", !.left = runs[w].over, !.err = TRUE]
<1>4. /\ r \in Run /\ r.pc = "write" /\ r.left = runs[w].over /\ r.over = runs[w].over
      /\ r.err = TRUE /\ r.found = runs[w].found /\ r.item = runs[w].item
  BY <1>2 DEF Run
<1>5. runs' = [runs EXCEPT ![w] = r]
  BY <1>1
<1> HIDE DEF r
<1>6. QED
  BY <1>1, <1>2, <1>3, <1>4, <1>5

\* The end of a cluster's turn
LEMMA DoneRun ==
    ASSUME TypeOK, NEW w \in Workers, NEW c \in Clusters, NEW err \in BOOLEAN,
           Turn(w, c), Done(w, c, err)
    PROVE  /\ runs[w] \in Run /\ runs[w].pc = "write" /\ c \in runs[w].left
           /\ \E r \in Run :
                /\ runs' = [runs EXCEPT ![w] = r]
                /\ r.left = runs[w].left \ {c} /\ r.over = runs[w].over
                /\ r.err = (runs[w].err \/ err)
                /\ r.pc = (IF runs[w].left = {c} THEN "finish" ELSE "write")
                /\ r.prefer = runs[w].prefer /\ r.found = runs[w].found /\ r.item = runs[w].item
<1>1. runs[w].pc = "write" /\ c \in runs[w].left
  BY DEF Turn
<1>2. runs[w] \in Run
  BY <1>1, InRun
<1> DEFINE e == runs[w].err \/ err
<1> DEFINE r == [runs[w] EXCEPT !.left = @ \ {c}, !.err = e,
                    !.pc = IF runs[w].left = {c} THEN "finish" ELSE "write"]
<1>3. runs' = [runs EXCEPT ![w] = r]
  BY DEF Done
<1>4. e \in BOOLEAN
  OBVIOUS
<1> HIDE DEF e
<1>5. r \in Run
  BY <1>2, <1>4 DEF Run
<1>6. /\ r.left = runs[w].left \ {c} /\ r.over = runs[w].over /\ r.err = e
      /\ r.pc = (IF runs[w].left = {c} THEN "finish" ELSE "write")
      /\ r.prefer = runs[w].prefer /\ r.found = runs[w].found /\ r.item = runs[w].item
  BY <1>2 DEF Run
<1> HIDE DEF r
<1>7. QED
  BY <1>1, <1>2, <1>3, <1>5, <1>6 DEF e

LEMMA GatherType ==
    ASSUME TypeInv, NEW w \in Workers, Gather(w)
    PROVE  TypeInv'
<1>0. TypeOK /\ Visits
  BY DEF TypeInv
<1>1. /\ runs[w] \in Run /\ runs[w] # Idle
      /\ UNCHANGED <<kind, live, clock, sources, queues, joined, cached, global, used,
                     raced, misjudged, troubled, budget>>
  BY <1>0, GatherRun, NotIdle
<1>2. PICK c \in runs[w].left, r \in Run :
        /\ runs' = [runs EXCEPT ![w] = r]
        /\ r.left = runs[w].left \ {c} /\ r.over = runs[w].over \cup ({c} \cap sources)
        /\ r.found = (IF c \in sources THEN runs[w].found \cup cached[c] ELSE runs[w].found)
        /\ r.pc = (IF runs[w].left = {c} THEN "publish" ELSE "gather")
        /\ r.prefer = runs[w].prefer /\ r.err = runs[w].err /\ r.item = runs[w].item
  BY <1>0, GatherRun
<1>3. r.over \subseteq sources /\ (r.pc # "gather" => r.left \subseteq sources)
  BY <1>0, <1>1, <1>2 DEF Visits
<1>4. /\ used' \in [Clusters -> Object \cup {NoPolicy}] /\ global' \in Object \cup {NoPolicy}
      /\ troubled' \in BOOLEAN /\ budget' \in Budget
  BY <1>0, <1>1 DEF TypeOK
<1>5. QED
  BY <1>1, <1>2, <1>3, <1>4, RunMoves

LEMMA PublishType ==
    ASSUME TypeInv, NEW w \in Workers, Publish(w)
    PROVE  TypeInv'
<1>0. TypeOK /\ Visits
  BY DEF TypeInv
<1>1. /\ runs[w] \in Run /\ runs[w] # Idle
      /\ global' \in Object \cup {NoPolicy} /\ troubled' \in BOOLEAN
      /\ UNCHANGED <<kind, live, clock, sources, queues, joined, cached, used,
                     raced, misjudged, budget>>
  BY PublishRun, NotIdle
<1>2. PICK r \in Run : /\ runs' = [runs EXCEPT ![w] = r] /\ r.item = runs[w].item
                       /\ r.left = runs[w].over /\ r.over = runs[w].over
  BY PublishRun
<1>3. used' \in [Clusters -> Object \cup {NoPolicy}] /\ budget' \in Budget
  BY <1>0, <1>1 DEF TypeOK
<1>4. r.left \subseteq sources /\ r.over \subseteq sources
  BY <1>0, <1>1, <1>2 DEF Visits
<1>5. QED
  BY <1>1, <1>2, <1>3, <1>4, RunMoves

LEMMA DatabaseFailsType ==
    ASSUME TypeInv, NEW w \in Workers, DatabaseFails(w)
    PROVE  TypeInv'
<1>0. TypeOK /\ Visits
  BY DEF TypeInv
<1>1. /\ runs[w] \in Run /\ runs[w] # Idle /\ troubled' = TRUE /\ budget' \in Budget
      /\ UNCHANGED <<kind, live, clock, sources, queues, joined, cached, global, used,
                     raced, misjudged>>
  BY <1>0, DatabaseRun, NotIdle
<1>2. PICK r \in Run : /\ runs' = [runs EXCEPT ![w] = r] /\ r.item = runs[w].item
                       /\ r.left = runs[w].over /\ r.over = runs[w].over
  BY <1>0, DatabaseRun
<1>3. /\ used' \in [Clusters -> Object \cup {NoPolicy}]
      /\ global' \in Object \cup {NoPolicy} /\ troubled' \in BOOLEAN
  BY <1>0, <1>1 DEF TypeOK
<1>4. r.left \subseteq sources /\ r.over \subseteq sources
  BY <1>0, <1>1, <1>2 DEF Visits
<1>5. QED
  BY <1>1, <1>2, <1>3, <1>4, RunMoves

LEMMA WriteType ==
    ASSUME TypeInv, NEW w \in Workers, Write(w) \/ WriteFails(w)
    PROVE  TypeInv'
<1>0. TypeOK /\ Visits
  BY DEF TypeInv
<1>1. PICK c \in Clusters, err \in BOOLEAN : Turn(w, c) /\ Done(w, c, err)
  BY DEF Write, WriteFails
<1>2. /\ runs[w] \in Run /\ runs[w] # Idle /\ runs[w].pc = "write"
  BY <1>0, <1>1, DoneRun, NotIdle
<1>3. PICK r \in Run : /\ runs' = [runs EXCEPT ![w] = r]
                       /\ r.left = runs[w].left \ {c} /\ r.over = runs[w].over
                       /\ r.item = runs[w].item
  BY <1>0, <1>1, DoneRun
<1>4. /\ UNCHANGED <<kind, live, clock, sources, queues, joined, cached, global,
                     raced, misjudged>>
      /\ troubled' \in BOOLEAN /\ budget' \in Budget
  BY <1>0, SpendType DEF Write, WriteFails, TypeOK
<1>5. used' \in [Clusters -> Object \cup {NoPolicy}]
  BY <1>0 DEF Write, WriteFails, TypeOK
<1>6. global' \in Object \cup {NoPolicy}
  BY <1>0, <1>4 DEF TypeOK
<1>7. r.left \subseteq sources /\ r.over \subseteq sources
  BY <1>0, <1>2, <1>3 DEF Visits
<1>8. QED
  BY <1>2, <1>3, <1>4, <1>5, <1>6, <1>7, RunMoves

LEMMA FinishParts ==
    ASSUME TypeOK, NEW w \in Workers, Finish(w)
    PROVE  /\ runs[w] \in Run /\ runs[w].pc = "finish" /\ runs[w] # Idle
           /\ runs' = [runs EXCEPT ![w] = Idle]
           /\ UNCHANGED <<kind, live, clock, sources, cached, global, used,
                          raced, troubled, budget>>
           /\ joined' \in BOOLEAN /\ misjudged' \in BOOLEAN
           /\ (~runs[w].err => queues' = queues /\ joined' = joined /\ misjudged' = misjudged)
           /\ (runs[w].err /\ w \notin Clusters => queues' = queues /\ joined' = TRUE)
           /\ (runs[w].err /\ w \in Clusters =>
                 /\ runs[w].item \in Item /\ joined' = joined
                 /\ \/ /\ queues' = [queues EXCEPT ![w] =
                                       Append(queues[w], [runs[w].item EXCEPT !.tries = @ + 1])]
                       /\ misjudged' = misjudged
                    \/ queues' = queues /\ misjudged' = (misjudged \/ IsLatest(w, runs[w].item)))
<1>1. /\ runs[w].pc = "finish" /\ runs' = [runs EXCEPT ![w] = Idle]
      /\ UNCHANGED <<kind, live, clock, sources, cached, global, used,
                     raced, troubled, budget>>
  BY DEF Finish
<1>2. /\ runs[w] \in Run /\ runs[w] # Idle
      /\ w \in Clusters => runs[w].item \in Item
  BY <1>1, InRun
<1>3. runs[w].err \in BOOLEAN /\ joined \in BOOLEAN /\ misjudged \in BOOLEAN
  BY <1>2 DEF Run, TypeOK
<1>4. w \in Clusters <=> w # Workload
  BY PolicyAssumption DEF Workers
<1>5. CASE ~runs[w].err
  <2>1. queues' = queues /\ joined' = joined /\ misjudged' = misjudged
    BY <1>5 DEF Finish
  <2>2. QED
    BY <1>1, <1>2, <1>3, <1>5, <2>1
<1>6. CASE runs[w].err /\ w = Workload
  <2>1. queues' = queues /\ joined' = TRUE /\ misjudged' = misjudged
    BY <1>6 DEF Finish
  <2>2. QED
    BY <1>1, <1>2, <1>3, <1>4, <1>6, <2>1
<1>7. CASE runs[w].err /\ w # Workload
  <2>1. Requeue(w, runs[w].item) /\ joined' = joined
    BY <1>7 DEF Finish
  <2>2. \/ /\ queues' = [queues EXCEPT ![w] =
                           Append(queues[w], [runs[w].item EXCEPT !.tries = @ + 1])]
           /\ misjudged' = misjudged
        \/ queues' = queues /\ misjudged' = (misjudged \/ IsLatest(w, runs[w].item))
    BY <2>1 DEF Requeue
  <2>3. misjudged' \in BOOLEAN
    BY <1>3, <2>2
  <2>4. QED
    BY <1>1, <1>2, <1>3, <1>4, <1>7, <2>1, <2>2, <2>3
<1>8. QED
  BY <1>3, <1>5, <1>6, <1>7

LEMMA FinishType ==
    ASSUME TypeInv, NEW w \in Workers, Finish(w)
    PROVE  TypeInv'
<1>0. TypeOK /\ Named /\ Visits
  BY DEF TypeInv
<1>1. /\ runs[w] \in Run /\ runs[w] # Idle
      /\ runs' = [runs EXCEPT ![w] = Idle]
      /\ UNCHANGED <<kind, live, clock, sources, cached, global, used,
                     raced, troubled, budget>>
      /\ joined' \in BOOLEAN /\ misjudged' \in BOOLEAN
  BY <1>0, FinishParts
<1>2. queues' \in [Clusters -> Seq(Item)]
  <2>1. CASE queues' = queues
    BY <1>0, <2>1 DEF TypeOK
  <2>2. CASE queues' # queues
    <3>1. /\ w \in Clusters /\ runs[w].item \in Item
          /\ queues' = [queues EXCEPT ![w] =
                          Append(queues[w], [runs[w].item EXCEPT !.tries = @ + 1])]
      <4>1. runs[w].err \in BOOLEAN
        BY <1>1 DEF Run
      <4>2. QED
        BY <1>0, <2>2, <4>1, FinishParts
    <3>2. PICK i : i = [runs[w].item EXCEPT !.tries = @ + 1]
      OBVIOUS
    <3>3. i \in Item
      BY <3>1, <3>2 DEF Item
    <3>4. QED
      BY <1>0, <3>1, <3>2, <3>3, AppendParts DEF TypeOK
  <2>3. QED
    BY <2>1, <2>2
<1>3. /\ runs' \in [Workers -> Run \cup {Idle}] /\ runs'[w] = Idle
      /\ \A v \in Workers \ {w} : runs'[v] = runs[v]
      /\ \A d \in Clusters : d \in Workers
  BY <1>0, <1>1 DEF TypeOK, Workers
<1>4. TypeOK'
  <2>1. \A d \in Clusters : runs'[d] # Idle => runs'[d].item \in Item
    BY <1>0, <1>3 DEF TypeOK
  <2>2. QED
    BY <1>0, <1>1, <1>2, <1>3, <2>1 DEF TypeOK
<1>5. Visits'
  BY <1>0, <1>1, <1>3 DEF Visits
<1>6. QED
  BY <1>0, <1>1, <1>4, <1>5 DEF TypeInv, Named

LEMMA JoinType ==
    ASSUME TypeInv, NEW c \in Clusters, Join(c)
    PROVE  TypeInv'
<1>0. TypeOK /\ Named /\ Visits
  BY DEF TypeInv
<1>1. /\ Spend("joins") /\ sources' = sources \cup {c} /\ joined' = TRUE
      /\ UNCHANGED <<kind, live, clock, queues, cached, global, used, runs,
                     raced, misjudged, troubled>>
  BY DEF Join
<1>2. budget' \in Budget
  BY <1>0, <1>1, SpendType
<1>3. TypeOK'
  BY <1>0, <1>1, <1>2 DEF TypeOK
<1>4. QED
  BY <1>0, <1>1, <1>3 DEF TypeInv, Named, Visits

\* What a user does
LEMMA ApplyParts ==
    ASSUME TypeOK, NEW c \in Clusters, NEW n \in Names, Apply(c, n)
    PROVE  /\ \E new \in Object :
                /\ new.name = n
                /\ live' = [live EXCEPT ![c] = [live[c] EXCEPT ![n] = new]]
                /\ queues' = [queues EXCEPT ![c] =
                     Append(queues[c], [type |-> "Put", obj |-> new, tries |-> 0])]
           /\ clock' = clock + 1 /\ budget' \in Budget
           /\ UNCHANGED <<kind, sources, joined, cached, global, used, runs,
                          raced, misjudged, troubled>>
<1>1. /\ Spend("changes") /\ clock' = clock + 1
      /\ UNCHANGED <<kind, sources, joined, cached, global, used, runs,
                     raced, misjudged, troubled>>
  BY DEF Apply
<1>2. budget' \in Budget
  BY <1>1, SpendType
<1>3. PICK d \in (IF kind = "gtp" THEN Designs ELSE {[to |-> Nowhere, prio |-> 0]}),
           birth \in Birthdays, ign \in BOOLEAN :
        LET new == [name |-> n, at |-> c, to |-> d.to, prio |-> d.prio, ignore |-> ign,
                    born |-> IF live[c][n] = NoPolicy THEN birth ELSE live[c][n].born,
                    rev |-> clock + 1]
        IN  live' = [live EXCEPT ![c][n] = new] /\ Event(c, "Put", new)
  BY DEF Apply
<1>4. d.to \in Targets /\ d.prio \in Priorities
  <2>1. Nowhere \in Targets /\ 0 \in Priorities
    BY DEF Nowhere, Targets, Priorities
  <2>2. QED
    BY <1>3, <2>1, PolicyAssumption
<1>5. clock \in Nat /\ live[c][n] \in Object \cup {NoPolicy}
  BY DEF TypeOK
<1>6. birth \in Nat
  <2>1. \A e \in Clusters, m \in Names : live[e][m] # NoPolicy => live[e][m].born \in Nat
    BY DEF TypeOK, Object
  <2>2. \A b \in Births : \E e \in Clusters, m \in Names :
           live[e][m] # NoPolicy /\ b = live[e][m].born
    BY DEF Births
  <2>3. QED
    BY <1>3, <1>5, <2>1, <2>2 DEF Birthdays
<1>7. PICK b \in Nat : b = (IF live[c][n] = NoPolicy THEN birth ELSE live[c][n].born)
  BY <1>5, <1>6 DEF Object
<1> DEFINE new == [name |-> n, at |-> c, to |-> d.to, prio |-> d.prio, ignore |-> ign,
                   born |-> b, rev |-> clock + 1]
<1>8. live' = [live EXCEPT ![c][n] = new] /\ Event(c, "Put", new)
  BY <1>3, <1>7
<1>9. new \in Object /\ new.name = n
  BY <1>4, <1>5, <1>7 DEF Object
<1> HIDE DEF new
<1>10. live' = [live EXCEPT ![c] = [live[c] EXCEPT ![n] = new]]
  BY <1>8
<1>11. queues' = [queues EXCEPT ![c] =
                    Append(queues[c], [type |-> "Put", obj |-> new, tries |-> 0])]
  BY <1>8 DEF Event
<1>12. QED
  BY <1>1, <1>2, <1>9, <1>10, <1>11

LEMMA RemoveParts ==
    ASSUME TypeOK, NEW c \in Clusters, NEW n \in Names, Remove(c, n)
    PROVE  /\ live[c][n] \in Object
           /\ live' = [live EXCEPT ![c] = [live[c] EXCEPT ![n] = NoPolicy]]
           /\ queues' = [queues EXCEPT ![c] =
                Append(queues[c], [type |-> "Delete", obj |-> live[c][n], tries |-> 0])]
           /\ budget' \in Budget
           /\ UNCHANGED <<kind, clock, sources, joined, cached, global, used, runs,
                          raced, misjudged, troubled>>
<1>1. /\ live[c][n] # NoPolicy /\ Spend("changes")
      /\ live' = [live EXCEPT ![c][n] = NoPolicy]
      /\ Event(c, "Delete", live[c][n])
      /\ UNCHANGED <<kind, clock, sources, joined, cached, global, used, runs,
                     raced, misjudged, troubled>>
  BY DEF Remove
<1>2. budget' \in Budget
  BY <1>1, SpendType
<1>3. live[c][n] \in Object
  BY <1>1 DEF TypeOK
<1>4. QED
  BY <1>1, <1>2, <1>3 DEF Event

\* A policy is changed or removed
LEMMA ChangeType ==
    ASSUME TypeInv, NEW c \in Clusters, NEW n \in Names, NEW i \in Item,
           NEW p \in Object \cup {NoPolicy}, p # NoPolicy => p.name = n,
           live' = [live EXCEPT ![c] = [live[c] EXCEPT ![n] = p]],
           queues' = [queues EXCEPT ![c] = Append(queues[c], i)],
           clock' \in Nat, budget' \in Budget,
           UNCHANGED <<kind, sources, joined, cached, global, used, runs,
                       raced, misjudged, troubled>>
    PROVE  TypeInv'
<1>0. TypeOK /\ Named /\ Visits
  BY DEF TypeInv
<1>1. queues' \in [Clusters -> Seq(Item)]
  BY <1>0, AppendParts DEF TypeOK
<1>2. /\ live' \in [Clusters -> [Names -> Object \cup {NoPolicy}]]
      /\ live'[c][n] = p
      /\ \A d \in Clusters, m \in Names : live'[d][m] = live[d][m] \/ (d = c /\ m = n)
  BY <1>0 DEF TypeOK
<1>3. TypeOK'
  BY <1>0, <1>1, <1>2 DEF TypeOK
<1>4. Named'
  BY <1>0, <1>2 DEF Named
<1>5. QED
  BY <1>0, <1>3, <1>4 DEF TypeInv, Visits

LEMMA RemoveType ==
    ASSUME TypeInv, NEW c \in Clusters, NEW n \in Names, Remove(c, n)
    PROVE  TypeInv'
<1>0. TypeOK /\ clock \in Nat
  BY DEF TypeInv, TypeOK
<1>1. /\ live[c][n] \in Object
      /\ live' = [live EXCEPT ![c] = [live[c] EXCEPT ![n] = NoPolicy]]
      /\ queues' = [queues EXCEPT ![c] =
           Append(queues[c], [type |-> "Delete", obj |-> live[c][n], tries |-> 0])]
      /\ budget' \in Budget
      /\ UNCHANGED <<kind, clock, sources, joined, cached, global, used, runs,
                     raced, misjudged, troubled>>
  BY <1>0, RemoveParts
<1>2. PICK i : i = [type |-> "Delete", obj |-> live[c][n], tries |-> 0]
  OBVIOUS
<1>3. i \in Item
  BY <1>1, <1>2 DEF Item
<1>4. QED
  BY <1>0, <1>1, <1>2, <1>3, ChangeType

LEMMA ApplyType ==
    ASSUME TypeInv, NEW c \in Clusters, NEW n \in Names, Apply(c, n)
    PROVE  TypeInv'
<1>0. TypeOK /\ clock \in Nat
  BY DEF TypeInv, TypeOK
<1>1. /\ clock' = clock + 1 /\ budget' \in Budget
      /\ UNCHANGED <<kind, sources, joined, cached, global, used, runs,
                     raced, misjudged, troubled>>
  BY <1>0, ApplyParts
<1>2. PICK new \in Object :
        /\ new.name = n
        /\ live' = [live EXCEPT ![c] = [live[c] EXCEPT ![n] = new]]
        /\ queues' = [queues EXCEPT ![c] =
             Append(queues[c], [type |-> "Put", obj |-> new, tries |-> 0])]
  BY <1>0, ApplyParts
<1>3. PICK i : i = [type |-> "Put", obj |-> new, tries |-> 0]
  OBVIOUS
<1>4. i \in Item /\ clock' \in Nat
  BY <1>0, <1>1, <1>3 DEF Item
<1>5. QED
  BY <1>1, <1>2, <1>3, <1>4, ChangeType

LEMMA TypeInit == Init => TypeInv
<1> SUFFICES ASSUME Init PROVE TypeInv
  OBVIOUS
<1>1. /\ live = [c \in Clusters |-> [n \in Names |-> NoPolicy]]
      /\ cached = [c \in Clusters |-> {}]
      /\ runs = [w \in Workers |-> Idle]
      /\ queues = [c \in Clusters |-> << >>]
      /\ \E c \in Clusters : sources = {c}
  BY DEF Init
<1>2. TypeOK
  <2>1. budget \in Budget /\ kind \in Kinds /\ clock \in Nat
    BY PolicyAssumption DEF Init
  <2>2. queues \in [Clusters -> Seq(Item)]
    BY <1>1
  <2>3. runs \in [Workers -> Run \cup {Idle}]
    BY <1>1
  <2>4. \A c \in Clusters : runs[c] # Idle => runs[c].item \in Item
    BY <1>1 DEF Workers
  <2>5. live \in [Clusters -> [Names -> Object \cup {NoPolicy}]]
    BY <1>1
  <2>6. QED
    BY <1>1, <2>1, <2>2, <2>3, <2>4, <2>5 DEF Init, TypeOK
<1>3. Named /\ Visits
  BY <1>1 DEF Named, Visits
<1>4. QED
  BY <1>2, <1>3 DEF TypeInv

LEMMA TypeNext ==
    ASSUME TypeInv, [Next]_vars
    PROVE  TypeInv'
<1>1. ASSUME NEW w \in Workers, Step(w)
      PROVE  TypeInv'
  BY <1>1, TakePolicyType, DropRetryType, TakeWorkloadType, GatherType, PublishType,
     DatabaseFailsType, WriteType, FinishType DEF Step
<1>2. ASSUME NEW c \in Clusters, Join(c)
      PROVE  TypeInv'
  BY <1>2, JoinType
<1>3. ASSUME NEW p \in Places, Apply(p[1], p[2]) \/ Remove(p[1], p[2])
      PROVE  TypeInv'
  <2>1. p[1] \in Clusters /\ p[2] \in Names
    BY PolicyAssumption
  <2>2. QED
    BY <1>3, <2>1, ApplyType, RemoveType
<1>4. CASE UNCHANGED vars
  <2>1. UNCHANGED <<kind, live, clock, sources, queues, joined, cached, global, used, runs,
                    raced, misjudged, troubled, budget>>
    BY <1>4 DEF vars
  <2>2. QED
    BY <2>1 DEF TypeInv, TypeOK, Named, Visits
<1>5. QED
  BY <1>1, <1>2, <1>3, <1>4 DEF Next

\* PolicyTypeCorrect: every variable keeps its type.  In particular the policy that a
\* run publishes is one of those it has found, and none is published only if it has
\* found none, whichever of two equally old policies is sorted first; and what it
\* prefers is a region of a cluster.
THEOREM PolicyTypeCorrect == Spec => []TypeOK
<1>1. TypeInv /\ [Next]_vars => TypeInv'
  BY TypeNext
<1>2. TypeInv => TypeOK
  BY DEF TypeInv
<1>3. QED
  BY <1>1, <1>2, TypeInit, PTL DEF Spec

-----------------------------------------------------------------------------
(* No crossing                                                             *)

\* One run at a time
OneRun == \A u, w \in Workers : runs[u] # Idle /\ runs[w] # Idle => u = w

\* Clusters use the current policy, or, until their turn comes, the one before; those
\* of the region that is preferred come first
Waits(c) == used[c] \notin {NoPolicy, global}

Handover(w) ==
    /\ \A c \in Clusters : Waits(c) =>
         c \in runs[w].left /\ PreferenceRegions(used[c], global) = {runs[w].prefer}
    /\ \A c, d \in Clusters : Waits(c) /\ Waits(d) => used[c] = used[d]
    /\ \/ runs[w].prefer = "none"
       \/ \A d \in runs[w].left : Region[d] # runs[w].prefer
       \/ \A c \in Clusters : used[c] = global => Region[c] = runs[w].prefer

\* A run comes to every cluster that has a policy
Reaches(w) ==
    \A c \in Clusters : used[c] # NoPolicy =>
       /\ runs[w].pc = "gather"  => c \in runs[w].left \cup runs[w].over
       /\ runs[w].pc = "publish" => c \in runs[w].over

Writing == \E w \in Workers : runs[w].pc = "write"

Crossless ==
    /\ OneRun
    /\ \A c \in Clusters \ sources : used[c] = NoPolicy
    /\ \A w \in Workers : Reaches(w)
    /\ \A w \in Workers : runs[w].pc = "write" => Handover(w)
    /\ ~Writing => \A c \in Clusters : ~Waits(c)

CrossInv == TypeInv /\ (kind = "gtp" /\ ~raced /\ ~troubled => Crossless)

\* A worker starts a run while no other is under way, or goes on with its own
LEMMA OneRunKept ==
    ASSUME TypeOK, OneRun, NEW w \in Workers, Alone \/ runs[w] # Idle,
           NEW r, runs' = [runs EXCEPT ![w] = r]
    PROVE  OneRun'
<1>1. \A v \in Workers \ {w} : runs'[v] = runs[v]
  BY DEF TypeOK
<1>2. \A v \in Workers \ {w} : runs[v] = Idle
  BY DEF OneRun, Alone
<1>3. QED
  BY <1>1, <1>2 DEF OneRun

LEMMA OverlapAlone ==
    ASSUME TypeOK, Overlap, ~raced'
    PROVE  Alone /\ raced' = raced /\ budget' = budget
<1>1. Alone
  BY DEF Overlap
<1>2. QED
  BY <1>1 DEF Overlap

\* A step that writes nothing and ends nobody's turn
LEMMA CrossSame ==
    ASSUME Crossless, OneRun', used' = used, global' = global, sources \subseteq sources',
           \A w \in Workers : runs[w].pc = "write" \/ runs'[w].pc = "write" => runs'[w] = runs[w],
           \A w \in Workers : runs'[w] = runs[w] \/ Reaches(w)'
    PROVE  Crossless'
<1>1. \A c \in Clusters \ sources' : used'[c] = NoPolicy
  BY DEF Crossless
<1>2. \A c \in Clusters : Waits(c)' <=> Waits(c)
  BY DEF Waits
<1>3. ASSUME NEW w \in Workers, runs'[w].pc = "write"
      PROVE  Handover(w)'
  <2>1. Handover(w) /\ runs'[w] = runs[w]
    BY <1>3 DEF Crossless
  <2>2. QED
    BY <2>1 DEF Handover, Waits
<1>4. Writing => Writing'
  BY DEF Writing
<1>5. \A w \in Workers : Reaches(w)'
  BY DEF Crossless, Reaches
<1>6. QED
  BY <1>1, <1>2, <1>3, <1>4, <1>5 DEF Crossless

\* Publishing: all clusters wait that do not use the new policy already
LEMMA CrossPublish ==
    ASSUME TypeInv, kind = "gtp", Crossless, NEW w \in Workers, Publish(w), ~troubled'
    PROVE  Crossless'
<1>0. TypeOK
  BY DEF TypeInv
<1>1. /\ runs[w] \in Run /\ runs[w] # Idle /\ runs[w].pc = "publish"
      /\ UNCHANGED <<kind, sources, used>> /\ ~MovesApart(global, global')
  BY PublishRun, NotIdle
<1>2. PICK r \in Run : /\ runs' = [runs EXCEPT ![w] = r] /\ r.pc = "write"
                       /\ r.left = runs[w].over
                       /\ r.prefer \in PreferenceRegions(global, global')
  BY PublishRun
<1>3. /\ runs'[w] = r
      /\ \A v \in Workers \ {w} : runs'[v] = Idle /\ runs[v] = Idle
  BY <1>0, <1>1, <1>2 DEF TypeOK, Crossless, OneRun
<1>4. OneRun'
  BY <1>0, <1>1, <1>2, OneRunKept DEF Crossless
<1>5. ~Writing
  BY <1>1, <1>3 DEF Writing, Idle
<1>6. \A c \in Clusters : used[c] = NoPolicy \/ (used[c] = global /\ c \in r.left)
  BY <1>1, <1>2, <1>5 DEF Crossless, Waits, Reaches
<1>61. PreferenceRegions(global, global') = {r.prefer}
  <2>1. \A p, q \in Destinations(global, global') : p = q
    BY <1>1 DEF MovesApart
  <2>2. QED
    BY <1>2, <2>1 DEF PreferenceRegions
<1>7. Handover(w)'
  <2>1. \A c \in Clusters : Waits(c)' =>
           c \in r.left /\ used'[c] = global /\ PreferenceRegions(used'[c], global') = {r.prefer}
    BY <1>1, <1>6, <1>61 DEF Waits
  <2>2. \/ r.prefer = "none"
        \/ \A c \in Clusters : used'[c] = global' => Region[c] = r.prefer
    <3>1. r.prefer # "none" => global # NoPolicy /\ global' # NoPolicy /\ global # global'
      <4>1. r.prefer # "none" => Destinations(global, global') # {}
        BY <1>2 DEF PreferenceRegions
      <4>2. QED
        BY <4>1 DEF Destinations, Moved
    <3>2. QED
      BY <1>1, <1>6, <3>1
  <2>3. QED
    BY <1>3, <2>1, <2>2 DEF Handover, PreferenceRegions, Destinations, Moved
<1>8. Writing'
  BY <1>2, <1>3 DEF Writing
<1>9. \A v \in Workers : runs'[v].pc = "write" => Handover(v)'
  BY <1>3, <1>7 DEF Idle
<1>10. \A v \in Workers : Reaches(v)'
  BY <1>2, <1>3 DEF Reaches, Idle
<1>11. QED
  BY <1>1, <1>4, <1>8, <1>9, <1>10 DEF Crossless

\* The turn of a cluster
LEMMA CrossWrite ==
    ASSUME TypeInv, Crossless, NEW w \in Workers, Write(w)
    PROVE  Crossless'
<1>0. TypeOK
  BY DEF TypeInv
<1>1. PICK c \in Clusters, err \in BOOLEAN : /\ Turn(w, c) /\ Done(w, c, err) /\ ~err
                                             /\ used' = [used EXCEPT ![c] = global]
  BY DEF Write
<1>2. UNCHANGED <<sources, global>>
  BY DEF Write
<1>3. /\ runs[w] \in Run /\ runs[w] # Idle /\ runs[w].pc = "write" /\ c \in runs[w].left
      /\ MayBeNext(runs[w], c)
  BY <1>0, <1>1, DoneRun, NotIdle DEF Turn
<1>4. PICK r \in Run : /\ runs' = [runs EXCEPT ![w] = r]
                       /\ r.left = runs[w].left \ {c} /\ r.prefer = runs[w].prefer
                       /\ r.pc = (IF runs[w].left = {c} THEN "finish" ELSE "write")
  BY <1>0, <1>1, DoneRun
<1>5. /\ runs'[w] = r
      /\ \A v \in Workers \ {w} : runs'[v] = Idle
  BY <1>0, <1>3, <1>4 DEF TypeOK, Crossless, OneRun
<1>6. OneRun'
  BY <1>0, <1>3, <1>4, OneRunKept DEF Crossless
<1>7. used'[c] = global /\ \A d \in Clusters \ {c} : used'[d] = used[d]
  BY <1>0, <1>1 DEF TypeOK
<1>8. Handover(w)
  BY <1>3 DEF Crossless
<1>9. ~Waits(c)' /\ \A d \in Clusters \ {c} : Waits(d)' <=> Waits(d)
  BY <1>2, <1>7 DEF Waits
<1>10. \A d \in Clusters : Waits(d)' => Waits(d) /\ d # c
  BY <1>9
<1>11. Handover(w)'
  <2>1. \A d \in Clusters : Waits(d)' =>
           d \in r.left /\ PreferenceRegions(used'[d], global') = {r.prefer}
    BY <1>2, <1>4, <1>7, <1>8, <1>10 DEF Handover
  <2>2. \A d, e \in Clusters : Waits(d)' /\ Waits(e)' => used'[d] = used'[e]
    BY <1>7, <1>8, <1>10 DEF Handover
  <2>3. \/ r.prefer = "none"
        \/ \A d \in r.left : Region[d] # r.prefer
        \/ \A d \in Clusters : used'[d] = global' => Region[d] = r.prefer
    <3>1. CASE r.prefer = "none" \/ \A d \in runs[w].left : Region[d] # r.prefer
      BY <1>4, <3>1
    <3>2. CASE ~(r.prefer = "none" \/ \A d \in runs[w].left : Region[d] # r.prefer)
      <4>1. Region[c] = r.prefer
        BY <1>3, <1>4, <3>2 DEF MayBeNext
      <4>2. \A d \in Clusters : used[d] = global => Region[d] = r.prefer
        BY <1>4, <1>8, <3>2 DEF Handover
      <4>3. QED
        BY <1>2, <1>7, <4>1, <4>2
    <3>3. QED
      BY <3>1, <3>2
  <2>4. QED
    BY <1>5, <2>1, <2>2, <2>3 DEF Handover, PreferenceRegions, Destinations, Moved
<1>12. \A v \in Workers : runs'[v].pc = "write" => Handover(v)'
  BY <1>5, <1>11 DEF Idle
<1>13. ~Writing' => \A d \in Clusters : ~Waits(d)'
  <2>1. ~Writing' => runs[w].left = {c}
    BY <1>4, <1>5 DEF Writing
  <2>2. QED
    BY <1>8, <1>10, <2>1 DEF Handover
<1>14. \A d \in Clusters \ sources' : used'[d] = NoPolicy
  <2>1. c \in sources
    BY <1>3 DEF TypeInv, Visits
  <2>2. QED
    BY <1>2, <1>7, <2>1 DEF Crossless
<1>15. \A v \in Workers : Reaches(v)'
  BY <1>4, <1>5 DEF Reaches, Idle
<1>16. QED
  BY <1>6, <1>12, <1>13, <1>14, <1>15 DEF Crossless

LEMMA CrossInit == Init => CrossInv
<1> SUFFICES ASSUME Init PROVE CrossInv
  OBVIOUS
<1>1. /\ used = [c \in Clusters |-> NoPolicy] /\ runs = [w \in Workers |-> Idle]
  BY DEF Init
<1>2. \A w \in Workers : runs[w] = Idle /\ runs[w].pc = "idle"
  BY <1>1 DEF Idle
<1>3. Crossless
  BY <1>1, <1>2 DEF Crossless, OneRun, Waits, Reaches
<1>4. QED
  BY <1>3, TypeInit DEF CrossInv

\* The history is never forgotten
LEMMA History ==
    ASSUME TypeInv, [Next]_vars
    PROVE  /\ kind' = kind
           /\ (raced => raced') /\ (troubled => troubled') /\ (misjudged => misjudged')
<1>0. TypeOK
  BY DEF TypeInv
<1>1. ASSUME NEW w \in Workers, Step(w)
      PROVE  /\ kind' = kind
             /\ (raced => raced') /\ (troubled => troubled') /\ (misjudged => misjudged')
  <2>1. CASE w \in Clusters /\ TakePolicy(w)
    BY <2>1 DEF TakePolicy, Overlap
  <2>2. CASE w \in Clusters /\ DropRetry(w)
    BY <2>2 DEF DropRetry
  <2>3. CASE TakeWorkload
    BY <2>3 DEF TakeWorkload, Overlap
  <2>4. CASE Gather(w) \/ Publish(w) \/ DatabaseFails(w)
    <3>1. CASE Gather(w)
      BY <3>1 DEF Gather
    <3>2. CASE Publish(w)
      BY <3>2, PublishRun
    <3>3. CASE DatabaseFails(w)
      <4>1. troubled' = TRUE /\ UNCHANGED <<kind, raced, misjudged>>
        BY <3>3 DEF DatabaseFails
      <4>2. QED
        BY <4>1
    <3>4. QED
      BY <2>4, <3>1, <3>2, <3>3
  <2>5. CASE Write(w) \/ WriteFails(w)
    <3>1. CASE Write(w)
      <4>1. UNCHANGED <<kind, raced, misjudged, troubled>>
        BY <3>1 DEF Write
      <4>2. QED
        BY <4>1
    <3>2. CASE WriteFails(w)
      <4>1. troubled' = TRUE /\ UNCHANGED <<kind, raced, misjudged>>
        BY <3>2 DEF WriteFails
      <4>2. QED
        BY <4>1
    <3>3. QED
      BY <2>5, <3>1, <3>2
  <2>6. CASE Finish(w)
    BY <2>6 DEF Finish, Requeue
  <2>7. QED
    BY <1>1, <2>1, <2>2, <2>3, <2>4, <2>5, <2>6 DEF Step
<1>2. ASSUME NEW c \in Clusters, Join(c)
      PROVE  UNCHANGED <<kind, raced, troubled, misjudged>>
  BY <1>2 DEF Join
<1>3. ASSUME NEW p \in Places, Apply(p[1], p[2]) \/ Remove(p[1], p[2])
      PROVE  UNCHANGED <<kind, raced, troubled, misjudged>>
  BY <1>3 DEF Apply, Remove
<1>4. CASE UNCHANGED vars
  BY <1>4 DEF vars
<1>5. QED
  BY <1>1, <1>2, <1>3, <1>4 DEF Next

LEMMA CrossNext ==
    ASSUME CrossInv, [Next]_vars
    PROVE  CrossInv'
<1>0. TypeInv /\ TypeOK
  BY DEF CrossInv, TypeInv
<1>1. TypeInv'
  BY <1>0, TypeNext
<1> SUFFICES ASSUME kind' = "gtp", ~raced', ~troubled'
             PROVE  Crossless'
  BY <1>1 DEF CrossInv
<1>2. kind = "gtp" /\ Crossless
  BY <1>0, History DEF CrossInv
<1>3. OneRun
  BY <1>2 DEF Crossless
<1>4. ASSUME NEW w \in Workers, Step(w)
      PROVE  Crossless'
  <2>1. CASE w \in Clusters /\ TakePolicy(w)
    <3>1. /\ runs[w] = Idle /\ Overlap /\ UNCHANGED <<sources, global, used>>
          /\ runs' = [runs EXCEPT ![w] = NewRun(Head(queues[w]))]
      BY <2>1 DEF TakePolicy
    <3>2. PICK r : r = NewRun(Head(queues[w]))
      OBVIOUS
    <3>3. runs' = [runs EXCEPT ![w] = r] /\ r.pc = "gather" /\ r.left = Clusters
      BY <3>1, <3>2 DEF NewRun
    <3>4. OneRun'
      BY <1>0, <1>3, <3>1, <3>3, OverlapAlone, OneRunKept
    <3>5. \A v \in Workers : runs[v].pc = "write" \/ runs'[v].pc = "write" => runs'[v] = runs[v]
      BY <1>0, <3>1, <3>3 DEF TypeOK, Idle
    <3>6. \A v \in Workers : runs'[v] = runs[v] \/ Reaches(v)'
      BY <1>0, <3>3 DEF TypeOK, Reaches
    <3>7. QED
      BY <1>2, <3>1, <3>4, <3>5, <3>6, CrossSame
  <2>2. CASE w \in Clusters /\ DropRetry(w)
    <3>1. UNCHANGED <<sources, global, used, runs>>
      BY <2>2 DEF DropRetry
    <3>2. OneRun'
      BY <1>3, <3>1 DEF OneRun
    <3>3. QED
      BY <1>2, <3>1, <3>2, CrossSame
  <2>3. CASE w = Workload /\ TakeWorkload
    <3>1. /\ runs[w] = Idle /\ Overlap /\ UNCHANGED <<sources, global, used>>
          /\ runs' = [runs EXCEPT ![w] = NewRun(NoPolicy)]
      BY <2>3 DEF TakeWorkload
    <3>2. PICK r : r = NewRun(NoPolicy)
      OBVIOUS
    <3>3. runs' = [runs EXCEPT ![w] = r] /\ r.pc = "gather" /\ r.left = Clusters
      BY <3>1, <3>2 DEF NewRun
    <3>4. OneRun'
      BY <1>0, <1>3, <3>1, <3>3, OverlapAlone, OneRunKept
    <3>5. \A v \in Workers : runs[v].pc = "write" \/ runs'[v].pc = "write" => runs'[v] = runs[v]
      BY <1>0, <3>1, <3>3 DEF TypeOK, Idle
    <3>6. \A v \in Workers : runs'[v] = runs[v] \/ Reaches(v)'
      BY <1>0, <3>3 DEF TypeOK, Reaches
    <3>7. QED
      BY <1>2, <3>1, <3>4, <3>5, <3>6, CrossSame
  <2>4. CASE Gather(w)
    <3>1. /\ runs[w].pc = "gather" /\ runs[w] # Idle
          /\ UNCHANGED <<sources, global, used>>
      BY <1>0, <2>4, GatherRun, NotIdle
    <3>2. PICK c \in runs[w].left, r \in Run :
            /\ runs' = [runs EXCEPT ![w] = r]
            /\ r.left = runs[w].left \ {c} /\ r.over = runs[w].over \cup ({c} \cap sources)
            /\ r.found = (IF c \in sources THEN runs[w].found \cup cached[c] ELSE runs[w].found)
            /\ r.pc = (IF runs[w].left = {c} THEN "publish" ELSE "gather")
            /\ r.prefer = runs[w].prefer /\ r.err = runs[w].err /\ r.item = runs[w].item
      BY <1>0, <2>4, GatherRun
    <3>3. OneRun'
      BY <1>0, <1>3, <3>1, <3>2, OneRunKept
    <3>4. runs'[w] = r /\ \A v \in Workers \ {w} : runs'[v] = runs[v]
      BY <1>0, <3>2 DEF TypeOK
    <3>5. \A v \in Workers : runs[v].pc = "write" \/ runs'[v].pc = "write" => runs'[v] = runs[v]
      BY <3>1, <3>2, <3>4
    <3>6. Reaches(w)'
      <4>1. ASSUME NEW d \in Clusters, used[d] # NoPolicy
            PROVE  d \in r.left \cup r.over
        <5>1. d \in sources /\ d \in runs[w].left \cup runs[w].over
          BY <1>2, <3>1, <4>1 DEF Crossless, Reaches
        <5>2. QED
          BY <3>2, <5>1
      <4>2. r.pc = "publish" => r.left = {}
        BY <3>2
      <4>3. QED
        BY <3>1, <3>4, <4>1, <4>2 DEF Reaches
    <3>7. \A v \in Workers : runs'[v] = runs[v] \/ Reaches(v)'
      BY <3>4, <3>6
    <3>8. QED
      BY <1>2, <3>1, <3>3, <3>5, <3>7, CrossSame
  <2>5. CASE Publish(w)
    BY <1>0, <1>2, <2>5, CrossPublish
  <2>6. CASE DatabaseFails(w) \/ WriteFails(w)
    BY <2>6 DEF DatabaseFails, WriteFails
  <2>7. CASE Write(w)
    BY <1>0, <1>2, <2>7, CrossWrite
  <2>8. CASE Finish(w)
    <3>1. /\ runs[w].pc = "finish" /\ runs[w] # Idle /\ runs' = [runs EXCEPT ![w] = Idle]
          /\ UNCHANGED <<sources, global, used>>
      BY <1>0, <2>8, FinishParts
    <3>2. OneRun'
      BY <1>0, <1>3, <3>1, OneRunKept
    <3>3. \A v \in Workers : runs[v].pc = "write" \/ runs'[v].pc = "write" => runs'[v] = runs[v]
      BY <1>0, <3>1 DEF TypeOK, Idle
    <3>4. \A v \in Workers : runs'[v] = runs[v] \/ Reaches(v)'
      BY <1>0, <3>1 DEF TypeOK, Reaches, Idle
    <3>5. QED
      BY <1>2, <3>1, <3>2, <3>3, <3>4, CrossSame
  <2>9. QED
    BY <1>4, <2>1, <2>2, <2>3, <2>4, <2>5, <2>6, <2>7, <2>8 DEF Step
<1>5. ASSUME UNCHANGED <<global, used, runs>>, sources \subseteq sources'
      PROVE  Crossless'
  <2>1. OneRun'
    BY <1>3, <1>5 DEF OneRun
  <2>2. QED
    BY <1>2, <1>5, <2>1, CrossSame
<1>6. ASSUME NEW c \in Clusters, Join(c)
      PROVE  Crossless'
  BY <1>5, <1>6 DEF Join
<1>7. ASSUME NEW p \in Places, Apply(p[1], p[2]) \/ Remove(p[1], p[2])
      PROVE  Crossless'
  BY <1>5, <1>7 DEF Apply, Remove
<1>8. CASE UNCHANGED vars
  BY <1>5, <1>8 DEF vars
<1>9. QED
  BY <1>4, <1>6, <1>7, <1>8 DEF Next

\* Crossing clusters would use the policies before and after the move; the one that
\* still waits is in the new active region, so that no other region has been written
LEMMA CrossProperty ==
    ASSUME PreventSplitBrain, CrossInv
    PROVE  NoCrossing
<1> SUFFICES ASSUME kind = "gtp", ~raced, ~troubled,
                    NEW c \in Clusters, NEW d \in Clusters, NEW p \in Prefixes,
                    Region[c] # Region[d], used[c] # NoPolicy, used[d] # NoPolicy,
                    used[c].to[p] = Region[d], used[d].to[p] = Region[c]
             PROVE  FALSE
  BY DEF NoCrossing
<1>1. Crossless
  BY DEF CrossInv
<1>2. used[c] # used[d]
  OBVIOUS
<1>3. PICK w \in Workers : runs[w].pc = "write"
  BY <1>1, <1>2 DEF Crossless, Waits, Writing
<1>4. Handover(w)
  BY <1>1, <1>3 DEF Crossless
<1>5. Region[c] # "none" /\ Region[d] # "none"
  BY PolicyAssumption DEF Regions
<1>6. PICK x \in Clusters, y \in Clusters :
        /\ used[x] = global /\ Waits(y) /\ Region[x] # Region[y]
        /\ used[x] # NoPolicy /\ used[y] # NoPolicy
        /\ used[x].to[p] = Region[y] /\ used[y].to[p] = Region[x]
        /\ Region[x] # "none" /\ Region[y] # "none"
  BY <1>2, <1>4, <1>5 DEF Handover, Waits
<1>7. y \in runs[w].left /\ runs[w].prefer = Region[y]
  <2>1. p \in Moved(used[y], global) /\ global # NoPolicy
    BY <1>6 DEF Moved
  <2>2. Region[y] \in Destinations(used[y], global)
    BY <1>6, <2>1 DEF Destinations
  <2>3. Region[y] \in PreferenceRegions(used[y], global)
    BY <2>2 DEF PreferenceRegions
  <2>4. QED
    BY <1>4, <1>6, <2>3 DEF Handover
<1>8. QED
  BY <1>4, <1>6, <1>7 DEF Handover

\* NeverCrossing: where admiral is told to prevent a split brain, no two regions ever
\* send the traffic of a prefix to each other, for any clusters, regions, prefixes and
\* policies and any sequence of changes, joins and retries (NoCrossing; the run checks
\* two clusters and two prefixes).
THEOREM NeverCrossing ==
    ASSUME PreventSplitBrain
    PROVE  Spec => []NoCrossing
<1>1. CrossInv /\ [Next]_vars => CrossInv'
  BY CrossNext
<1>2. CrossInv => NoCrossing
  BY CrossProperty
<1>3. QED
  BY <1>1, <1>2, CrossInit, PTL DEF Spec

-----------------------------------------------------------------------------
(* The best policy in the end                                              *)

Shown(c, n) == {o \in cached[c] : o.name = n}

\* The cache has what there is.  An outlier detection that was told to be ignored may
\* stay in it.
Agrees(c, n) ==
    LET now == live[c][n] IN
    IF now = NoPolicy THEN Shown(c, n) = {}
    ELSE IF now.ignore THEN kind = "od" \/ Shown(c, n) = {}
    ELSE Shown(c, n) = {now}

\* The k-th event of c is about n and has not been tried yet
New(c, n, k) == queues[c][k].tries = 0 /\ queues[c][k].obj.name = n

HeardAt(c, n) ==
    /\ Agrees(c, n) \/ \E k \in 1 .. Len(queues[c]) : New(c, n, k)
    /\ \A k \in 1 .. Len(queues[c]) :
         New(c, n, k) => \/ IsLatest(c, queues[c][k])
                         \/ \E j \in 1 .. Len(queues[c]) : j > k /\ New(c, n, j)

\* Every policy is in the cache as it is now, or an event will bring it there
Heard == \A c \in Clusters, n \in Names : HeardAt(c, n)

\* The event that is being handled is the last one or will be followed by another
FollowedAt(c) ==
    runs[c] # Idle =>
       \/ IsLatest(c, runs[c].item)
       \/ \E k \in 1 .. Len(queues[c]) : New(c, runs[c].item.obj.name, k)

Followed == \A c \in Clusters : FollowedAt(c)

\* An event will bring the clusters into line
Expected(c) == \E k \in 1 .. Len(queues[c]) :
                  queues[c][k].tries = 0 \/ IsLatest(c, queues[c][k])

Gathered(S) == UNION {cached[c] : c \in S}

\* All clusters of S use one policy, and none of the identity's is better
InLine(S) == \E best \in Best(Gathered(sources)) : \A c \in S : used[c] = best

\* A run knows the caches of the clusters it has been to
Accurate(w) ==
    /\ runs[w].pc = "gather"  => /\ runs[w].found = Gathered(sources \ runs[w].left)
                                 /\ runs[w].over = sources \ runs[w].left
    /\ runs[w].pc = "publish" => runs[w].found = Gathered(sources) /\ runs[w].over = sources
    /\ runs[w].pc = "write"   => \/ runs[w].err
                                 \/ /\ global \in Best(Gathered(sources))
                                    /\ \A c \in sources \ runs[w].left : used[c] = global
    /\ runs[w].pc = "finish"  => runs[w].err \/ InLine(sources)

Awaited == InLine(sources) \/ \E c \in Clusters : Expected(c)

Settling ==
    /\ OneRun /\ Heard /\ Followed
    /\ ~joined => /\ \A w \in Workers : runs[w] # Idle => Accurate(w)
                  /\ Alone => Awaited

SettleInv == TypeInv /\ (~raced /\ ~misjudged => Settling)

\* One event less in a queue
LEMMA TailHeard ==
    ASSUME TypeOK, NEW c \in Clusters, NEW n \in Names, HeardAt(c, n),
           queues[c] # << >>, queues'[c] = Tail(queues[c]), live' = live,
           Agrees(c, n)' \/ \E j \in 1 .. Len(queues[c]) : j > 1 /\ New(c, n, j)
    PROVE  HeardAt(c, n)'
<1>1. queues[c] \in Seq(Item)
  BY DEF TypeOK
<1>2. PICK L : L = Len(queues[c])
  OBVIOUS
<1>3. /\ L \in Nat /\ Len(queues'[c]) = L - 1
      /\ \A k \in 1 .. L - 1 : k + 1 \in 1 .. L /\ queues'[c][k] = queues[c][k + 1]
  BY <1>1, <1>2, TailParts
<1>4. \A k \in 1 .. L - 1 : New(c, n, k)' <=> New(c, n, k + 1)
  BY <1>3 DEF New
<1>5. \A j \in 1 .. L : j > 1 => j - 1 \in 1 .. L - 1 /\ (j - 1) + 1 = j
  BY <1>3
<1>6. \A j \in 1 .. L : j > 1 /\ New(c, n, j) => New(c, n, j - 1)'
  BY <1>4, <1>5
<1>7. Agrees(c, n)' \/ \E k \in 1 .. L - 1 : New(c, n, k)'
  BY <1>2, <1>5, <1>6
<1>8. ASSUME NEW k \in 1 .. L - 1, New(c, n, k)'
      PROVE  \/ IsLatest(c, queues[c][k])'
             \/ \E j \in 1 .. L - 1 : j > k /\ New(c, n, j)'
  <2>1. New(c, n, k + 1) /\ k + 1 \in 1 .. L
    BY <1>3, <1>4, <1>8
  <2>2. CASE IsLatest(c, queues[c][k + 1])
    <3>1. queues'[c][k] = queues[c][k + 1]
      BY <1>3
    <3>2. QED
      BY <2>2, <3>1 DEF IsLatest
  <2>3. CASE \E j \in 1 .. L : j > k + 1 /\ New(c, n, j)
    <3>1. PICK j \in 1 .. L : j > k + 1 /\ New(c, n, j)
      BY <2>3
    <3>2. j - 1 \in 1 .. L - 1 /\ j - 1 > k /\ j > 1
      BY <1>3, <3>1
    <3>3. New(c, n, j - 1)'
      BY <1>6, <3>1, <3>2
    <3>4. QED
      BY <3>2, <3>3
  <2>4. QED
    BY <1>2, <2>1, <2>2, <2>3 DEF HeardAt
<1>9. QED
  BY <1>3, <1>7, <1>8 DEF HeardAt

\* One event more
LEMMA AppendHeard ==
    ASSUME TypeOK, NEW c \in Clusters, NEW n \in Names, HeardAt(c, n), NEW i \in Item,
           queues'[c] = Append(queues[c], i), live'[c][n] = live[c][n],
           cached' = cached, kind' = kind, i.tries > 0 \/ i.obj.name # n
    PROVE  HeardAt(c, n)'
<1>1. queues[c] \in Seq(Item)
  BY DEF TypeOK
<1>2. PICK L : L = Len(queues[c])
  OBVIOUS
<1>3. /\ L \in Nat /\ Len(queues'[c]) = L + 1
      /\ \A k \in 1 .. L : queues'[c][k] = queues[c][k]
      /\ queues'[c][L + 1] = i
  BY <1>1, <1>2, AppendParts
<1>4. i.tries # 0 \/ i.obj.name # n
  BY DEF Item
<1>5. ~New(c, n, L + 1)' /\ \A k \in 1 .. L : New(c, n, k)' <=> New(c, n, k)
  BY <1>3, <1>4 DEF New
<1>6. \A k \in 1 .. L + 1 : New(c, n, k)' => k \in 1 .. L /\ New(c, n, k)
  <2>1. \A k \in 1 .. L + 1 : k \in 1 .. L \/ k = L + 1
    BY <1>3
  <2>2. QED
    BY <1>5, <2>1
<1>7. \A k \in 1 .. L : k \in 1 .. L + 1
  BY <1>3
<1>8. Agrees(c, n)' <=> Agrees(c, n)
  BY DEF Agrees, Shown
<1>9. \A k \in 1 .. L : New(c, n, k) => (IsLatest(c, queues[c][k])' <=> IsLatest(c, queues[c][k]))
  BY <1>3 DEF New, IsLatest
<1>10. Agrees(c, n)' \/ \E k \in 1 .. L + 1 : New(c, n, k)'
  BY <1>2, <1>5, <1>7, <1>8 DEF HeardAt
<1>11. ASSUME NEW k \in 1 .. L + 1, New(c, n, k)'
       PROVE  \/ IsLatest(c, queues[c][k])'
              \/ \E j \in 1 .. L + 1 : j > k /\ New(c, n, j)'
  <2>1. k \in 1 .. L /\ New(c, n, k)
    BY <1>6, <1>11
  <2>2. IsLatest(c, queues[c][k]) \/ \E j \in 1 .. L : j > k /\ New(c, n, j)
    BY <1>2, <2>1 DEF HeardAt
  <2>3. QED
    BY <1>5, <1>7, <1>9, <2>1, <2>2
<1>12. QED
  BY <1>3, <1>10, <1>11 DEF HeardAt

\* Nothing happens to a policy
LEMMA SameHeard ==
    ASSUME NEW c \in Clusters, NEW n \in Names, HeardAt(c, n),
           queues'[c] = queues[c], live'[c][n] = live[c][n], cached'[c] = cached[c], kind' = kind
    PROVE  HeardAt(c, n)'
<1>1. Agrees(c, n)' <=> Agrees(c, n)
  BY DEF Agrees, Shown
<1>2. \A k \in 1 .. Len(queues[c]) : New(c, n, k)' <=> New(c, n, k)
  BY DEF New
<1>3. \A k \in 1 .. Len(queues[c]) :
         New(c, n, k) => (IsLatest(c, queues[c][k])' <=> IsLatest(c, queues[c][k]))
  BY DEF New, IsLatest
<1>4. QED
  BY <1>1, <1>2, <1>3 DEF HeardAt

\* A change of a policy is announced by an event
LEMMA ChangeHeard ==
    ASSUME TypeOK, NEW c \in Clusters, NEW n \in Names, NEW i \in Item,
           queues'[c] = Append(queues[c], i), i.tries = 0, i.obj.name = n, IsLatest(c, i)'
    PROVE  HeardAt(c, n)' /\ Expected(c)' /\ \E k \in 1 .. Len(queues'[c]) : New(c, n, k)'
<1>1. queues[c] \in Seq(Item)
  BY DEF TypeOK
<1>2. PICK L : L = Len(queues[c])
  OBVIOUS
<1>3. /\ L \in Nat /\ Len(queues'[c]) = L + 1
      /\ queues'[c][L + 1] = i
  BY <1>1, <1>2, AppendParts
<1>4. L + 1 \in 1 .. L + 1 /\ New(c, n, L + 1)' /\ IsLatest(c, queues[c][L + 1])'
  BY <1>3 DEF New, IsLatest
<1>5. \A k \in 1 .. L + 1 : k = L + 1 \/ L + 1 > k
  BY <1>3
<1>6. \A k \in 1 .. L + 1 : \/ IsLatest(c, queues[c][k])'
                            \/ \E j \in 1 .. L + 1 : j > k /\ New(c, n, j)'
  BY <1>4, <1>5
<1>7. HeardAt(c, n)'
  BY <1>3, <1>4, <1>6 DEF HeardAt
<1>8. Expected(c)'
  BY <1>3, <1>4 DEF Expected
<1>9. QED
  BY <1>3, <1>4, <1>7, <1>8

\* The later events are still there
LEMMA TailNew ==
    ASSUME TypeOK, NEW c \in Clusters, queues[c] # << >>, queues'[c] = Tail(queues[c]), live' = live
    PROVE  /\ \A n : (\E j \in 1 .. Len(queues[c]) : j > 1 /\ New(c, n, j)) =>
                     \E k \in 1 .. Len(queues'[c]) : New(c, n, k)'
           /\ \A j \in 1 .. Len(queues[c]) :
                j > 1 /\ (queues[c][j].tries = 0 \/ IsLatest(c, queues[c][j])) => Expected(c)'
<1>1. queues[c] \in Seq(Item)
  BY DEF TypeOK
<1>2. PICK L : L = Len(queues[c])
  OBVIOUS
<1>3. /\ L \in Nat /\ Len(queues'[c]) = L - 1
      /\ \A k \in 1 .. L - 1 : queues'[c][k] = queues[c][k + 1]
  BY <1>1, <1>2, TailParts
<1>4. \A j \in 1 .. L : j > 1 => j - 1 \in 1 .. L - 1 /\ (j - 1) + 1 = j
  BY <1>3
<1>5. \A j \in 1 .. L : j > 1 => j - 1 \in 1 .. L - 1 /\ queues'[c][j - 1] = queues[c][j]
  BY <1>3, <1>4
<1>6. \A j \in 1 .. L : j > 1 => \E k \in 1 .. L - 1 : queues'[c][k] = queues[c][j]
  BY <1>5
<1>7. \A n : (\E j \in 1 .. L : j > 1 /\ New(c, n, j)) => \E k \in 1 .. L - 1 : New(c, n, k)'
  BY <1>6 DEF New
<1>8. ASSUME NEW j \in 1 .. L, j > 1, queues[c][j].tries = 0 \/ IsLatest(c, queues[c][j])
      PROVE  Expected(c)'
  <2>1. PICK k \in 1 .. L - 1 : queues'[c][k] = queues[c][j]
    BY <1>6, <1>8
  <2>2. queues'[c][k].tries = 0 \/ IsLatest(c, queues[c][k])'
    BY <1>8, <2>1 DEF IsLatest
  <2>3. QED
    BY <1>3, <2>2 DEF Expected
<1>9. QED
  BY <1>2, <1>3, <1>7, <1>8

\* The last event about a policy brings the cache of its cluster up to date, whatever
\* the kind
LEMMA TakeAgrees ==
    ASSUME TypeInv, NEW c \in Clusters, NEW item \in Item, IsLatest(c, item), live' = live,
           kind' = kind, kind \in {"gtp", "od", "ccc"},
           TakeTraffic(c, item) \/ TakeOutlier(c, item) \/ TakeConnection(c, item)
    PROVE  Agrees(c, item.obj.name)'
<1>1. item.obj \in Object /\ item.type \in {"Put", "Delete"} /\ item.obj # NoPolicy
  BY PolicyAssumption DEF Item
<1>2. item.obj.ignore \in BOOLEAN
  BY <1>1 DEF Object
<1>3. cached \in [Clusters -> SUBSET Object]
  BY DEF TypeInv, TypeOK
<1> DEFINE n == item.obj.name
<1> DEFINE W == Without(c, item.obj)
<1>4. {o \in W : o.name = n} = {} /\ {o \in W \cup {item.obj} : o.name = n} = {item.obj}
  BY DEF Without
<1>5. PICK S : cached' = [cached EXCEPT ![c] = S] /\
        S = (IF item.type = "Put"
             THEN IF item.obj.ignore THEN IF kind = "od" THEN cached[c] ELSE W
                  ELSE W \cup {item.obj}
             ELSE W)
  BY DEF TakeTraffic, TakeOutlier, TakeConnection, PutTraffic, PutOutlier, PutConnection
<1> HIDE DEF W
<1>6. Shown(c, n)' = {o \in S : o.name = n}
  BY <1>3, <1>5 DEF Shown
<1>7. CASE item.type = "Delete"
  <2>1. live'[c][n] = NoPolicy
    BY <1>7 DEF IsLatest
  <2>2. Shown(c, n)' = {}
    BY <1>4, <1>5, <1>6, <1>7
  <2>3. QED
    BY <2>1, <2>2 DEF Agrees
<1>8. CASE item.type = "Put"
  <2>1. live'[c][n] = item.obj
    BY <1>8 DEF IsLatest
  <2>2. item.obj.ignore => kind' = "od" \/ Shown(c, n)' = {}
    BY <1>4, <1>5, <1>6, <1>8
  <2>3. ~item.obj.ignore => Shown(c, n)' = {item.obj}
    BY <1>4, <1>5, <1>6, <1>8
  <2>4. QED
    BY <1>1, <2>1, <2>2, <2>3 DEF Agrees
<1>9. QED
  BY <1>1, <1>7, <1>8

\* The policies of other names are left alone
LEMMA TakeOthers ==
    ASSUME TypeInv, NEW c \in Clusters, NEW item \in Item, NEW n \in Names, n # item.obj.name,
           live' = live, kind' = kind,
           TakeTraffic(c, item) \/ TakeOutlier(c, item) \/ TakeConnection(c, item)
    PROVE  Agrees(c, n)' <=> Agrees(c, n)
<1>1. cached \in [Clusters -> SUBSET Object]
  BY DEF TypeInv, TypeOK
<1>2. PICK S : /\ cached' = [cached EXCEPT ![c] = S]
               /\ S = Without(c, item.obj) \/ S = Without(c, item.obj) \cup {item.obj} \/ S = cached[c]
  BY DEF TakeTraffic, TakeOutlier, TakeConnection, PutTraffic, PutOutlier, PutConnection
<1>3. {o \in S : o.name = n} = {o \in cached[c] : o.name = n}
  BY <1>2 DEF Without
<1>4. Shown(c, n)' = Shown(c, n)
  BY <1>1, <1>2, <1>3 DEF Shown
<1>5. QED
  BY <1>4 DEF Agrees

LEMMA TakeHeard ==
    ASSUME TypeInv, Heard, Followed, NEW c \in Clusters, TakePolicy(c), ~misjudged'
    PROVE  Heard' /\ Followed'
<1> DEFINE item == Head(queues[c])
<1>0. TypeOK
  BY DEF TypeInv
<1>1. /\ queues[c] # << >> /\ runs[c] = Idle
      /\ queues' = [queues EXCEPT ![c] = Tail(queues[c])]
      /\ TakeTraffic(c, item) \/ TakeOutlier(c, item) \/ TakeConnection(c, item)
      /\ runs' = [runs EXCEPT ![c] = NewRun(item)]
      /\ live' = live /\ kind' = kind
  BY DEF TakePolicy
<1>2. item.tries > 0 => IsLatest(c, item)
  BY DEF TakePolicy
<1>3. queues \in [Clusters -> Seq(Item)] /\ queues[c] \in Seq(Item)
  BY <1>0 DEF TypeOK
<1>4. item \in Item /\ item = queues[c][1] /\ 1 \in 1 .. Len(queues[c]) /\ Len(queues[c]) \in Nat
  BY <1>1, <1>3, TailParts
<1>6. item.obj.name \in Names /\ item.tries \in Nat
  BY <1>4 DEF Item, Object
<1>7. kind \in {"gtp", "od", "ccc"}
  BY <1>0, PolicyAssumption DEF TypeOK
<1> HIDE DEF item
<1>8. /\ queues'[c] = Tail(queues[c])
      /\ \A d \in Clusters \ {c} : queues'[d] = queues[d] /\ cached'[d] = cached[d]
  BY <1>1, <1>3, <1>4, TakeParts
<1> DEFINE Later(n) == \E j \in 1 .. Len(queues[c]) : j > 1 /\ New(c, n, j)
<1>9. Later(item.obj.name) \/ IsLatest(c, item)
  <2>1. CASE item.tries > 0
    BY <1>2, <2>1
  <2>2. CASE ~(item.tries > 0)
    <3>1. New(c, item.obj.name, 1)
      BY <1>4, <1>6, <2>2 DEF New
    <3>2. HeardAt(c, item.obj.name)
      BY <1>6 DEF Heard
    <3>3. QED
      BY <1>4, <3>1, <3>2 DEF HeardAt
  <2>3. QED
    BY <2>1, <2>2
<1>10. ASSUME NEW n \in Names
       PROVE  HeardAt(c, n)'
  <2>1. HeardAt(c, n)
    BY DEF Heard
  <2>2. Agrees(c, n)' \/ Later(n)
    <3>1. CASE n = item.obj.name
      BY <1>1, <1>4, <1>7, <1>9, <3>1, TakeAgrees
    <3>2. CASE n # item.obj.name
      <4>1. Agrees(c, n)' <=> Agrees(c, n)
        BY <1>1, <1>4, <3>2, TakeOthers
      <4>2. \A k \in 1 .. Len(queues[c]) : New(c, n, k) => k > 1
        <5>1. ~New(c, n, 1)
          BY <1>4, <3>2 DEF New
        <5>2. \A k \in 1 .. Len(queues[c]) : k = 1 \/ k > 1
          BY <1>4
        <5>3. QED
          BY <5>1, <5>2
      <4>3. QED
        BY <2>1, <4>1, <4>2 DEF HeardAt
    <3>3. QED
      BY <3>1, <3>2
  <2>3. QED
    BY <1>0, <1>1, <1>8, <2>1, <2>2, TailHeard
<1>11. Heard'
  <2>1. ASSUME NEW d \in Clusters \ {c}, NEW n \in Names
        PROVE  HeardAt(d, n)'
    <3>1. HeardAt(d, n) /\ live'[d][n] = live[d][n]
      BY <1>1 DEF Heard
    <3>2. QED
      BY <1>1, <1>8, <3>1, SameHeard
  <2>2. QED
    BY <1>10, <2>1 DEF Heard
<1>12. FollowedAt(c)'
  <2>1. PICK r : r = NewRun(item)
    OBVIOUS
  <2>2. runs'[c] = r /\ r.item = item
    BY <1>0, <1>1, <2>1 DEF NewRun, TypeOK, Workers
  <2>3. CASE IsLatest(c, item)
    BY <1>1, <2>2, <2>3 DEF FollowedAt, IsLatest
  <2>4. CASE Later(item.obj.name)
    <3>1. PICK n : n = item.obj.name
      OBVIOUS
    <3>2. \E k \in 1 .. Len(queues'[c]) : New(c, n, k)'
      BY <1>0, <1>1, <1>8, <2>4, <3>1, TailNew
    <3>3. QED
      BY <2>2, <3>1, <3>2 DEF FollowedAt, New
  <2>5. QED
    BY <1>9, <2>3, <2>4
<1>13. Followed'
  <2>1. ASSUME NEW d \in Clusters \ {c}
        PROVE  FollowedAt(d)'
    <3>1. FollowedAt(d) /\ runs'[d] = runs[d] /\ queues'[d] = queues[d]
      BY <1>0, <1>1, <1>8 DEF Followed, TypeOK, Workers
    <3>2. QED
      BY <1>1, <3>1 DEF FollowedAt, New, IsLatest
  <2>2. QED
    BY <1>12, <2>1 DEF Followed
<1>14. QED
  BY <1>11, <1>13

\* A step of a run that takes no event
LEMMA KeepHeard ==
    ASSUME Heard, Followed, UNCHANGED <<queues, live, cached, kind>>,
           \A c \in Clusters : (runs'[c] # Idle => runs[c] # Idle) /\
                               (runs'[c] # Idle => runs'[c].item = runs[c].item)
    PROVE  Heard' /\ Followed'
<1>1. Heard'
  <2> SUFFICES ASSUME NEW c \in Clusters, NEW n \in Names PROVE HeardAt(c, n)'
    BY DEF Heard
  <2>1. HeardAt(c, n)
    BY DEF Heard
  <2>2. QED
    BY <2>1, SameHeard
<1>2. Followed'
  <2> SUFFICES ASSUME NEW c \in Clusters, runs'[c] # Idle PROVE FollowedAt(c)'
    BY DEF Followed, FollowedAt
  <2>1. FollowedAt(c) /\ runs[c] # Idle /\ runs'[c].item = runs[c].item
    BY DEF Followed
  <2>2. QED
    BY <2>1 DEF FollowedAt, IsLatest, New
<1>3. QED
  BY <1>1, <1>2

LEMMA DropHeard ==
    ASSUME TypeInv, Heard, Followed, NEW c \in Clusters, DropRetry(c)
    PROVE  Heard' /\ Followed' /\ (~misjudged' /\ Awaited => Awaited')
<1> DEFINE item == Head(queues[c])
<1>0. TypeOK
  BY DEF TypeInv
<1>1. /\ queues[c] # << >> /\ runs[c] = Idle /\ item.tries > 0
      /\ queues' = [queues EXCEPT ![c] = Tail(queues[c])]
      /\ UNCHANGED <<live, kind, cached, runs, sources, used>>
  BY DEF DropRetry
<1>2. ~misjudged' => ~IsLatest(c, item)
  BY DEF DropRetry
<1>3. queues \in [Clusters -> Seq(Item)] /\ queues[c] \in Seq(Item)
  BY <1>0 DEF TypeOK
<1>4. item \in Item /\ item = queues[c][1] /\ 1 \in 1 .. Len(queues[c]) /\ Len(queues[c]) \in Nat
  BY <1>1, <1>3, TailParts
<1>5. item.tries # 0
  BY <1>1, <1>4 DEF Item
<1> HIDE DEF item
<1>6. /\ queues'[c] = Tail(queues[c])
      /\ \A d \in Clusters \ {c} : queues'[d] = queues[d]
  BY <1>1, <1>3
<1>7. \A k \in 1 .. Len(queues[c]) : k = 1 \/ k > 1
  BY <1>4
<1>8. Heard'
  <2>1. ASSUME NEW n \in Names
        PROVE  HeardAt(c, n)'
    <3>1. HeardAt(c, n)
      BY DEF Heard
    <3>2. \A k \in 1 .. Len(queues[c]) : New(c, n, k) => k > 1
      BY <1>4, <1>5, <1>7 DEF New
    <3>3. Agrees(c, n)' <=> Agrees(c, n)
      BY <1>1 DEF Agrees, Shown
    <3>4. Agrees(c, n)' \/ \E j \in 1 .. Len(queues[c]) : j > 1 /\ New(c, n, j)
      BY <3>1, <3>2, <3>3 DEF HeardAt
    <3>5. QED
      BY <1>0, <1>1, <1>6, <3>1, <3>4, TailHeard
  <2>2. ASSUME NEW d \in Clusters \ {c}, NEW n \in Names
        PROVE  HeardAt(d, n)'
    <3>1. HeardAt(d, n)
      BY DEF Heard
    <3>2. QED
      BY <1>1, <1>6, <3>1, SameHeard
  <2>3. QED
    BY <2>1, <2>2 DEF Heard
<1>9. Followed'
  <2>1. FollowedAt(c)'
    BY <1>1 DEF FollowedAt
  <2>2. ASSUME NEW d \in Clusters \ {c}
        PROVE  FollowedAt(d)'
    <3>1. FollowedAt(d) /\ queues'[d] = queues[d]
      BY <1>6 DEF Followed
    <3>2. QED
      BY <1>1, <3>1 DEF FollowedAt, New, IsLatest
  <2>3. QED
    BY <2>1, <2>2 DEF Followed
<1>10. ASSUME ~misjudged', Awaited
       PROVE  Awaited'
  <2>1. CASE InLine(sources)
    <3>1. InLine(sources)'
      BY <1>1, <2>1 DEF InLine, Gathered, Best, Before, ByPriority, ByCreation
    <3>2. QED
      BY <3>1 DEF Awaited
  <2>2. CASE \E d \in Clusters : Expected(d)
    <3>1. PICK d \in Clusters : Expected(d)
      BY <2>2
    <3>2. Expected(d)'
      <4>1. CASE d = c
        <5>1. PICK j \in 1 .. Len(queues[c]) :
                 queues[c][j].tries = 0 \/ IsLatest(c, queues[c][j])
          BY <3>1, <4>1 DEF Expected
        <5>2. j > 1
          BY <1>2, <1>4, <1>5, <1>7, <1>10, <5>1
        <5>3. QED
          BY <1>0, <1>1, <1>6, <4>1, <5>1, <5>2, TailNew
      <4>2. CASE d # c
        BY <1>1, <1>6, <3>1, <4>2 DEF Expected, IsLatest
      <4>3. QED
        BY <4>1, <4>2
    <3>3. QED
      BY <3>2 DEF Awaited
  <2>3. QED
    BY <1>10, <2>1, <2>2 DEF Awaited
<1>11. QED
  BY <1>8, <1>9, <1>10

\* A failed event comes back, unless it does not count any more
LEMMA FinishHeard ==
    ASSUME TypeInv, Heard, Followed, NEW w \in Workers, Finish(w), ~misjudged'
    PROVE  /\ Heard' /\ Followed'
           /\ w \in Clusters /\ runs[w].err => Expected(w)'
<1>0. TypeOK
  BY DEF TypeInv
<1>1. /\ runs[w] \in Run /\ runs[w] # Idle /\ runs' = [runs EXCEPT ![w] = Idle]
      /\ UNCHANGED <<kind, live, cached>>
  BY <1>0, FinishParts
<1>2. /\ runs'[w] = Idle /\ \A v \in Workers \ {w} : runs'[v] = runs[v]
      /\ \A d \in Clusters : d \in Workers
  BY <1>0, <1>1 DEF TypeOK, Workers
<1>3. \A d \in Clusters : (runs'[d] # Idle => runs[d] # Idle) /\
                          (runs'[d] # Idle => runs'[d].item = runs[d].item)
  BY <1>2
<1>4. runs[w].err \in BOOLEAN
  BY <1>1 DEF Run
<1>5. CASE queues' = queues
  <2>1. Heard' /\ Followed'
    BY <1>1, <1>3, <1>5, KeepHeard
  <2>2. ASSUME w \in Clusters, runs[w].err
        PROVE  Expected(w)'
    <3>1. \/ queues' = [queues EXCEPT ![w] =
                          Append(queues[w], [runs[w].item EXCEPT !.tries = @ + 1])]
          \/ ~IsLatest(w, runs[w].item)
      BY <1>0, <2>2, FinishParts
    <3>2. queues' # [queues EXCEPT ![w] =
                       Append(queues[w], [runs[w].item EXCEPT !.tries = @ + 1])]
      <4>1. PICK i : i = [runs[w].item EXCEPT !.tries = @ + 1]
        OBVIOUS
      <4>2. queues \in [Clusters -> Seq(Item)] /\ queues[w] \in Seq(Item)
        BY <1>0, <2>2 DEF TypeOK
      <4>3. i \in Item
        <5>1. runs[w].item \in Item
          BY <1>0, <1>1, <2>2 DEF TypeOK
        <5>2. QED
          BY <4>1, <5>1 DEF Item
      <4>4. Len(Append(queues[w], i)) = Len(queues[w]) + 1 /\ Len(queues[w]) \in Nat
        BY <4>2, <4>3, AppendParts
      <4>5. Append(queues[w], i) # queues[w]
        BY <4>4
      <4>6. QED
        BY <1>5, <2>2, <4>1, <4>2, <4>5
    <3>3. FollowedAt(w)
      BY <2>2 DEF Followed
    <3>4. \E k \in 1 .. Len(queues[w]) : queues[w][k].tries = 0
      BY <1>1, <3>1, <3>2, <3>3 DEF FollowedAt, New
    <3>5. QED
      BY <1>5, <3>4 DEF Expected
  <2>3. QED
    BY <2>1, <2>2
<1>6. CASE queues' # queues
  <2>1. /\ w \in Clusters /\ runs[w].item \in Item
        /\ queues' = [queues EXCEPT ![w] =
                        Append(queues[w], [runs[w].item EXCEPT !.tries = @ + 1])]
    BY <1>0, <1>4, <1>6, FinishParts
  <2>2. PICK i : i = [runs[w].item EXCEPT !.tries = @ + 1]
    OBVIOUS
  <2>3. i \in Item /\ i.obj = runs[w].item.obj /\ i.type = runs[w].item.type /\ i.tries > 0
    BY <2>1, <2>2 DEF Item
  <2>4. queues \in [Clusters -> Seq(Item)] /\ queues[w] \in Seq(Item)
    BY <1>0, <2>1 DEF TypeOK
  <2>5. /\ queues'[w] = Append(queues[w], i)
        /\ \A d \in Clusters \ {w} : queues'[d] = queues[d]
    BY <2>1, <2>2, <2>4
  <2>6. Heard'
    <3>1. ASSUME NEW n \in Names
          PROVE  HeardAt(w, n)'
      <4>1. HeardAt(w, n) /\ live'[w][n] = live[w][n]
        BY <1>1, <2>1 DEF Heard
      <4>2. QED
        BY <1>0, <1>1, <2>1, <2>3, <2>5, <4>1, AppendHeard
    <3>2. ASSUME NEW d \in Clusters \ {w}, NEW n \in Names
          PROVE  HeardAt(d, n)'
      <4>1. HeardAt(d, n)
        BY DEF Heard
      <4>2. QED
        BY <1>1, <2>5, <4>1, SameHeard
    <3>3. QED
      BY <3>1, <3>2 DEF Heard
  <2>7. Followed'
    <3>1. FollowedAt(w)'
      BY <1>2 DEF FollowedAt
    <3>2. ASSUME NEW d \in Clusters \ {w}
          PROVE  FollowedAt(d)'
      <4>1. FollowedAt(d) /\ queues'[d] = queues[d] /\ runs'[d] = runs[d]
        BY <1>2, <2>5 DEF Followed
      <4>2. QED
        BY <1>1, <4>1 DEF FollowedAt, New, IsLatest
    <3>3. QED
      BY <3>1, <3>2 DEF Followed
  <2>8. Expected(w)'
    <3>1. PICK L : L = Len(queues[w])
      OBVIOUS
    <3>2. /\ L \in Nat /\ Len(queues'[w]) = L + 1
          /\ \A k \in 1 .. L : queues'[w][k] = queues[w][k]
          /\ queues'[w][L + 1] = i
      BY <2>3, <2>4, <2>5, <3>1, AppendParts
    <3>3. L + 1 \in 1 .. L + 1 /\ \A k \in 1 .. L : k \in 1 .. L + 1
      BY <3>2
    <3>4. CASE IsLatest(w, runs[w].item)
      <4>1. IsLatest(w, queues[w][L + 1])'
        BY <1>1, <2>3, <3>2, <3>4 DEF IsLatest
      <4>2. QED
        BY <3>2, <3>3, <4>1 DEF Expected
    <3>5. CASE ~IsLatest(w, runs[w].item)
      <4>1. FollowedAt(w)
        BY <2>1 DEF Followed
      <4>2. PICK k \in 1 .. L : queues[w][k].tries = 0
        BY <1>1, <3>1, <3>5, <4>1 DEF FollowedAt, New
      <4>3. QED
        BY <3>2, <3>3, <4>2 DEF Expected
    <3>6. QED
      BY <3>4, <3>5
  <2>9. QED
    BY <2>6, <2>7, <2>8
<1>7. QED
  BY <1>5, <1>6

\* A user changes a policy, and its controller gets an event
LEMMA ChangeAll ==
    ASSUME TypeInv, Heard, Followed, NEW c \in Clusters, NEW n \in Names, NEW i \in Item,
           queues' = [queues EXCEPT ![c] = Append(queues[c], i)],
           i.tries = 0, i.obj.name = n, IsLatest(c, i)',
           \A d \in Clusters, m \in Names : live'[d][m] = live[d][m] \/ (d = c /\ m = n),
           UNCHANGED <<kind, cached, runs>>
    PROVE  Heard' /\ Followed' /\ Expected(c)'
<1>0. TypeOK
  BY DEF TypeInv
<1>1. queues \in [Clusters -> Seq(Item)] /\ queues[c] \in Seq(Item)
  BY <1>0 DEF TypeOK
<1>2. /\ queues'[c] = Append(queues[c], i)
      /\ \A d \in Clusters \ {c} : queues'[d] = queues[d]
  BY <1>1
<1>3. /\ HeardAt(c, n)' /\ Expected(c)'
      /\ \E k \in 1 .. Len(queues'[c]) : New(c, n, k)'
  BY <1>0, <1>2, ChangeHeard
<1>4. ASSUME NEW d \in Clusters, NEW m \in Names
      PROVE  HeardAt(d, m)'
  <2>1. HeardAt(d, m)
    BY DEF Heard
  <2>2. CASE d # c
    <3>1. live'[d][m] = live[d][m] /\ queues'[d] = queues[d] /\ cached'[d] = cached[d]
      BY <1>2, <2>2
    <3>2. QED
      BY <2>1, <3>1, SameHeard
  <2>3. CASE d = c /\ m # n
    <3>1. live'[c][m] = live[c][m]
      BY <2>3
    <3>2. QED
      BY <1>0, <1>2, <2>1, <2>3, <3>1, AppendHeard
  <2>4. CASE d = c /\ m = n
    BY <1>3, <2>4
  <2>5. QED
    BY <2>2, <2>3, <2>4
<1>5. ASSUME NEW d \in Clusters, runs[d] # Idle
      PROVE  FollowedAt(d)'
  <2>1. FollowedAt(d)
    BY DEF Followed
  <2>2. PICK it : it = runs[d].item
    OBVIOUS
  <2>3. it \in Item /\ it.obj.name \in Names
    BY <1>0, <1>5, <2>2 DEF TypeOK, Item, Object
  <2>4. CASE d = c /\ it.obj.name = n
    BY <1>3, <2>2, <2>4 DEF FollowedAt, New
  <2>5. CASE ~(d = c /\ it.obj.name = n)
    <3>1. live'[d][it.obj.name] = live[d][it.obj.name]
      BY <2>3, <2>5
    <3>2. IsLatest(d, it)' <=> IsLatest(d, it)
      BY <3>1 DEF IsLatest
    <3>3. \A k \in 1 .. Len(queues[d]) :
             k \in 1 .. Len(queues'[d]) /\ queues'[d][k] = queues[d][k]
      <4>1. CASE d # c
        BY <1>2, <4>1
      <4>2. CASE d = c
        <5>1. /\ Len(queues[c]) \in Nat /\ Len(queues'[c]) = Len(queues[c]) + 1
              /\ \A k \in 1 .. Len(queues[c]) : queues'[c][k] = queues[c][k]
          BY <1>1, <1>2, AppendParts
        <5>2. QED
          BY <4>2, <5>1
      <4>3. QED
        BY <4>1, <4>2
    <3>4. QED
      BY <1>5, <2>1, <2>2, <3>2, <3>3 DEF FollowedAt, New, IsLatest
  <2>6. QED
    BY <2>4, <2>5
<1>6. Followed'
  BY <1>5 DEF Followed, FollowedAt
<1>7. QED
  BY <1>3, <1>4, <1>6 DEF Heard

\* What a run gathers, cluster by cluster
LEMMA GatheredParts ==
    /\ \A S, o : o \in Gathered(S) <=> \E c \in S : o \in cached[c]
    /\ Gathered({}) = {}
BY DEF Gathered

\* The best policy depends on the caches and the kind alone
LEMMA SameBest ==
    ASSUME UNCHANGED <<kind, cached>>
    PROVE  \A S : Gathered(S)' = Gathered(S) /\ Best(S)' = Best(S)
BY DEF Gathered, Best, Before, ByPriority, ByCreation

\* The steps of a run keep it accurate
LEMMA GatherAccurate ==
    ASSUME TypeInv, NEW w \in Workers, Gather(w), Accurate(w)
    PROVE  Accurate(w)'
<1>0. TypeOK
  BY DEF TypeInv
<1>1. /\ runs[w] \in Run /\ runs[w] # Idle /\ runs[w].pc = "gather"
      /\ UNCHANGED <<kind, sources, cached, global, used>>
  BY <1>0, GatherRun, NotIdle
<1>2. PICK c \in runs[w].left, r \in Run :
        /\ runs' = [runs EXCEPT ![w] = r]
        /\ r.left = runs[w].left \ {c} /\ r.over = runs[w].over \cup ({c} \cap sources)
        /\ r.found = (IF c \in sources THEN runs[w].found \cup cached[c] ELSE runs[w].found)
        /\ r.pc = (IF runs[w].left = {c} THEN "publish" ELSE "gather")
        /\ r.prefer = runs[w].prefer /\ r.err = runs[w].err /\ r.item = runs[w].item
  BY <1>0, GatherRun
<1>3. runs'[w] = r
  BY <1>0, <1>2 DEF TypeOK
<1>4. PICK S, T : S = sources \ runs[w].left /\ T = sources \ r.left
  OBVIOUS
<1>5. runs[w].found = Gathered(S) /\ runs[w].over = S
  BY <1>1, <1>4 DEF Accurate
<1>6. \A d : d \in T <=> d \in S \/ (d = c /\ c \in sources)
  BY <1>2, <1>4
<1>7. r.over = T
  BY <1>2, <1>5, <1>6
<1>8. r.found = Gathered(T)
  <2>1. CASE c \in sources
    <3>1. \A o : o \in Gathered(T) <=> o \in Gathered(S) \/ o \in cached[c]
      BY <1>6, <2>1, GatheredParts
    <3>2. QED
      BY <1>2, <1>5, <2>1, <3>1
  <2>2. CASE c \notin sources
    <3>1. T = S
      BY <1>6, <2>2
    <3>2. QED
      BY <1>2, <1>5, <2>2, <3>1
  <2>3. QED
    BY <2>1, <2>2
<1>9. CASE r.pc = "gather"
  <2>1. (sources \ runs[w].left)' = T /\ Gathered(sources \ runs[w].left)' = Gathered(T)
    BY <1>1, <1>3, <1>4 DEF Gathered
  <2>2. QED
    BY <1>3, <1>7, <1>8, <1>9, <2>1 DEF Accurate
<1>10. CASE r.pc = "publish"
  <2>1. T = sources
    BY <1>2, <1>4, <1>10
  <2>2. Gathered(sources)' = Gathered(T)
    BY <1>1, <2>1 DEF Gathered
  <2>3. QED
    BY <1>1, <1>3, <1>7, <1>8, <1>10, <2>1, <2>2 DEF Accurate
<1>11. QED
  BY <1>2, <1>9, <1>10

LEMMA PublishAccurate ==
    ASSUME TypeInv, NEW w \in Workers, Publish(w), Accurate(w)
    PROVE  Accurate(w)'
<1>0. TypeOK
  BY DEF TypeInv
<1>1. /\ runs[w].pc = "publish" /\ global' \in Best(runs[w].found)
      /\ UNCHANGED <<kind, sources, cached, used>>
  BY PublishRun
<1>2. PICK r \in Run : runs' = [runs EXCEPT ![w] = r] /\ r.pc = "write" /\ r.left = runs[w].over
  BY PublishRun
<1>3. runs'[w] = r
  BY <1>0, <1>2 DEF TypeOK
<1>4. global' \in Best(Gathered(sources)) /\ r.left = sources
  BY <1>1, <1>2 DEF Accurate
<1>5. (Best(Gathered(sources)))' = Best(Gathered(sources))
  BY <1>1, SameBest
<1>6. (sources \ runs[w].left)' = {}
  BY <1>1, <1>3, <1>4
<1>7. QED
  BY <1>2, <1>3, <1>4, <1>5, <1>6 DEF Accurate

LEMMA DatabaseAccurate ==
    ASSUME TypeInv, NEW w \in Workers, DatabaseFails(w)
    PROVE  Accurate(w)'
<1>0. TypeOK
  BY DEF TypeInv
<1>1. PICK r \in Run : runs' = [runs EXCEPT ![w] = r] /\ r.pc = "write" /\ r.err = TRUE
  BY <1>0, DatabaseRun
<1>2. runs'[w] = r
  BY <1>0, <1>1 DEF TypeOK
<1>3. QED
  BY <1>1, <1>2 DEF Accurate

LEMMA WriteAccurate ==
    ASSUME TypeInv, NEW w \in Workers, Write(w), Accurate(w)
    PROVE  Accurate(w)'
<1>0. TypeOK
  BY DEF TypeInv
<1>1. PICK c \in Clusters, err \in BOOLEAN : /\ Turn(w, c) /\ Done(w, c, err) /\ ~err
                                             /\ used' = [used EXCEPT ![c] = global]
  BY DEF Write
<1>2. UNCHANGED <<kind, sources, cached, global>>
  BY DEF Write
<1>3. /\ runs[w] \in Run /\ runs[w].pc = "write" /\ c \in runs[w].left
  BY <1>0, <1>1, DoneRun
<1>4. PICK r \in Run : /\ runs' = [runs EXCEPT ![w] = r]
                       /\ r.left = runs[w].left \ {c} /\ r.err = (runs[w].err \/ err)
                       /\ r.pc = (IF runs[w].left = {c} THEN "finish" ELSE "write")
  BY <1>0, <1>1, DoneRun
<1>5. runs'[w] = r
  BY <1>0, <1>4 DEF TypeOK
<1>6. used'[c] = global /\ \A d \in Clusters \ {c} : used'[d] = used[d]
  BY <1>0, <1>1 DEF TypeOK
<1>7. CASE runs[w].err
  BY <1>4, <1>5, <1>7 DEF Accurate
<1>8. CASE ~runs[w].err
  <2>1. /\ global \in Best(Gathered(sources))
        /\ \A d \in sources \ runs[w].left : used[d] = global
    BY <1>3, <1>8 DEF Accurate
  <2>2. global' \in (Best(Gathered(sources)))'
    BY <1>2, <2>1, SameBest
  <2>3. \A d \in sources \ r.left : used'[d] = global
    BY <1>0, <1>4, <1>6, <2>1 DEF TypeOK
  <2>4. CASE r.pc = "write"
    BY <1>2, <1>5, <2>2, <2>3, <2>4 DEF Accurate
  <2>5. CASE r.pc = "finish"
    <3>1. r.left = {}
      BY <1>4, <2>5
    <3>2. InLine(sources)'
      BY <1>2, <2>2, <2>3, <3>1 DEF InLine
    <3>3. QED
      BY <1>5, <2>5, <3>2 DEF Accurate
  <2>6. QED
    BY <1>4, <2>4, <2>5
<1>9. QED
  BY <1>7, <1>8

LEMMA WriteFailsAccurate ==
    ASSUME TypeInv, NEW w \in Workers, WriteFails(w)
    PROVE  Accurate(w)'
<1>0. TypeOK
  BY DEF TypeInv
<1>1. PICK c \in Clusters, err \in BOOLEAN : Turn(w, c) /\ Done(w, c, err) /\ err
  BY DEF WriteFails
<1>2. PICK r \in Run : /\ runs' = [runs EXCEPT ![w] = r] /\ r.err
                       /\ r.pc = (IF runs[w].left = {c} THEN "finish" ELSE "write")
  BY <1>0, <1>1, DoneRun
<1>3. runs'[w] = r
  BY <1>0, <1>2 DEF TypeOK
<1>4. QED
  BY <1>2, <1>3 DEF Accurate

LEMMA SameAccurate ==
    ASSUME UNCHANGED <<kind, sources, cached, global, used, runs>>
    PROVE  /\ \A w \in Workers : Accurate(w)' <=> Accurate(w)
           /\ InLine(sources)' <=> InLine(sources)
           /\ Alone' <=> Alone
<1>1. Best(Gathered(sources))' = Best(Gathered(sources))
  BY SameBest
<1>2. \A S : InLine(S)' <=> InLine(S)
  BY <1>1 DEF InLine
<1>3. \A S : Gathered(S)' = Gathered(S)
  BY SameBest
<1>4. \A w \in Workers : Accurate(w)' <=> Accurate(w)
  BY <1>1, <1>2, <1>3 DEF Accurate
<1>5. QED
  BY <1>2, <1>4 DEF Alone

\* A run goes on
LEMMA RunSettles ==
    ASSUME TypeInv, Settling, NEW w \in Workers, runs[w] # Idle, NEW r \in Run,
           runs' = [runs EXCEPT ![w] = r], r.item = runs[w].item,
           UNCHANGED <<kind, live, queues, joined, cached>>,
           Accurate(w) => Accurate(w)'
    PROVE  Settling'
<1>0. TypeOK
  BY DEF TypeInv
<1>1. /\ runs'[w] = r /\ r # Idle
      /\ \A v \in Workers \ {w} : runs'[v] = runs[v] /\ runs[v] = Idle
  BY <1>0, NotIdle DEF TypeOK, Settling, OneRun
<1>2. OneRun'
  BY <1>0, OneRunKept DEF Settling
<1>3. \A c \in Clusters : (runs'[c] # Idle => runs[c] # Idle) /\
                          (runs'[c] # Idle => runs'[c].item = runs[c].item)
  BY <1>1 DEF Workers
<1>4. Heard' /\ Followed'
  BY <1>3, KeepHeard DEF Settling
<1>5. ~Alone'
  BY <1>1 DEF Alone
<1>6. ~joined' => \A v \in Workers : runs'[v] # Idle => Accurate(v)'
  BY <1>1 DEF Settling
<1>7. QED
  BY <1>2, <1>4, <1>5, <1>6 DEF Settling

\* A run starts
LEMMA StartSettles ==
    ASSUME TypeInv, OneRun, Alone, NEW w \in Workers, NEW item, UNCHANGED sources,
           runs' = [runs EXCEPT ![w] = NewRun(item)], Heard', Followed'
    PROVE  Settling'
<1>0. TypeOK
  BY DEF TypeInv
<1>1. PICK r : r = NewRun(item)
  OBVIOUS
<1>2. r.pc = "gather" /\ r.left = Clusters /\ r.over = {} /\ r.found = {} /\ r # Idle
  BY <1>1 DEF NewRun, Idle
<1>3. /\ runs'[w] = r
      /\ \A v \in Workers \ {w} : runs'[v] = Idle
  BY <1>0, <1>1 DEF TypeOK, Alone
<1>4. OneRun'
  BY <1>3 DEF OneRun
<1>5. Accurate(w)'
  <2>1. \A S : S = {} => Gathered(S)' = {}
    BY DEF Gathered
  <2>2. (sources \ runs[w].left)' = {}
    BY <1>0, <1>2, <1>3 DEF TypeOK
  <2>3. Gathered(sources \ runs[w].left)' = {}
    BY <2>1, <2>2 DEF Gathered
  <2>4. QED
    BY <1>2, <1>3, <2>2, <2>3 DEF Accurate
<1>6. ~Alone'
  BY <1>2, <1>3 DEF Alone
<1>7. QED
  BY <1>3, <1>4, <1>5, <1>6 DEF Settling

LEMMA FinishSettles ==
    ASSUME TypeInv, Settling, NEW w \in Workers, Finish(w), ~misjudged'
    PROVE  Settling'
<1>0. TypeOK
  BY DEF TypeInv
<1>1. /\ runs[w] \in Run /\ runs[w] # Idle /\ runs[w].pc = "finish"
      /\ runs' = [runs EXCEPT ![w] = Idle]
      /\ UNCHANGED <<kind, sources, cached, global, used>>
  BY <1>0, FinishParts
<1>2. \A v \in Workers : runs'[v] = Idle
  BY <1>0, <1>1 DEF TypeOK, Settling, OneRun
<1>3. OneRun'
  BY <1>2 DEF OneRun
<1>4. /\ Heard' /\ Followed'
      /\ w \in Clusters /\ runs[w].err => Expected(w)'
  BY FinishHeard DEF Settling
<1>5. ASSUME ~joined'
      PROVE  Awaited'
  <2>1. runs[w].err \in BOOLEAN
    BY <1>1 DEF Run
  <2>2. CASE runs[w].err
    <3>1. w \in Clusters
      BY <1>0, <1>5, <2>2, FinishParts
    <3>2. QED
      BY <1>4, <2>2, <3>1 DEF Awaited
  <2>3. CASE ~runs[w].err
    <3>1. joined' = joined
      BY <1>0, <2>3, FinishParts
    <3>2. Accurate(w)
      BY <1>1, <1>5, <3>1 DEF Settling
    <3>3. InLine(sources)
      BY <1>1, <2>3, <3>2 DEF Accurate
    <3>4. InLine(sources)'
      BY <1>1, <3>3, SameBest DEF InLine
    <3>5. QED
      BY <3>4 DEF Awaited
  <2>4. QED
    BY <2>1, <2>2, <2>3
<1>6. QED
  BY <1>2, <1>3, <1>4, <1>5 DEF Settling

LEMMA SettleInit == Init => SettleInv
<1> SUFFICES ASSUME Init PROVE SettleInv
  OBVIOUS
<1>1. /\ live = [c \in Clusters |-> [n \in Names |-> NoPolicy]]
      /\ cached = [c \in Clusters |-> {}] /\ runs = [w \in Workers |-> Idle]
      /\ queues = [c \in Clusters |-> << >>] /\ joined = TRUE
  BY DEF Init
<1>2. \A c \in Clusters : c \in Workers
  BY DEF Workers
<1>3. OneRun /\ Followed
  BY <1>1, <1>2 DEF OneRun, Followed, FollowedAt
<1>4. ASSUME NEW c \in Clusters, NEW n \in Names
      PROVE  HeardAt(c, n)
  <2>1. Agrees(c, n)
    BY <1>1 DEF Agrees, Shown
  <2>2. 1 .. Len(queues[c]) = {}
    BY <1>1
  <2>3. QED
    BY <2>1, <2>2 DEF HeardAt
<1>5. Settling
  BY <1>1, <1>3, <1>4 DEF Settling, Heard
<1>6. QED
  BY <1>5, TypeInit DEF SettleInv

LEMMA SettleNext ==
    ASSUME SettleInv, [Next]_vars
    PROVE  SettleInv'
<1>0. TypeInv /\ TypeOK
  BY DEF SettleInv, TypeInv
<1>1. TypeInv'
  BY <1>0, TypeNext
<1> SUFFICES ASSUME ~raced', ~misjudged'
             PROVE  Settling'
  BY <1>1 DEF SettleInv
<1>2. Settling
  BY <1>0, History DEF SettleInv
<1>3. OneRun /\ Heard /\ Followed
  BY <1>2 DEF Settling
<1>4. ASSUME NEW w \in Workers, Step(w)
      PROVE  Settling'
  <2>1. CASE w \in Clusters /\ TakePolicy(w)
    <3>1. /\ Overlap /\ UNCHANGED sources
          /\ runs' = [runs EXCEPT ![w] = NewRun(Head(queues[w]))]
      BY <2>1 DEF TakePolicy
    <3>2. PICK item : item = Head(queues[w])
      OBVIOUS
    <3>3. Alone /\ runs' = [runs EXCEPT ![w] = NewRun(item)]
      BY <1>0, <3>1, <3>2, OverlapAlone
    <3>4. Heard' /\ Followed'
      BY <1>0, <1>3, <2>1, TakeHeard
    <3>5. QED
      BY <1>0, <1>3, <3>1, <3>3, <3>4, StartSettles
  <2>2. CASE w \in Clusters /\ DropRetry(w)
    <3>1. UNCHANGED <<kind, sources, joined, cached, global, used, runs>>
      BY <2>2 DEF DropRetry
    <3>2. Heard' /\ Followed' /\ (Awaited => Awaited')
      BY <1>0, <1>3, <2>2, DropHeard
    <3>3. OneRun'
      BY <1>3, <3>1 DEF OneRun
    <3>4. QED
      BY <1>2, <3>1, <3>2, <3>3, SameAccurate DEF Settling
  <2>3. CASE w = Workload /\ TakeWorkload
    <3>1. /\ Overlap /\ UNCHANGED <<kind, live, sources, queues, cached>>
          /\ runs' = [runs EXCEPT ![w] = NewRun(NoPolicy)]
      BY <2>3 DEF TakeWorkload
    <3>2. Alone
      BY <1>0, <3>1, OverlapAlone
    <3>3. \A c \in Clusters : runs'[c] = runs[c]
      BY <1>0, <2>3, <3>1, PolicyAssumption DEF TypeOK, Workers
    <3>4. Heard' /\ Followed'
      BY <1>3, <3>1, <3>3, KeepHeard
    <3>5. QED
      BY <1>0, <1>3, <3>1, <3>2, <3>4, StartSettles
  <2>4. CASE Gather(w)
    <3>1. /\ runs[w] # Idle /\ UNCHANGED <<kind, live, queues, joined, cached>>
      BY <1>0, <2>4, GatherRun, NotIdle
    <3>2. PICK r \in Run : runs' = [runs EXCEPT ![w] = r] /\ r.item = runs[w].item
      BY <1>0, <2>4, GatherRun
    <3>3. Accurate(w) => Accurate(w)'
      BY <1>0, <2>4, GatherAccurate
    <3>4. QED
      BY <1>0, <1>2, <3>1, <3>2, <3>3, RunSettles
  <2>5. CASE Publish(w)
    <3>1. /\ runs[w] # Idle /\ UNCHANGED <<kind, live, queues, joined, cached>>
      BY <1>0, <2>5, PublishRun, NotIdle
    <3>2. PICK r \in Run : runs' = [runs EXCEPT ![w] = r] /\ r.item = runs[w].item
      BY <1>0, <2>5, PublishRun
    <3>3. Accurate(w) => Accurate(w)'
      BY <1>0, <2>5, PublishAccurate
    <3>4. QED
      BY <1>0, <1>2, <3>1, <3>2, <3>3, RunSettles
  <2>6. CASE DatabaseFails(w)
    <3>1. /\ runs[w] # Idle /\ UNCHANGED <<kind, live, queues, joined, cached>>
      BY <1>0, <2>6, DatabaseRun, NotIdle
    <3>2. PICK r \in Run : runs' = [runs EXCEPT ![w] = r] /\ r.item = runs[w].item
      BY <1>0, <2>6, DatabaseRun
    <3>3. Accurate(w)'
      BY <1>0, <2>6, DatabaseAccurate
    <3>4. QED
      BY <1>0, <1>2, <3>1, <3>2, <3>3, RunSettles
  <2>7. CASE Write(w) \/ WriteFails(w)
    <3>1. PICK c \in Clusters, err \in BOOLEAN : Turn(w, c) /\ Done(w, c, err)
      BY <2>7 DEF Write, WriteFails
    <3>2. UNCHANGED <<kind, live, queues, joined, cached>>
      BY <2>7 DEF Write, WriteFails
    <3>3. runs[w] # Idle
      BY <1>0, <3>1, DoneRun, NotIdle
    <3>4. PICK r \in Run : runs' = [runs EXCEPT ![w] = r] /\ r.item = runs[w].item
      BY <1>0, <3>1, DoneRun
    <3>5. Accurate(w) => Accurate(w)'
      BY <1>0, <2>7, WriteAccurate, WriteFailsAccurate
    <3>6. QED
      BY <1>0, <1>2, <3>2, <3>3, <3>4, <3>5, RunSettles
  <2>8. CASE Finish(w)
    BY <1>0, <1>2, <2>8, FinishSettles
  <2>9. QED
    BY <1>4, <2>1, <2>2, <2>3, <2>4, <2>5, <2>6, <2>7, <2>8 DEF Step
<1>5. ASSUME NEW c \in Clusters, Join(c)
      PROVE  Settling'
  <2>1. joined' = TRUE /\ UNCHANGED <<kind, live, queues, cached, runs>>
    BY <1>5 DEF Join
  <2>2. Heard' /\ Followed'
    BY <1>3, <2>1, KeepHeard
  <2>3. QED
    BY <1>3, <2>1, <2>2 DEF Settling, OneRun
<1>6. ASSUME NEW c \in Clusters, Heard', Followed', Expected(c)',
             UNCHANGED <<kind, sources, joined, cached, global, used, runs>>
      PROVE  Settling'
  <2>1. OneRun'
    BY <1>3, <1>6 DEF OneRun
  <2>2. Awaited'
    BY <1>6 DEF Awaited
  <2>3. QED
    BY <1>2, <1>6, <2>1, <2>2, SameAccurate DEF Settling
<1>7. ASSUME NEW c \in Clusters, NEW n \in Names, Apply(c, n)
      PROVE  Settling'
  <2>1. UNCHANGED <<kind, sources, joined, cached, global, used, runs>>
    BY <1>7 DEF Apply
  <2>2. PICK new \in Object :
          /\ new.name = n
          /\ live' = [live EXCEPT ![c] = [live[c] EXCEPT ![n] = new]]
          /\ queues' = [queues EXCEPT ![c] =
               Append(queues[c], [type |-> "Put", obj |-> new, tries |-> 0])]
    BY <1>0, <1>7, ApplyParts
  <2>3. PICK i : i = [type |-> "Put", obj |-> new, tries |-> 0]
    OBVIOUS
  <2>4. i \in Item /\ i.tries = 0 /\ i.obj = new /\ i.type = "Put"
    BY <2>3 DEF Item
  <2>5. /\ live'[c][n] = new
        /\ \A d \in Clusters, m \in Names : live'[d][m] = live[d][m] \/ (d = c /\ m = n)
    BY <1>0, <2>2 DEF TypeOK
  <2>6. IsLatest(c, i)'
    BY <2>2, <2>4, <2>5 DEF IsLatest
  <2>7. Heard' /\ Followed' /\ Expected(c)'
    BY <1>0, <1>3, <2>1, <2>2, <2>3, <2>4, <2>5, <2>6, ChangeAll
  <2>8. QED
    BY <1>6, <2>1, <2>7
<1>8. ASSUME NEW c \in Clusters, NEW n \in Names, Remove(c, n)
      PROVE  Settling'
  <2>1. /\ live[c][n] \in Object
        /\ live' = [live EXCEPT ![c] = [live[c] EXCEPT ![n] = NoPolicy]]
        /\ queues' = [queues EXCEPT ![c] =
             Append(queues[c], [type |-> "Delete", obj |-> live[c][n], tries |-> 0])]
        /\ UNCHANGED <<kind, sources, joined, cached, global, used, runs>>
    BY <1>0, <1>8, RemoveParts
  <2>2. live[c][n].name = n
    BY <1>0, <2>1, PolicyAssumption DEF TypeInv, Named
  <2>3. PICK i : i = [type |-> "Delete", obj |-> live[c][n], tries |-> 0]
    OBVIOUS
  <2>4. i \in Item /\ i.tries = 0 /\ i.obj.name = n /\ i.type = "Delete"
    BY <2>1, <2>2, <2>3 DEF Item
  <2>5. /\ live'[c][n] = NoPolicy
        /\ \A d \in Clusters, m \in Names : live'[d][m] = live[d][m] \/ (d = c /\ m = n)
    BY <1>0, <2>1 DEF TypeOK
  <2>6. IsLatest(c, i)'
    BY <2>4, <2>5 DEF IsLatest
  <2>7. Heard' /\ Followed' /\ Expected(c)'
    BY <1>0, <1>3, <2>1, <2>3, <2>4, <2>5, <2>6, ChangeAll
  <2>8. QED
    BY <1>6, <2>1, <2>7
<1>9. ASSUME NEW p \in Places, Apply(p[1], p[2]) \/ Remove(p[1], p[2])
      PROVE  Settling'
  <2>1. p[1] \in Clusters /\ p[2] \in Names
    BY PolicyAssumption
  <2>2. QED
    BY <1>7, <1>8, <1>9, <2>1
<1>10. CASE UNCHANGED vars
  <2>1. UNCHANGED <<kind, live, sources, queues, joined, cached, global, used, runs>>
    BY <1>10 DEF vars
  <2>2. Heard' /\ Followed'
    BY <1>3, <2>1, KeepHeard
  <2>3. OneRun'
    BY <1>3, <2>1 DEF OneRun
  <2>4. Awaited => Awaited'
    BY <2>1, SameAccurate DEF Awaited, Expected, IsLatest
  <2>5. QED
    BY <1>2, <2>1, <2>2, <2>3, <2>4, SameAccurate DEF Settling
<1>11. QED
  BY <1>4, <1>5, <1>9, <1>10 DEF Next

\* At rest the caches of the identity's clusters hold exactly the policies that count
LEMMA GatheredCounts ==
    ASSUME TypeInv, \A c \in Clusters, n \in Names : Agrees(c, n),
           kind = "od" => \A p \in Wanted : ~p.ignore
    PROVE  Gathered(sources) = Counting
<1>0. TypeOK
  BY DEF TypeInv
<1>1. \A p : p \in Wanted <=> p # NoPolicy /\ \E c \in sources, n \in Names : p = live[c][n]
  BY DEF Wanted
<1>2. ASSUME NEW o \in Gathered(sources)
      PROVE  o \in Counting
  <2>1. PICK c \in sources : o \in cached[c]
    BY GatheredParts
  <2>2. c \in Clusters /\ o \in Object /\ o.name \in Names
    BY <1>0, <2>1 DEF TypeOK, Object
  <2>3. PICK n \in Names : n = o.name
    BY <2>2
  <2>4. Agrees(c, n) /\ o \in Shown(c, n)
    BY <2>1, <2>2, <2>3 DEF Shown
  <2>5. live[c][n] # NoPolicy
    BY <2>4 DEF Agrees
  <2>6. live[c][n] \in Wanted
    BY <1>1, <2>1, <2>5
  <2>7. ~live[c][n].ignore
    BY <2>4, <2>5, <2>6 DEF Agrees
  <2>8. o = live[c][n]
    BY <2>4, <2>5, <2>7 DEF Agrees
  <2>9. QED
    BY <2>6, <2>7, <2>8 DEF Counting
<1>3. ASSUME NEW p \in Counting
      PROVE  p \in Gathered(sources)
  <2>1. p \in Wanted /\ ~p.ignore
    BY DEF Counting
  <2>2. PICK c \in sources, n \in Names : p = live[c][n] /\ p # NoPolicy
    BY <1>1, <2>1
  <2>3. c \in Clusters
    BY <1>0 DEF TypeOK
  <2>4. Shown(c, n) = {p}
    BY <2>1, <2>2, <2>3 DEF Agrees
  <2>5. p \in cached[c]
    BY <2>4 DEF Shown
  <2>6. QED
    BY <2>5, GatheredParts
<1>4. QED
  BY <1>2, <1>3

LEMMA SettleProperty ==
    ASSUME SettleInv
    PROVE  SettledUsesBest
<1> SUFFICES ASSUME Quiet, Undisturbed
             PROVE  UsesBest
  BY DEF SettledUsesBest
<1>1. TypeInv /\ Settling
  BY DEF SettleInv, Undisturbed
<1>2. \A c \in Clusters : queues[c] = << >> /\ 1 .. Len(queues[c]) = {}
  BY DEF Quiet
<1>3. \A c \in Clusters : ~Expected(c)
  BY <1>2 DEF Expected
<1>4. InLine(sources)
  BY <1>1, <1>3 DEF Settling, Awaited, Quiet
<1>5. \A c \in Clusters, n \in Names : Agrees(c, n)
  BY <1>1, <1>2 DEF Settling, Heard, HeardAt
<1>6. Gathered(sources) = Counting
  BY <1>1, <1>5, GatheredCounts DEF Undisturbed
<1>7. QED
  BY <1>4, <1>6 DEF InLine, UsesBest

\* BestInTheEnd: whenever all events are handled, all clusters of the identity use the
\* best of the policies there are, for any number of clusters, policies, changes, joins,
\* failures and retries, as long as no two runs overlapped and no event was misjudged
\* (SettledUsesBest).
THEOREM BestInTheEnd == Spec => []SettledUsesBest
<1>1. SettleInv /\ [Next]_vars => SettleInv'
  BY SettleNext
<1>2. SettleInv => SettledUsesBest
  BY SettleProperty
<1>3. QED
  BY <1>1, <1>2, SettleInit, PTL DEF Spec
=============================================================================
