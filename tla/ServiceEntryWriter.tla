------------------------- MODULE ServiceEntryWriter -------------------------
(***************************************************************************)
(* How one service entry is kept up to date in one cluster:                *)
(*   admiral/pkg/clusters/serviceentry.go          AddServiceEntriesWithDr- *)
(*                                    Worker, reconcileServiceEntry         *)
(*   admiral/pkg/clusters/serviceentry_handler.go  addUpdateServiceEntry    *)
(*   admiral/pkg/controller/istio/serviceentry.go  the cache                *)
(*                                                                         *)
(* The spec of a service entry is the set of its endpoints, an endpoint    *)
(* being its address together with all the rest of it.  A worker computes  *)
(* the spec from Admiral's caches (`want`) when it starts on an event.  An *)
(* event whose handler returns an error is queued again (EventController). *)
(***************************************************************************)
EXTENDS Naturals, Sequences

CONSTANTS
    Endpoints,      \* valid endpoints
    Dummy,          \* an endpoint at common.DummyAdmiralGlobal
    Unlocated,      \* endpoints without a locality or istio's tlsMode label
    Workers,        \* goroutines that write this service entry
    NumRetries,     \* numRetries of retryUpdatingSE
    Settings        \* the situations to look at

Specs == SUBSET (Endpoints \cup {Dummy})

\* cache:     common.EnableServiceEntryCache()
\* booting:   the cluster started within 2 * CacheReconcileDuration
\* failing:   the requests that may fail
\* specs:     specs that may be wanted, or be a user's
\* leftovers: specs that an earlier run of Admiral may have left behind
\* and bounds of the environment: changes of the desired spec, requests that
\* fail, service entries that users create under the same name
Setting == [cache : BOOLEAN, booting : BOOLEAN, workers : SUBSET Workers,
            failing : SUBSET {"get", "create", "update", "delete"},
            specs : SUBSET Specs, leftovers : SUBSET Specs,
            wants : Nat, failures : Nat, custom : Nat]

ASSUME WriterAssumption ==
    /\ Dummy \notin Endpoints
    /\ Unlocated \subseteq Endpoints
    /\ NumRetries \in Nat
    /\ Settings \subseteq Setting

\* ours: the annotation isGeneratedByAdmiral looks for
ServiceEntry == [spec : Specs, rv : Nat, ours : BOOLEAN]

NoSE == [rv |-> 0]

\* What the client returns beside an error: an empty object
Blank == [spec |-> {}, rv |-> 0, ours |-> FALSE]

VARIABLES
    api,        \* the cluster's service entry
    rev,        \* the API server's last resource version
    watch,      \* changes the informer has not delivered yet
    cache,      \* ServiceEntryController.Cache
    want,       \* the spec that follows from Admiral's other caches
    dirty,      \* an event that calls for this service entry is queued
    boot,       \* time.Since(rc.StartTime) < 2 * CacheReconcileDuration
    work,       \* the workers
    spent,      \* how much of each environment bound is used up
    setting,    \* the situation, which does not change
    lost        \* history: an event may have ended without what it called for

vars == <<api, rev, watch, cache, want, dirty, boot, work, spent, setting, lost>>

apiVars == <<api, rev, watch>>
envVars == <<want, boot, setting>>

Idle == [pc |-> "idle"]

\* shared: oldServiceEntry is the object in the cache, not a copy of it
Busy == [pc     : {"read", "decide", "skip", "delete", "create", "fetch", "prepare",
                   "update", "retry", "again", "refuse"},
         spec   : Specs,
         shared : BOOLEAN,
         old    : ServiceEntry \cup {NoSE},
         tries  : 0 .. NumRetries]

TypeOK ==
    /\ api \in ServiceEntry \cup {NoSE}
    /\ rev \in Nat
    /\ watch \in Seq(ServiceEntry \cup {NoSE})
    /\ cache \in ServiceEntry \cup {NoSE}
    /\ want \in Specs
    /\ dirty \in BOOLEAN
    /\ boot \in BOOLEAN
    /\ work \in [Workers -> Busy \cup {Idle}]
    /\ spent \in [wants : Nat, failures : Nat, custom : Nat]
    /\ setting \in Settings
    /\ lost \in BOOLEAN

\* The service entry may be there from an earlier run of Admiral, or a user's.
\* With the cache switched on a worker assigns to the cached object before the
\* request, and may compare with what it never wrote.
Init ==
    /\ setting \in Settings
    /\ lost = setting.cache
    /\ api \in [spec : setting.leftovers, rv : {1}, ours : BOOLEAN] \cup {NoSE}
    /\ rev = 1
    /\ watch = IF api = NoSE THEN <<>> ELSE <<api>>
    /\ cache = NoSE
    /\ want = {}
    /\ dirty = TRUE
    /\ boot = setting.booting
    /\ work = [w \in Workers |-> Idle]
    /\ spent = [wants |-> 0, failures |-> 0, custom |-> 0]

-----------------------------------------------------------------------------
(* The API server and the informer *)

Store(se) ==
    /\ rev' = rev + 1
    /\ api' = [se EXCEPT !.rv = rev + 1]
    /\ watch' = Append(watch, api')

Remove ==
    /\ api' = NoSE
    /\ watch' = Append(watch, NoSE)
    /\ UNCHANGED rev

\* Added, Updated and Deleted of the controller.  Workers that hold the object
\* that was in the cache keep it.
Deliver ==
    /\ watch # <<>>
    /\ watch' = Tail(watch)
    /\ cache' = Head(watch)
    /\ work' = [w \in Workers |->
          IF work[w] # Idle /\ work[w].shared
          THEN [work[w] EXCEPT !.shared = FALSE, !.old = cache] ELSE work[w]]
    /\ UNCHANGED <<api, rev, envVars, dirty, spent, lost>>

\* Deployments, policies or dependencies change
Want ==
    /\ spent.wants < setting.wants
    /\ spent' = [spent EXCEPT !.wants = @ + 1]
    /\ want' \in setting.specs
    /\ dirty' = TRUE
    /\ UNCHANGED <<apiVars, cache, boot, work, setting, lost>>

BootEnds ==
    /\ boot
    /\ boot' = FALSE
    /\ UNCHANGED <<apiVars, cache, want, dirty, work, spent, setting, lost>>

\* A user creates a service entry under the same name.  A worker that does not
\* know of it yet may delete it, and the next one still find it in the cache.
Custom ==
    /\ api = NoSE
    /\ spent.custom < setting.custom
    /\ spent' = [spent EXCEPT !.custom = @ + 1]
    /\ \E spec \in setting.specs \ {{}} : Store([spec |-> spec, rv |-> 0, ours |-> FALSE])
    /\ lost' = TRUE
    /\ UNCHANGED <<cache, envVars, dirty, work>>

-----------------------------------------------------------------------------
(* A worker *)

Old(w) == IF work[w].shared THEN cache ELSE work[w].old

\* The worker assigns to a field of oldServiceEntry
SetOld(w, spec, pc) ==
    /\ cache' = IF work[w].shared THEN [cache EXCEPT !.spec = spec] ELSE cache
    /\ work' = [work EXCEPT ![w].pc = pc,
                            ![w].old = IF work[w].shared THEN @
                                       ELSE [@ EXCEPT !.spec = spec]]

Goto(w, pc) == work' = [work EXCEPT ![w].pc = pc]

\* The handler returns: an error puts the event back into the queue
Done(w) == work' = [work EXCEPT ![w] = Idle] /\ UNCHANGED dirty

\* Mutant: the error is logged only
ErrSwallowed(w) == Done(w)

Err(w) == work' = [work EXCEPT ![w] = Idle] /\ dirty' = TRUE

Fails(request) ==
    /\ request \in setting.failing
    /\ spent.failures < setting.failures
    /\ spent' = [spent EXCEPT !.failures = @ + 1]

\* The event is taken and the spec computed.  Of two workers the one with the
\* older spec may write last.
Begin(w) ==
    /\ w \in setting.workers /\ work[w] = Idle /\ dirty
    /\ lost' = (lost \/ \E v \in Workers : work[v] # Idle)
    /\ dirty' = FALSE
    /\ work' = [work EXCEPT ![w] = [pc |-> "read", spec |-> want, shared |-> FALSE,
                                    old |-> NoSE, tries |-> 0]]
    /\ UNCHANGED <<apiVars, cache, envVars, spent>>

\* oldServiceEntry comes from the cache or else from the API server.  An error
\* other than NotFound is dropped, with the empty object as the result.
ReadOld(w) ==
    /\ work[w].pc = "read"
    /\ \/ /\ cache # NoSE
          /\ work' = [work EXCEPT ![w].pc = "decide", ![w].shared = TRUE]
          /\ UNCHANGED <<spent, lost>>
       \/ /\ cache = NoSE
          /\ work' = [work EXCEPT ![w].pc = "decide", ![w].old = api]
          /\ UNCHANGED <<spent, lost>>
       \/ /\ cache = NoSE
          /\ Fails("get") /\ lost' = TRUE
          /\ work' = [work EXCEPT ![w].pc = "decide", ![w].old = Blank]
    /\ UNCHANGED <<apiVars, cache, envVars, dirty>>

\* A service entry that was created outside of Admiral
IsCustom(se) == se # NoSE /\ ~se.ours

\* Mutant: only updates respect a custom service entry
SkipOnlyUpdates(w) == IsCustom(Old(w)) /\ work[w].spec # {}

\* skipSEUpdate
SkipSEUpdate(w) == IsCustom(Old(w))

\* deleteOldServiceEntry: none of its endpoints is valid
DeleteOld(w) == Old(w) # NoSE /\ Old(w).spec = {Dummy}

\* validateAndProcessServiceEntryEndpoints takes the dummy endpoints out of
\* oldServiceEntry
DropDummies(w, pc) ==
    IF Old(w) = NoSE THEN Goto(w, pc) /\ UNCHANGED cache
    ELSE SetOld(w, Old(w).spec \ {Dummy}, pc)

\* reconcileServiceEntry compares with the object in the cache, from which the
\* dummy endpoints are gone if it is oldServiceEntry
NoDiff(w) ==
    /\ setting.cache /\ cache # NoSE
    /\ work[w].spec = IF work[w].shared THEN cache.spec \ {Dummy} ELSE cache.spec

\* A custom service entry is left alone
Skip(w) ==
    /\ work[w].pc = "decide"
    /\ SkipSEUpdate(w)
    /\ Done(w)
    /\ UNCHANGED <<apiVars, cache, envVars, spent, lost>>

\* The new service entry has no endpoints, or the old one only invalid ones, in
\* which case the new one is not created by this event
ChooseDelete(w) ==
    /\ work[w].pc = "decide"
    /\ ~SkipSEUpdate(w) /\ (work[w].spec = {} \/ DeleteOld(w))
    /\ DropDummies(w, "delete")
    /\ lost' = (lost \/ work[w].spec # {})
    /\ UNCHANGED <<apiVars, envVars, dirty, spent>>

\* validateServiceEntryEndpoints
Valid(spec) == spec \cap Unlocated = {}

\* Otherwise the new service entry is written, unless the cache has the same.
\* One that is new and has no valid endpoint is not created, and one with an
\* endpoint that lacks its locality is an error, be it the same or not.
ChooseWrite(w) ==
    /\ work[w].pc = "decide"
    /\ ~SkipSEUpdate(w) /\ work[w].spec # {} /\ ~DeleteOld(w)
    /\ DropDummies(w, IF ~Valid(work[w].spec) THEN "refuse"
                      ELSE IF NoDiff(w) \/ (Old(w) = NoSE /\ work[w].spec = {Dummy})
                      THEN "skip"
                      ELSE IF Old(w) = NoSE THEN "create" ELSE "prepare")
    /\ UNCHANGED <<apiVars, envVars, dirty, spent, lost>>

NothingToWrite(w) ==
    /\ work[w].pc = "skip"
    /\ Done(w)
    /\ UNCHANGED <<apiVars, cache, envVars, spent, lost>>

\* The event comes back, with the same result until the endpoints change
Refuse(w) ==
    /\ work[w].pc = "refuse"
    /\ Err(w)
    /\ UNCHANGED <<apiVars, cache, envVars, spent, lost>>

\* deleteServiceEntry, by name
Delete(w) ==
    /\ work[w].pc = "delete"
    /\ \/ /\ IF Old(w) = NoSE \/ api = NoSE THEN UNCHANGED apiVars ELSE Remove
          /\ Done(w) /\ UNCHANGED spent
       \/ /\ Old(w) # NoSE
          /\ Fails("delete") /\ Err(w) /\ UNCHANGED apiVars
    /\ UNCHANGED <<cache, envVars, lost>>

\* addUpdateServiceEntry of a new service entry, with the valid endpoints only
Create(w) ==
    /\ work[w].pc = "create"
    /\ \/ /\ api = NoSE
          /\ Store([spec |-> work[w].spec \ {Dummy}, rv |-> 0, ours |-> TRUE])
          /\ Done(w) /\ UNCHANGED spent
       \/ /\ api # NoSE
          /\ Goto(w, "fetch") /\ UNCHANGED <<apiVars, dirty, spent>>
       \/ Fails("create") /\ Err(w) /\ UNCHANGED apiVars
    /\ UNCHANGED <<cache, envVars, lost>>

\* The service entry already exists: it is fetched to be updated.  Without it
\* the update has no resource version, and the API server refuses it.
Fetch(w) ==
    /\ work[w].pc = "fetch"
    /\ \/ /\ api # NoSE
          /\ work' = [work EXCEPT ![w].pc = "prepare", ![w].old = api]
          /\ UNCHANGED <<dirty, spent>>
       \/ api = NoSE /\ Err(w) /\ UNCHANGED spent
       \/ Fails("get") /\ Err(w)
    /\ UNCHANGED <<apiVars, cache, envVars, lost>>

\* Mutant: an update that removes endpoints is skipped after the boot as well
SkipsAllDestructive(w) == ~(Old(w).spec \subseteq work[w].spec)

\* skipDestructiveUpdate
SkipsUpdate(w) == boot /\ ~(Old(w).spec \subseteq work[w].spec)

\* exist.Spec = obj.Spec, on the object in the cache too
Prepare(w) ==
    /\ work[w].pc = "prepare"
    /\ IF Dummy \in work[w].spec \/ SkipsUpdate(w)
       THEN Done(w) /\ UNCHANGED cache
       ELSE SetOld(w, work[w].spec, "update") /\ UNCHANGED dirty
    /\ lost' = (lost \/ (boot /\ SkipsUpdate(w)))
    /\ UNCHANGED <<apiVars, envVars, spent>>

Overwrite(w) == Store([spec |-> work[w].spec, rv |-> 0, ours |-> TRUE])

\* The update is accepted, meets a conflict, or fails for another reason
Update(w) ==
    /\ work[w].pc = "update"
    /\ \/ /\ api # NoSE /\ Old(w).rv = api.rv
          /\ Overwrite(w) /\ Done(w) /\ UNCHANGED spent
       \/ /\ api # NoSE /\ Old(w).rv # api.rv
          /\ Goto(w, "retry") /\ UNCHANGED <<apiVars, dirty, spent>>
       \/ api = NoSE /\ Err(w) /\ UNCHANGED <<apiVars, spent>>
       \/ Fails("update") /\ Err(w) /\ UNCHANGED apiVars
    /\ UNCHANGED <<cache, envVars, lost>>

TriesLeft(w) == work[w].tries < NumRetries

\* retryUpdatingSE: fetch the service entry ...
RetryGet(w) ==
    /\ work[w].pc = "retry"
    /\ \/ /\ ~TriesLeft(w)
          /\ Err(w) /\ UNCHANGED spent
       \/ /\ TriesLeft(w)
          /\ (api = NoSE /\ UNCHANGED spent) \/ Fails("get")
          /\ work' = [work EXCEPT ![w].tries = @ + 1]
          /\ UNCHANGED dirty
       \/ /\ TriesLeft(w) /\ api # NoSE
          /\ work' = [work EXCEPT ![w].pc = "again", ![w].shared = FALSE,
                                  ![w].old = api, ![w].tries = @ + 1]
          /\ UNCHANGED <<dirty, spent>>
    /\ UNCHANGED <<apiVars, cache, envVars, lost>>

\* ... and update it, whatever it holds
RetryUpdate(w) ==
    /\ work[w].pc = "again"
    /\ \/ /\ api # NoSE /\ work[w].old.rv = api.rv
          /\ Overwrite(w) /\ Done(w) /\ UNCHANGED spent
       \/ /\ (api.rv # work[w].old.rv /\ UNCHANGED spent) \/ Fails("update")
          /\ Goto(w, "retry") /\ UNCHANGED <<apiVars, dirty>>
    /\ UNCHANGED <<cache, envVars, lost>>

-----------------------------------------------------------------------------
Step(w) ==
    \/ Begin(w) \/ ReadOld(w) \/ Skip(w) \/ ChooseDelete(w) \/ ChooseWrite(w)
    \/ NothingToWrite(w) \/ Refuse(w) \/ Delete(w) \/ Create(w) \/ Fetch(w) \/ Prepare(w)
    \/ Update(w) \/ RetryGet(w) \/ RetryUpdate(w)

Next ==
    \/ Deliver \/ Want \/ BootEnds \/ Custom
    \/ \E w \in Workers : Step(w)

Spec == Init /\ [][Next]_vars

\* The informer and the workers keep running
Fairness == WF_vars(Deliver) /\ \A w \in Workers : WF_vars(Step(w))

FairSpec == Spec /\ Fairness
-----------------------------------------------------------------------------
(* Properties *)

Quiet == ~dirty /\ watch = <<>> /\ \A w \in Workers : work[w] = Idle

\* The cluster has what Admiral wants it to have.  A user's service entry is
\* left alone, and one with invalid endpoints is not updated.
Agrees ==
    \/ IsCustom(api)
    \/ Dummy \in want \/ ~Valid(want)
    \/ IF want = {} THEN api = NoSE ELSE api # NoSE /\ api.spec = want

\* When all events are processed without an error, the service entry is the
\* one that Admiral's caches call for: no early return of
\* AddServiceEntriesWithDrWorker or addUpdateServiceEntry, no failed request
\* and no lag of the informer's cache leaves an old one behind.  Excepted is
\* what `lost` records: a read that failed, an update skipped in the boot phase,
\* an old entry with invalid endpoints only, two workers at once, a user's
\* entry that appears in between, and a cache that is compared with.
SettledAgrees == Quiet => (Agrees \/ lost)

\* The same as a promise: once the desired spec stays the same, the cluster
\* gets it and keeps it.
Converges == <>[](Agrees \/ lost)

\* A custom service entry that has reached Admiral's cache, with no request of
\* an earlier event under way, stays as it is: no failed request, no retry and
\* no other worker gets it overwritten or deleted later ("admiral will not take
\* any action on this SE").
CustomSurvives ==
    []((IsCustom(api) /\ cache = api /\ watch = <<>>
           /\ \A w \in Workers : work[w] = Idle)
        => [](IsCustom(api)))
=============================================================================
