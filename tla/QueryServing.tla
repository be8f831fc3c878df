---------------------------- MODULE QueryServing ----------------------------
(***************************************************************************)
(* A SPARQL query from its log record to its answer, on one query pod and  *)
(* one hydration pod, while publications move the active snapshot of the   *)
(* dataset.  The active snapshot is read several times on the way: for the *)
(* graph authorization, for the semantic state (and again for the          *)
(* authorization nested in it) and, on the hydration pod, for the physical *)
(* state.  Every read is an action of its own.                             *)
(*                                                                         *)
(* One dataset and one query text; a snapshot stands for everything        *)
(* same_active compares and for all artifacts bound to its manifest.  The  *)
(* load locks are the steps that hold them.  A cache key is the snapshot   *)
(* and the hydrate flag: the rest of QueryCacheKey is fixed by the query   *)
(* text, the principal and the snapshot.                                   *)
(***************************************************************************)
EXTENDS SnapshotLineage, Integers, FiniteSets

CONSTANTS
    Requests,
    Barren,     \* snapshots in which the query may qualify no entity
    MaxFaults   \* errors, clients that go away, further queries and keys left behind

ASSUME ServingAssumption ==
    /\ Cardinality(Datasets) = 1
    /\ Snapshots \subseteq Nat /\ IsFiniteSet(Snapshots) /\ None \notin Nat
    /\ IsFiniteSet(Requests)
    /\ Barren \subseteq Snapshots
    /\ MaxFaults \in Nat

Dataset == CHOOSE d \in Datasets : TRUE
Keys == Snapshots \X BOOLEAN

\* More mutexes than keys, leases and cleanup tasks can refer to.
Flights == 1 .. (Cardinality(Keys) + 2 * Cardinality(Requests) + 1)

VARIABLES
    request,    \* the progress of each query's future
    log,        \* query_execution_log (FAILED stands for TIMED_OUT too)
    semantic,   \* semantic cache of the query pod
    physical,   \* physical cache of the hydration pod
    results,    \* certified result cache of the query pod
    registry,   \* query_cache_flights: the mutex of each key
    cleanup,    \* the task each dropped flight lease spawned
    faults

lineage == <<active, prepared, served>>
caches == <<semantic, physical>>
flights == <<registry, cleanup>>
servingVars == <<lineage, request, log, caches, results, flights, faults>>

New == [pc |-> "new", hydrate |-> FALSE, wanted |-> None, retired |-> {}, graphs |-> None,
        sem |-> None, phys |-> None, flight |-> None, certified |-> FALSE,
        answer |-> None]

\* Snapshots are numbered in the order they were certified, each against an
\* earlier one or none; several may have been compiled against the same.
ServingInit ==
    /\ active = [d \in Datasets |-> None]
    /\ prepared \in [Snapshots -> Bindings]
    /\ \A s \in Snapshots : prepared[s].parent # None => prepared[s].parent < s
    /\ served = {}
    /\ request = [r \in Requests |-> New]
    /\ log = [r \in Requests |-> "ABSENT"]
    /\ semantic = None
    /\ physical = None
    /\ results = [k \in Keys |-> None]
    /\ registry = [k \in Keys |-> None]
    /\ cleanup = [r \in Requests |-> None]
    /\ faults = 0

At(r, pc) == request[r].pc = pc
Now == active[Dataset]

\* The load locks semantic_loads and physical_loads, held across several reads.
Free(steps) == \A q \in Requests : request[q].pc \notin steps
SemanticFree == Free({"semAuth", "semLoad"})
PhysicalFree == Free({"physAuth", "physLoad"})

Key(r) == <<request[r].sem, request[r].hydrate>>
HasLease(r) == request[r].flight # None

\* A step of a request.  A flight lease that goes out of scope with it spawns
\* the task that may remove the key.
Update(r, rec) ==
    /\ request' = [request EXCEPT ![r] = rec]
    /\ cleanup' = IF HasLease(r) /\ rec.flight = None
                  THEN [cleanup EXCEPT ![r] = [flight |-> request[r].flight, key |-> Key(r)]]
                  ELSE cleanup

Goto(r, pc) == Update(r, [request[r] EXCEPT !.pc = pc])

\* query_inner has returned its error: nothing of its work is left.
Over(pc) == [New EXCEPT !.pc = pc]

-----------------------------------------------------------------------------
(* Flights: one mutex per cache key, shared by the requests that hold a    *)
(* lease on it                                                             *)

Locked(r) == HasLease(r) /\ request[r].pc # "lock"

InUse(f) ==
    \/ \E k \in Keys : registry[k] = f
    \/ \E q \in Requests : request[q].flight = f
    \/ \E q \in Requests : cleanup[q] # None /\ cleanup[q].flight = f

Unused == CHOOSE f \in Flights : ~InUse(f)

\* Mutant: the key is removed although another request shares the mutex.
CleanupUncounted(r) ==
    /\ cleanup[r] # None
    /\ cleanup' = [cleanup EXCEPT ![r] = None]
    /\ registry' = [registry EXCEPT ![cleanup[r].key] = IF @ = cleanup[r].flight THEN None ELSE @]
    /\ UNCHANGED <<lineage, request, log, caches, results, faults>>

\* strong_count = 2: only the registry and this task still refer to the mutex.
\* The task runs on any thread: it may also count the reference of the dropped
\* lease itself, which goes only after drop has returned, or that of a task that
\* has just given the registry back, and then leaves the key to a later one.
Cleanup(r) ==
    /\ cleanup[r] # None
    /\ LET f == cleanup[r].flight
           k == cleanup[r].key
           last == /\ registry[k] = f
                   /\ \A q \in Requests : request[q].flight # f
                   /\ \A q \in Requests \ {r} : cleanup[q] # None => cleanup[q].flight # f
       IN \/ last /\ registry' = [registry EXCEPT ![k] = None] /\ UNCHANGED faults
          \/ ~last /\ UNCHANGED <<registry, faults>>
          \/ /\ last
             /\ faults < MaxFaults
             /\ faults' = faults + 1
             /\ UNCHANGED registry
    /\ cleanup' = [cleanup EXCEPT ![r] = None]
    /\ UNCHANGED <<lineage, request, log, caches, results>>

-----------------------------------------------------------------------------
(* The request                                                             *)

\* A client names no snapshot, or one it knows to be or to have been active.
begin_query_execution_log(r) ==
    /\ At(r, "new")
    /\ \E hydrate \in BOOLEAN, wanted \in served \cup {None} :
         Update(r, [New EXCEPT !.pc = "authorize", !.hydrate = hydrate, !.wanted = wanted,
                               !.retired = served \ {Now}])
    /\ log' = [log EXCEPT ![r] = "RUNNING"]
    /\ UNCHANGED <<lineage, caches, results, registry, faults>>

\* authorization_state reads the active snapshot under the authorization load
\* lock of its pod and returns a state of exactly that snapshot, cached or
\* loaded.  Nobody else looks at that cache while the lock is held and its
\* holder waits for nobody, so the call is one step and its cache is left out.
authorization_state(r) ==
    /\ At(r, "authorize")
    /\ Update(r, IF Now = None THEN Over("failing")
                 ELSE [request[r] EXCEPT !.pc = "semantic", !.graphs = Now])
    /\ UNCHANGED <<lineage, log, caches, results, registry, faults>>

\* Mutant: whatever is cached is served until the pod restarts.
SemanticReadCached(r) ==
    /\ At(r, "semantic")
    /\ SemanticFree
    /\ Update(r, IF Now = None THEN Over("failing")
                 ELSE IF semantic # None THEN [request[r] EXCEPT !.pc = "resolve", !.sem = semantic]
                 ELSE [request[r] EXCEPT !.pc = "semAuth", !.sem = Now])
    /\ UNCHANGED <<lineage, log, caches, results, registry, faults>>

SemanticRead(r) ==
    /\ At(r, "semantic")
    /\ SemanticFree
    /\ Update(r, IF Now = None THEN Over("failing")
                 ELSE IF semantic = Now THEN [request[r] EXCEPT !.pc = "resolve", !.sem = Now]
                 ELSE [request[r] EXCEPT !.pc = "semAuth", !.sem = Now])
    /\ UNCHANGED <<lineage, log, caches, results, registry, faults>>

\* Mutant: the nested call takes the semantic load lock once more.
SemanticAuthorizeReentrant(r) ==
    /\ At(r, "semAuth")
    /\ SemanticFree
    /\ Update(r, IF Now = request[r].sem THEN [request[r] EXCEPT !.pc = "semLoad"] ELSE Over("failing"))
    /\ UNCHANGED <<lineage, log, caches, results, registry, faults>>

\* The nested authorization_state: a publication since the first read is a
\* conflict.
SemanticAuthorize(r) ==
    /\ At(r, "semAuth")
    /\ Update(r, IF Now = request[r].sem THEN [request[r] EXCEPT !.pc = "semLoad"] ELSE Over("failing"))
    /\ UNCHANGED <<lineage, log, caches, results, registry, faults>>

SemanticLoad(r) ==
    /\ At(r, "semLoad")
    /\ semantic' = request[r].sem
    /\ Goto(r, "resolve")
    /\ UNCHANGED <<lineage, log, physical, results, registry, faults>>

semantic_state(r) == SemanticRead(r) \/ SemanticAuthorize(r) \/ SemanticLoad(r)

\* require_requested_snapshot
Requested(r) == request[r].wanted \in {None, request[r].sem}

Take(r, f) ==
    /\ At(r, "resolve")
    /\ Requested(r)
    /\ registry' = [registry EXCEPT ![Key(r)] = f]
    /\ Update(r, [request[r] EXCEPT !.pc = "lock", !.certified = TRUE, !.flight = f,
                                   !.graphs = request[r].sem])
    /\ UNCHANGED <<lineage, log, caches, results, faults>>

\* A query with an offline certificate.  The graph set it was first authorized
\* for must equal the one of the loaded snapshot, which it takes; then it gets a
\* lease on the mutex of its cache key, made when the registry has none.
query_cache_flight(r) == Take(r, IF registry[Key(r)] # None THEN registry[Key(r)] ELSE Unused)

\* An ad-hoc query keeps the graph set it was first authorized for; any other
\* query is refused.
resolve(r) ==
    /\ At(r, "resolve")
    /\ \/ Requested(r) /\ Goto(r, "execute")
       \/ Update(r, Over("failing"))
    /\ UNCHANGED <<lineage, log, caches, results, registry, faults>>

\* What is left of a request that has its answer.
Answered(r, answer) ==
    [request[r] EXCEPT !.pc = "respond", !.answer = answer, !.flight = None,
                       !.graphs = None, !.phys = None]

MutexFree(r) == \A q \in Requests : Locked(q) => request[q].flight # request[r].flight

\* Mutant: the entry is used without a look at whether there is one.
LookupUnchecked(r) ==
    /\ At(r, "lock")
    /\ MutexFree(r)
    /\ Update(r, Answered(r, results[Key(r)]))
    /\ UNCHANGED <<lineage, log, caches, results, registry, faults>>

\* lock_owned, then the lookup: only a holder of the mutex stores under the key.
\* An entry that was evicted, or fails its checksum or its validation, is a miss.
lookup(r) ==
    /\ At(r, "lock")
    /\ MutexFree(r)
    /\ \/ results[Key(r)] # None /\ Update(r, Answered(r, results[Key(r)]))
       \/ Goto(r, "execute")
    /\ UNCHANGED <<lineage, log, caches, results, registry, faults>>

Answer(r, hydrated) ==
    [snapshot |-> request[r].sem, graphs |-> request[r].graphs, hydrated |-> hydrated,
     hydrate |-> request[r].hydrate]

\* The evaluation ends, by its result or by the query timeout.  A result that is
\* not to be hydrated is complete, and so is one that qualifies no entity: it is
\* answered, and cached under the key of a hydrated query, without hydration.
execute(r) ==
    /\ At(r, "execute")
    /\ \/ /\ request[r].hydrate
          /\ Goto(r, "hydrate")
       \/ /\ request[r].hydrate => request[r].sem \in Barren
          /\ Update(r, [request[r] EXCEPT !.pc = "store", !.answer = Answer(r, None)])
       \/ Update(r, Over("failing"))
    /\ UNCHANGED <<lineage, log, caches, results, registry, faults>>

\* On the hydration pod: physical_state as semantic_state.
physical_state(r) ==
    \/ /\ At(r, "hydrate")
       /\ PhysicalFree
       /\ Now # None
       /\ Update(r, [request[r] EXCEPT !.pc = IF physical = Now THEN "physical" ELSE "physAuth",
                                       !.phys = Now])
       /\ UNCHANGED <<lineage, log, caches, results, registry, faults>>
    \/ /\ At(r, "physAuth")
       /\ Update(r, IF Now = request[r].phys THEN [request[r] EXCEPT !.pc = "physLoad"]
                    ELSE Over("failing"))
       /\ UNCHANGED <<lineage, log, caches, results, registry, faults>>
    \/ /\ At(r, "physLoad")
       /\ physical' = request[r].phys
       /\ Goto(r, "physical")
       /\ UNCHANGED <<lineage, log, semantic, results, registry, faults>>

\* Mutant: rows are hydrated from whatever the hydration pod serves.
HydrateUnchecked(r) ==
    /\ At(r, "physical")
    /\ Update(r, [request[r] EXCEPT !.pc = "store", !.answer = Answer(r, request[r].phys)])
    /\ UNCHANGED <<lineage, log, caches, results, registry, faults>>

\* require_physical_request refuses another snapshot; an active snapshot without
\* a serving root has no payload to hydrate.
hydrate(r) ==
    /\ At(r, "physical")
    /\ \/ /\ request[r].phys = request[r].sem
          /\ Update(r, [request[r] EXCEPT !.pc = "store", !.answer = Answer(r, request[r].phys)])
       \/ Update(r, Over("failing"))
    /\ UNCHANGED <<lineage, log, caches, results, registry, faults>>

\* The certified answer is cached if it can be; then the key is given back.
store(r) ==
    /\ At(r, "store")
    /\ IF request[r].certified
       THEN results' = [results EXCEPT ![Key(r)] = request[r].answer] \/ UNCHANGED results
       ELSE UNCHANGED results
    /\ Update(r, Answered(r, request[r].answer))
    /\ UNCHANGED <<lineage, log, caches, registry, faults>>

\* The record is finalized before the client gets its answer.
finalize_query_execution_log(r) ==
    /\ \/ /\ At(r, "respond")
          /\ log' = [log EXCEPT ![r] = "COMPLETED"]
       \/ /\ At(r, "failing")
          /\ log' = [log EXCEPT ![r] = "FAILED"]
    /\ Update(r, Over("ended"))
    /\ UNCHANGED <<lineage, caches, results, registry, faults>>

Running(r) == request[r].pc \notin {"new", "ended"}

\* An await returns an error; one in the finalization itself is the last.
Error(r) ==
    /\ Running(r)
    /\ faults < MaxFaults
    /\ faults' = faults + 1
    /\ Update(r, Over(IF request[r].pc \in {"respond", "failing"} THEN "ended" ELSE "failing"))
    /\ UNCHANGED <<lineage, log, caches, results, registry>>

\* The client goes away: the future is dropped where it stands, with its locks.
Disconnect(r) ==
    /\ Running(r)
    /\ faults < MaxFaults
    /\ faults' = faults + 1
    /\ Update(r, Over("ended"))
    /\ UNCHANGED <<lineage, log, caches, results, registry>>

\* Another query takes the place of one that has ended.
Repeat(r) ==
    /\ At(r, "ended")
    /\ cleanup[r] = None
    /\ faults < MaxFaults
    /\ faults' = faults + 1
    /\ Update(r, New)
    /\ log' = [log EXCEPT ![r] = "ABSENT"]
    /\ UNCHANGED <<lineage, caches, results, registry>>

Step(r) ==
    \/ begin_query_execution_log(r) \/ authorization_state(r) \/ semantic_state(r) \/ resolve(r)
    \/ query_cache_flight(r) \/ lookup(r) \/ execute(r)
    \/ physical_state(r) \/ hydrate(r) \/ store(r) \/ finalize_query_execution_log(r)

Publication ==
    /\ \E s \in Snapshots : Serve(s)
    /\ UNCHANGED <<request, log, caches, results, flights, faults>>

ServingNext ==
    \/ Publication
    \/ \E r \in Requests : Step(r) \/ Cleanup(r) \/ Error(r) \/ Disconnect(r) \/ Repeat(r)

\* Futures and spawned tasks are polled; loads, evaluations and calls return.
ServingSpec ==
    /\ ServingInit /\ [][ServingNext]_servingVars
    /\ \A r \in Requests : WF_servingVars(Step(r)) /\ WF_servingVars(Cleanup(r))

-----------------------------------------------------------------------------
(* Properties *)

Answers == [snapshot : Snapshots, graphs : Snapshots, hydrated : Snapshots \cup {None},
            hydrate : BOOLEAN]

ServingTypeOK ==
    /\ TypeOK
    /\ \A r \in Requests :
         /\ request[r].retired \subseteq served
         /\ {request[r].graphs, request[r].sem, request[r].phys}
              \subseteq served \cup {None}
         /\ request[r].flight \in Flights \cup {None}
         /\ request[r].answer \in
              IF request[r].pc \in {"store", "respond"} THEN Answers ELSE {None}
         /\ log[r] \in {"ABSENT", "RUNNING", "COMPLETED", "FAILED"}
    /\ {semantic, physical} \subseteq served \cup {None}
    /\ results \in [Keys -> Answers \cup {None}]
    /\ registry \in [Keys -> Flights \cup {None}]

\* "stale snapshot/root requests return conflict rather than mixed-version
\* results": the bindings and the hydrated rows of an answer are
\* of one snapshot, the requested one if any, cached or not; for a certified
\* query so is the graph set it was authorized for.
AnswerIsWhole ==
    \A r \in Requests : At(r, "respond") =>
      LET a == request[r].answer IN
      /\ a.snapshot = request[r].sem
      /\ a.hydrated \in {None, a.snapshot}
      /\ a.hydrate = request[r].hydrate
      /\ request[r].wanted \in {None, a.snapshot}
      /\ request[r].certified => a.graphs = a.snapshot

\* No answer comes from a snapshot that had been replaced before the query
\* began, whichever of the caches it went through.
NoStaleAnswer ==
    \A r \in Requests : At(r, "respond") => request[r].answer.snapshot \notin request[r].retired

\* "Identical concurrent misses on one replica are single-flight", also when the
\* mutex of the key has been removed from the registry and made anew.
SingleFlight ==
    \A q, r \in Requests : q # r /\ Locked(q) /\ Locked(r) => Key(q) # Key(r)

\* No query waits for ever for a load lock or a flight, although others fail,
\* disconnect or are evicted while they hold them.
QueriesEnd == \A r \in Requests : Running(r) ~> At(r, "ended")
=============================================================================
